-------------------------- MODULE OverlayStoreProofs --------------------------
(***************************************************************************)
(* Whichever calls meet, fail or die, the overlay under a name agrees with *)
(* itself, and what a service opens of the shared store is stored.         *)
(*                                                                         *)
(* The rows an index lists are stored before any directory holds it, so    *)
(* Kept is true of every directory a reader can meet between the two files *)
(* it reads.  That a rename only ever brings a directory under the name    *)
(* its manifest carries needs what each call holds at each of its places   *)
(* (HeldInv) and what it may be there (PhaseInv).  A step of one call      *)
(* leaves what another holds (OthersKeep), so a step has five things to    *)
(* show (StepOfOne); what several steps do to the disk is shown once       *)
(* (StageFilled, HiddenGoes, HiddenIsPlaced, CopyWritten, TreeMoved).      *)
(*                                                                         *)
(* That a complete copy stays (CopyInv) is about payloads, not files: each *)
(* overlay without its tree is one whose tree a migration has in its stage *)
(* (TreeInv), and each name ever in place has a copy somewhere (Safe),     *)
(* under it or under a name it migrated to; a migration to a third name    *)
(* keeps that, because heirs of an heir are heirs (HeirsStay, SafeChain).  *)
(* That a store at rest opens (QuietInv) is about the way back: while      *)
(* nothing is under a name, the call that took it away is still to rename. *)
(***************************************************************************)
EXTENDS OverlayStore, TLAPS

-------------------------------------------------------------------------------
(* The inductive invariant *)

\* An overlay whose files agree and which is called `name`.
Good(d, name) ==
    /\ d.manifest \in Manifests /\ d.manifest.name = name /\ d.manifest.layout = d.file
    /\ d.index \in Sets /\ d.manifest.rowCount = Cardinality(d.index)

\* What the shared store must have of a directory.
Kept(d) == d.file = "content" /\ d.index # Torn => d.index \subseteq stored

\* The name a stage carries.
StageName(c) == IF call[c].op = "replace" THEN Copy(c) ELSE Destination(c)

NameInv(n) == Exists(n) => Good(dir[n], n) /\ Kept(dir[n])

\* What a call holds: its backup, its stage, and the copy Replace imports, which is
\* not Good while its two files are written again.
HeldInv(c) ==
    /\ Exists(Backup(c)) => Good(dir[Backup(c)], call[c].name) /\ Kept(dir[Backup(c)])
    /\ Exists(Stage(c)) => Good(dir[Stage(c)], StageName(c)) /\ Kept(dir[Stage(c)])
    /\ Exists(Copy(c)) => Kept(dir[Copy(c)])
    /\ pc[c] \in {"retiring", "placing"} /\ call[c].op = "replace" /\ Exists(Copy(c)) =>
         Good(dir[Copy(c)], call[c].name)
    /\ pc[c] = "publishing" /\ Exists(Stage(c)) =>
         dir[Stage(c)].file = call[c].layout /\ dir[Stage(c)].index = call[c].rows
    /\ pc[c] \in {"naming", "naming manifest", "named"} =>
         /\ Exists(Copy(c)) /\ dir[Copy(c)].file = call[c].layout
         /\ call[c].layout = "content" => call[c].rows \subseteq stored
    /\ pc[c] = "named" => dir[Copy(c)].index = call[c].rows

HasRead(c) == seen[c] # None

\* What a call may be, and what it has, at each place in the code.
PhaseInv(c) ==
    /\ pc[c] # "idle" => call[c] # None
    /\ pc[c] \in {"idle", "looking"} =>
         ~Exists(Stage(c)) /\ ~Exists(Backup(c)) /\ ~Exists(Copy(c))
    /\ pc[c] = "looking" => call[c].op \in {"revise", "replace"}
    /\ pc[c] = "checking" => call[c].op # "revise"
    /\ pc[c] = "reading" => call[c].op \in {"revise", "migrate"}
    /\ pc[c] \in {"indexing", "moving"} => call[c].op = "migrate"
    /\ pc[c] \in {"indexing", "comparing"} => HasRead(c)
    /\ pc[c] \in {"checking", "storing"} /\ call[c].op = "migrate" =>
         HasRead(c) /\ seen[c].rows \in Sets
    /\ pc[c] = "storing" /\ call[c].op = "revise" => HasRead(c)
    /\ pc[c] = "comparing" => call[c].op = "revise" /\ call[c].rows \subseteq stored
    /\ pc[c] = "publishing" => call[c].op \in {"import", "replace"}
    /\ pc[c] \in {"naming", "naming manifest", "named"} => call[c].op = "replace"
    /\ pc[c] = "probing" => call[c].op \in {"revise", "migrate"}
    /\ pc[c] \in {"retiring", "placing", "restoring", "undoing"} => call[c].op # "import"
    /\ pc[c] = "moving" => Exists(Stage(c))
    /\ pc[c] \in {"probing", "retiring", "placing", "restoring", "undoing"}
         /\ call[c].op = "migrate" => Exists(Stage(c))

ReadInv(r) ==
    /\ rd[r].at = "indexing" => rd[r].cur # None
    /\ \A o \in rd[r].got : o.manifest.layout = "content" => o.rows \subseteq stored

Inv ==
    /\ TypeOK
    /\ \A n \in Names : NameInv(n)
    /\ \A c \in Calls : HeldInv(c) /\ PhaseInv(c)
    /\ \A r \in Readers : ReadInv(r)

-------------------------------------------------------------------------------
(* The places, and a new directory *)

\* The hidden directories of the calls, the copies and the names are all apart.
LEMMA PlacesAreApart ==
    /\ \A c \in Calls : {Stage(c), Backup(c), Copy(c)} \subseteq Places
    /\ Names \subseteq Places /\ Visible \subseteq Places
    /\ \A c, d \in Calls : Stage(c) # Backup(d) /\ Stage(c) # Copy(d) /\ Backup(c) # Copy(d)
    /\ \A c, d \in Calls : c # d =>
         Stage(c) # Stage(d) /\ Backup(c) # Backup(d) /\ Copy(c) # Copy(d)
    /\ \A n \in Names, c \in Calls : n # Stage(c) /\ n # Backup(c) /\ n # Copy(c)
    /\ \A c \in Calls : Copy(c) \in Visible
    /\ Names \subseteq Visible
PROOF
<1>1. \A c, d \in Calls : Stage(c) # Backup(d) /\ Stage(c) # Copy(d) /\ Backup(c) # Copy(d)
  BY DEF Stage, Backup, Copy
<1>2. \A c, d \in Calls : c # d =>
        Stage(c) # Stage(d) /\ Backup(c) # Backup(d) /\ Copy(c) # Copy(d)
  BY DEF Stage, Backup, Copy
<1>3. \A n \in Names, c \in Calls : n # Stage(c) /\ n # Backup(c) /\ n # Copy(c)
  BY HiddenAreNoNames
<1>4. /\ \A c \in Calls : {Stage(c), Backup(c), Copy(c)} \subseteq Places
      /\ Names \subseteq Places /\ Visible \subseteq Places
      /\ \A c \in Calls : Copy(c) \in Visible
      /\ Names \subseteq Visible
  BY DEF Places, Visible
<1>. QED
  BY <1>1, <1>2, <1>3, <1>4

\* A new directory is a directory, sound under its name, and not None.
LEMMA OverlayIsGood ==
    ASSUME NEW name \in Visible, NEW layout \in Layouts, NEW rows \in Sets, NEW rev \in Nat
    PROVE  LET d == Overlay(name, layout, rows, rev) IN
           /\ d \in Overlays /\ d # None /\ Good(d, name)
           /\ d.file = layout /\ d.index = rows
PROOF
<1>1. Manifest(name, layout, rows, rev) \in Manifests
  BY DEF Manifest, Manifests
<1>2. rows \in SUBSET Payloads
  BY SetsAssumption
<1>3. Overlay(name, layout, rows, rev) \in Overlays
  BY <1>1, <1>2 DEF Overlay, Overlays
<1>. QED
  BY <1>1, <1>3, NoneIsApart DEF Overlay, Manifest, Good

-------------------------------------------------------------------------------
(* What a step of one call leaves to the others *)

\* A step of c changes nothing of another call, and the store only grows.
Own(c) ==
    /\ \A d \in Calls \ {c} :
         /\ pc'[d] = pc[d] /\ call'[d] = call[d] /\ seen'[d] = seen[d]
         /\ dir'[Stage(d)] = dir[Stage(d)] /\ dir'[Backup(d)] = dir[Backup(d)]
         /\ dir'[Copy(d)] = dir[Copy(d)]
    /\ stored \subseteq stored'
    /\ rd' = rd

\* What another call holds, where it is and what is open stay as they are.
LEMMA OthersKeep ==
    ASSUME Inv, NEW c \in Calls, Own(c)
    PROVE  /\ \A d \in Calls \ {c} : HeldInv(d)' /\ PhaseInv(d)'
           /\ \A r \in Readers : ReadInv(r)'
PROOF
<1>1. ASSUME NEW d \in Calls \ {c} PROVE HeldInv(d)'
  <2>1. HeldInv(d) /\ d \in Calls
    BY DEF Inv
  <2>2. /\ pc'[d] = pc[d] /\ call'[d] = call[d] /\ stored \subseteq stored'
        /\ dir'[Stage(d)] = dir[Stage(d)] /\ dir'[Backup(d)] = dir[Backup(d)]
        /\ dir'[Copy(d)] = dir[Copy(d)]
    BY DEF Own
  <2>. QED
    BY <2>1, <2>2 DEF HeldInv, Kept, Good, StageName, Destination, Exists
<1>2. ASSUME NEW d \in Calls \ {c} PROVE PhaseInv(d)'
  <2>1. PhaseInv(d) /\ d \in Calls
    BY DEF Inv
  <2>2. /\ pc'[d] = pc[d] /\ call'[d] = call[d] /\ seen'[d] = seen[d] /\ stored \subseteq stored'
        /\ dir'[Stage(d)] = dir[Stage(d)] /\ dir'[Backup(d)] = dir[Backup(d)]
        /\ dir'[Copy(d)] = dir[Copy(d)]
    BY DEF Own
  <2>. QED
    BY <2>1, <2>2 DEF PhaseInv, HasRead, Exists
<1>3. ASSUME NEW r \in Readers PROVE ReadInv(r)'
  BY DEF Inv, ReadInv, Own
<1>. QED
  BY <1>1, <1>2, <1>3

\* So a step of c has five things to show.
LEMMA StepOfOne ==
    ASSUME Inv, NEW c \in Calls, Own(c), TypeOK', HeldInv(c)', PhaseInv(c)',
           \A n \in Names : NameInv(n)'
    PROVE  Inv'
PROOF
<1>1. \A d \in Calls \ {c} : HeldInv(d)' /\ PhaseInv(d)'
  BY OthersKeep
<1>2. \A r \in Readers : ReadInv(r)'
  BY OthersKeep
<1>3. \A d \in Calls : HeldInv(d)' /\ PhaseInv(d)'
  BY <1>1
<1>. QED
  BY <1>2, <1>3 DEF Inv

\* A step that leaves the directories alone leaves the overlays as they are.
LEMMA NamesKeep ==
    ASSUME Inv, dir' = dir, stored \subseteq stored'
    PROVE  \A n \in Names : NameInv(n)'
PROOF
  BY DEF Inv, NameInv, Exists, Good, Kept

\* And one that renames or writes only what is hidden.
LEMMA NameKeeps ==
    ASSUME Inv, NEW n \in Names, dir'[n] = dir[n], stored \subseteq stored'
    PROVE  NameInv(n)'
PROOF
  BY DEF Inv, NameInv, Exists, Good, Kept

-------------------------------------------------------------------------------
(* Steps that leave the disk alone *)

\* A call takes its arguments.
LEMMA BeginStep == ASSUME Inv, NEW c \in Calls, Begin(c) PROVE Inv'
PROOF
<1>1. PICK op \in Ops, name \in Names, to \in Names, rows \in Sets, layout \in Layouts :
        /\ op # "migrate" => to = name
        /\ op = "revise" => layout = "content"
        /\ op = "migrate" => layout = "content" /\ rows = CHOOSE s \in Sets : TRUE
        /\ call' = [call EXCEPT ![c] = [op |-> op, name |-> name, to |-> to,
                                        rows |-> rows, layout |-> layout]]
        /\ Goto(c, CASE op = "import" -> "checking"
                     [] op = "migrate" -> "reading"
                     [] OTHER -> "looking")
  BY DEF Begin
<1>2. TypeOK /\ PhaseInv(c) /\ pc[c] = "idle"
  BY DEF Inv, Begin
<1>3. UNCHANGED <<dir, stored, seen, had, rd, halted, made>>
  BY DEF Begin
<1> DEFINE req == [op |-> op, name |-> name, to |-> to, rows |-> rows, layout |-> layout]
<1>4. req \in Requests /\ req # None
  BY OpsAssumption, NoneIsApart DEF Requests
<1>5. call' \in [Calls -> Requests \cup {None}] /\ call'[c] = req
  BY <1>1, <1>2, <1>4 DEF TypeOK
<1>6. op \in {"import", "revise", "replace", "migrate"}
  BY OpsAssumption
<1>7. /\ op = "import" => pc'[c] = "checking"
      /\ op = "migrate" => pc'[c] = "reading"
      /\ op \in {"revise", "replace"} => pc'[c] = "looking"
      /\ pc' \in [Calls -> {"idle", "looking", "checking", "reading", "indexing", "storing",
                            "comparing", "moving", "publishing", "naming", "naming manifest",
                            "named", "probing", "retiring", "placing", "restoring", "dropping",
                            "undoing", "recovering", "over"}]
  BY <1>1, <1>2, <1>6 DEF TypeOK, Goto
<1>8. TypeOK'
  BY <1>2, <1>3, <1>5, <1>7 DEF TypeOK
<1>9. Own(c)
  BY <1>1, <1>2, <1>3 DEF Own, TypeOK, Goto
<1>10. ~Exists(Stage(c)) /\ ~Exists(Backup(c)) /\ ~Exists(Copy(c))
  BY <1>2 DEF PhaseInv
<1>11. HeldInv(c)'
  BY <1>3, <1>6, <1>7, <1>10 DEF HeldInv, Exists
<1>12. PhaseInv(c)'
  <2>1. call'[c] # None /\ call'[c].op = op
    BY <1>4, <1>5
  <2>. QED
    BY <1>3, <1>6, <1>7, <1>10, <2>1 DEF PhaseInv, Exists
<1>. QED
  BY <1>3, <1>8, <1>9, <1>11, <1>12, NamesKeep, StepOfOne

\* Revise or Replace finds what it is called for, or becomes an Import.
LEMMA LookStep == ASSUME Inv, NEW c \in Calls, Look(c) PROVE Inv'
PROOF
<1>1. TypeOK /\ PhaseInv(c) /\ pc[c] = "looking"
  BY DEF Inv, Look
<1>2. UNCHANGED <<dir, stored, seen, had, rd, halted, made>>
  BY DEF Look
<1>3. call[c] \in Requests /\ call[c].op \in {"revise", "replace"}
  BY <1>1 DEF PhaseInv, TypeOK
<1>4. ~Exists(Stage(c)) /\ ~Exists(Backup(c)) /\ ~Exists(Copy(c))
  BY <1>1 DEF PhaseInv
<1>5. \/ /\ call' = call
         /\ pc' = [pc EXCEPT ![c] = IF call[c].op = "revise" THEN "reading" ELSE "checking"]
      \/ /\ call' = [call EXCEPT ![c].op = "import"]
         /\ pc' = [pc EXCEPT ![c] = "checking"]
  BY DEF Look, Goto
<1>6. /\ [call[c] EXCEPT !.op = "import"] \in Requests
      /\ [call[c] EXCEPT !.op = "import"].op = "import"
  BY <1>3 DEF Requests
<1>7. /\ call' \in [Calls -> Requests \cup {None}] /\ call'[c] \in Requests
      /\ \/ call'[c].op = "revise" /\ pc'[c] = "reading"
         \/ call'[c].op \in {"replace", "import"} /\ pc'[c] = "checking"
  <2> DEFINE old == call[c]
             new == [old EXCEPT !.op = "import"]
  <2>1. /\ call \in [Calls -> Requests \cup {None}] /\ new \in Requests /\ new.op = "import"
        /\ DOMAIN pc = Calls
    BY <1>1, <1>6 DEF TypeOK
  <2>2. \/ call' = call /\ pc' = [pc EXCEPT ![c] = IF old.op = "revise" THEN "reading"
                                                                      ELSE "checking"]
        \/ call' = [call EXCEPT ![c] = new] /\ pc' = [pc EXCEPT ![c] = "checking"]
    BY <1>5
  <2>3. old \in Requests /\ old.op \in {"revise", "replace"} /\ call[c] = old
    BY <1>3
  <2> HIDE DEF old, new
  <2>. QED
    BY <2>1, <2>2, <2>3
<1>8. TypeOK'
  <2>1. \E q \in {"reading", "checking"} : pc' = [pc EXCEPT ![c] = q]
    BY <1>5
  <2>. QED
    BY <1>1, <1>2, <1>7, <2>1 DEF TypeOK
<1>9. Own(c)
  BY <1>1, <1>2, <1>5 DEF Own, TypeOK
<1>10. HeldInv(c)'
  BY <1>2, <1>4, <1>7 DEF HeldInv, Exists
<1>11. PhaseInv(c)'
  <2>1. call'[c] # None
    BY <1>7, NoneIsApart
  <2>. QED
    BY <1>2, <1>4, <1>7, <2>1 DEF PhaseInv, Exists
<1>. QED
  BY <1>2, <1>8, <1>9, <1>10, <1>11, NamesKeep, StepOfOne

\* A call that is at work goes elsewhere, with what it has.
LEMMA CheckStep == ASSUME Inv, NEW c \in Calls, Check(c) PROVE Inv'
PROOF
<1>1. TypeOK /\ PhaseInv(c) /\ HeldInv(c) /\ pc[c] = "checking"
  BY DEF Inv, Check
<1>2. UNCHANGED <<dir, stored, call, seen, had, rd, halted, made>>
  BY DEF Check, Moves
<1>3. PICK q \in {"over", "storing"} : pc' = [pc EXCEPT ![c] = q]
  BY DEF Check, Moves, Goto
<1>4. TypeOK' /\ pc'[c] = q
  BY <1>1, <1>2, <1>3 DEF TypeOK
<1>5. Own(c)
  BY <1>1, <1>2, <1>3 DEF Own, TypeOK
<1>6. HeldInv(c)'
  BY <1>1, <1>2, <1>4 DEF HeldInv, Exists, Good, Kept, StageName, Destination
<1>7. PhaseInv(c)'
  BY <1>1, <1>2, <1>4 DEF PhaseInv, Exists, HasRead
<1>. QED
  BY <1>2, <1>4, <1>5, <1>6, <1>7, NamesKeep, StepOfOne

\* A call only goes elsewhere, with what it has: it fails, or ends.
LEMMA GoesOn ==
    ASSUME Inv, NEW c \in Calls, NEW q \in {"over", "recovering", "restoring", "undoing"},
           pc[c] # "idle", pc' = [pc EXCEPT ![c] = q],
           q \in {"restoring", "undoing"} =>
             call[c].op # "import" /\ (call[c].op = "migrate" => Exists(Stage(c))),
           UNCHANGED <<dir, made, stored, call, seen, had, rd>>, halted' \subseteq Calls
    PROVE  Inv'
PROOF
<1>1. TypeOK /\ PhaseInv(c) /\ HeldInv(c)
  BY DEF Inv
<1>2. TypeOK' /\ pc'[c] = q
  BY <1>1 DEF TypeOK
<1>3. Own(c)
  BY <1>1 DEF Own, TypeOK
<1>4. HeldInv(c)'
  BY <1>1, <1>2 DEF HeldInv, Exists, Good, Kept, StageName, Destination
<1>5. PhaseInv(c)'
  BY <1>1, <1>2 DEF PhaseInv, Exists
<1>. QED
  BY <1>2, <1>3, <1>4, <1>5, NamesKeep, StepOfOne

LEMMA CrashStep == ASSUME Inv, NEW c \in Calls, Crash(c) PROVE Inv'
PROOF
<1>1. pc[c] # "idle" /\ pc' = [pc EXCEPT ![c] = "over"]
  BY DEF Crash, Goto
<1>2. UNCHANGED <<dir, made, stored, call, seen, had, rd>> /\ halted' \subseteq Calls
  BY DEF Crash, Inv, TypeOK
<1>. QED
  BY <1>1, <1>2, GoesOn

LEMMA ProbeStep == ASSUME Inv, NEW c \in Calls, Probe(c) PROVE Inv'
PROOF
<1>1. TypeOK /\ PhaseInv(c) /\ HeldInv(c) /\ pc[c] = "probing"
  BY DEF Inv, Probe
<1>2. UNCHANGED <<dir, stored, call, seen, rd, halted, made>>
      /\ had' = [had EXCEPT ![c] = Exists(call[c].name)]
  BY DEF Probe
<1>3. PICK q \in {"retiring", "placing"} : pc' = [pc EXCEPT ![c] = q]
  BY DEF Probe, Goto
<1>4. had' \in [Calls -> BOOLEAN]
  BY <1>1, <1>2 DEF TypeOK, Exists
<1>5. TypeOK' /\ pc'[c] = q
  BY <1>1, <1>2, <1>3, <1>4 DEF TypeOK
<1>6. Own(c)
  BY <1>1, <1>2, <1>3 DEF Own, TypeOK
<1>7. call[c].op \in {"revise", "migrate"}
  BY <1>1 DEF PhaseInv
<1>8. HeldInv(c)'
  BY <1>1, <1>2, <1>5, <1>7 DEF HeldInv, Exists, Good, Kept, StageName, Destination
<1>9. PhaseInv(c)'
  BY <1>1, <1>2, <1>5, <1>7 DEF PhaseInv, Exists, HasRead
<1>. QED
  BY <1>2, <1>5, <1>6, <1>8, <1>9, NamesKeep, StepOfOne

\* Revise and Migrate read the manifest of an overlay that is in place.
LEMMA ReadManifestStep == ASSUME Inv, NEW c \in Calls, ReadManifest(c) PROVE Inv'
PROOF
<1>1. TypeOK /\ PhaseInv(c) /\ HeldInv(c) /\ pc[c] = "reading"
  BY DEF Inv, ReadManifest
<1>2. UNCHANGED <<dir, stored, call, had, rd, halted, made>>
  BY DEF ReadManifest
<1>3. call[c] \in Requests /\ call[c].op \in {"revise", "migrate"}
  BY <1>1 DEF PhaseInv, TypeOK
<1>4. call[c].name \in Names
  BY <1>3 DEF Requests
<1> DEFINE read == [manifest |-> dir[call[c].name].manifest, rows |-> {}]
<1>5. \/ seen' = seen /\ pc' = [pc EXCEPT ![c] = "over"]
      \/ /\ Exists(call[c].name)
         /\ seen' = [seen EXCEPT ![c] = read]
         /\ pc' = [pc EXCEPT ![c] = IF call[c].op = "revise" THEN "storing" ELSE "indexing"]
  BY DEF ReadManifest, Goto, Exists
<1>6. Exists(call[c].name) => read \in Readings /\ read # None
  <2>1. Exists(call[c].name) => dir[call[c].name].manifest \in Manifests
    BY <1>4 DEF Inv, NameInv, Good
  <2>. QED
    BY <2>1, NoneIsApart DEF Readings
<1>7. seen' \in [Calls -> Readings \cup {None}]
      /\ \/ pc'[c] = "over"
         \/ /\ seen'[c] # None
            /\ \/ call[c].op = "revise" /\ pc'[c] = "storing"
               \/ call[c].op = "migrate" /\ pc'[c] = "indexing"
  <2> HIDE DEF read
  <2>1. DOMAIN pc = Calls /\ seen \in [Calls -> Readings \cup {None}]
    BY <1>1 DEF TypeOK
  <2>. QED
    BY <1>3, <1>5, <1>6, <2>1
<1>8. TypeOK'
  BY <1>1, <1>2, <1>5, <1>7 DEF TypeOK
<1>9. Own(c)
  BY <1>1, <1>2, <1>5 DEF Own, TypeOK
<1>10. HeldInv(c)'
  BY <1>1, <1>2, <1>7 DEF HeldInv, Exists, Good, Kept, StageName, Destination
<1>11. PhaseInv(c)'
  BY <1>1, <1>2, <1>7 DEF PhaseInv, Exists, HasRead
<1>. QED
  BY <1>2, <1>8, <1>9, <1>10, <1>11, NamesKeep, StepOfOne

\* Migrate reads the index of an overlay that is in place.
LEMMA ReadIndexStep == ASSUME Inv, NEW c \in Calls, ReadIndex(c) PROVE Inv'
PROOF
<1>1. TypeOK /\ PhaseInv(c) /\ HeldInv(c) /\ pc[c] = "indexing"
  BY DEF Inv, ReadIndex
<1>2. UNCHANGED <<dir, stored, call, had, rd, halted, made>>
  BY DEF ReadIndex
<1>3. /\ call[c] \in Requests /\ call[c].op = "migrate" /\ call[c] # None
      /\ seen[c] \in Readings /\ seen[c] # None
  BY <1>1 DEF PhaseInv, TypeOK, HasRead
<1>4. call[c].name \in Names
  BY <1>3 DEF Requests
<1>5. \/ seen' = seen /\ pc' = [pc EXCEPT ![c] = "over"]
      \/ /\ Exists(call[c].name)
         /\ seen' = [seen EXCEPT ![c].rows = dir[call[c].name].index]
         /\ pc' = [pc EXCEPT ![c] = IF call[c].to = call[c].name THEN "storing" ELSE "checking"]
  BY DEF ReadIndex, Goto, Exists
<1>6. CASE seen' = seen /\ pc' = [pc EXCEPT ![c] = "over"]
  <2>1. TypeOK' /\ pc'[c] = "over"
    BY <1>1, <1>2, <1>6 DEF TypeOK
  <2>2. Own(c)
    BY <1>1, <1>2, <1>6 DEF Own, TypeOK
  <2>3. HeldInv(c)'
    BY <1>1, <1>2, <2>1 DEF HeldInv, Exists, Good, Kept, StageName, Destination
  <2>4. PhaseInv(c)'
    BY <1>1, <1>2, <1>6, <2>1 DEF PhaseInv, Exists, HasRead
  <2>. QED
    BY <1>2, <2>1, <2>2, <2>3, <2>4, NamesKeep, StepOfOne
<1>7. CASE /\ Exists(call[c].name)
           /\ seen' = [seen EXCEPT ![c].rows = dir[call[c].name].index]
           /\ pc' = [pc EXCEPT ![c] = IF call[c].to = call[c].name THEN "storing"
                                                                   ELSE "checking"]
  <2>1. dir[call[c].name].index \in Sets
    BY <1>4, <1>7 DEF Inv, NameInv, Good
  <2> DEFINE i == dir[call[c].name].index
  <2>2. /\ [seen[c] EXCEPT !.rows = i] \in Readings
        /\ [seen[c] EXCEPT !.rows = i].rows = i
    BY <1>3, <2>1 DEF Readings
  <2>3. seen' \in [Calls -> Readings \cup {None}] /\ seen'[c] \in Readings /\ seen'[c].rows \in Sets
    BY <1>1, <1>7, <2>1, <2>2 DEF TypeOK
  <2>4. TypeOK' /\ pc'[c] \in {"storing", "checking"}
    BY <1>1, <1>2, <1>7, <2>3 DEF TypeOK
  <2>5. Own(c)
    BY <1>1, <1>2, <1>7 DEF Own, TypeOK
  <2>6. HeldInv(c)'
    BY <1>1, <1>2, <2>4 DEF HeldInv, Exists, Good, Kept, StageName, Destination
  <2>7. PhaseInv(c)'
    <3>1. seen'[c] # None
      BY <2>3, NoneIsApart
    <3>. QED
      BY <1>2, <1>3, <2>3, <2>4, <3>1 DEF PhaseInv, Exists, HasRead
  <2>. QED
    BY <1>2, <2>4, <2>5, <2>6, <2>7, NamesKeep, StepOfOne
<1>. QED
  BY <1>5, <1>6, <1>7

-------------------------------------------------------------------------------
(* Steps that store payloads and fill the stage *)

\* One hidden or visible directory of a call changes: what stays.
LEMMA OneWritten ==
    ASSUME TypeOK, NEW p \in Places, NEW d \in Overlays \cup {None},
           dir' = [dir EXCEPT ![p] = d]
    PROVE  /\ dir' \in [Places -> Overlays \cup {None}]
           /\ dir'[p] = d
           /\ \A q \in Places : q # p => dir'[q] = dir[q]
PROOF
  BY DEF TypeOK

\* Of the directories of a call only p changes.
LEMMA OwnPlace ==
    ASSUME NEW c \in Calls, NEW p \in {Stage(c), Backup(c), Copy(c)},
           \A q \in Places : q # p => dir'[q] = dir[q]
    PROVE  /\ \A e \in Calls \ {c} : /\ dir'[Stage(e)] = dir[Stage(e)]
                                     /\ dir'[Backup(e)] = dir[Backup(e)]
                                     /\ dir'[Copy(e)] = dir[Copy(e)]
           /\ \A n \in Names : dir'[n] = dir[n]
PROOF
<1>1. ASSUME NEW e \in Calls \ {c}
      PROVE  /\ p # Stage(e) /\ p # Backup(e) /\ p # Copy(e)
             /\ {Stage(e), Backup(e), Copy(e)} \subseteq Places
  BY PlacesAreApart
<1>2. ASSUME NEW n \in Names PROVE p # n /\ n \in Places
  BY PlacesAreApart
<1>. QED
  BY <1>1, <1>2

\* Import stores what it brings before its index can be seen.
LEMMA StoreImportedStep == ASSUME Inv, NEW c \in Calls, StoreImported(c) PROVE Inv'
PROOF
<1>1. TypeOK /\ PhaseInv(c) /\ HeldInv(c) /\ pc[c] = "storing"
      /\ call[c].op \in {"import", "replace"}
  BY DEF Inv, StoreImported
<1>2. UNCHANGED <<call, seen, had, rd, halted, made>>
  BY DEF StoreImported
<1>3. call[c] \in Requests /\ call[c] # None
  BY <1>1 DEF PhaseInv, TypeOK
<1>4. call[c].name \in Names /\ call[c].rows \in Sets /\ call[c].layout \in Layouts
  BY <1>3 DEF Requests
<1>5. call[c].rows \subseteq Payloads
  BY <1>4, SetsAssumption
<1>6. StageName(c) = ImportPlace(c) /\ ImportPlace(c) \in Visible
  BY <1>1, <1>4, PlacesAreApart DEF StageName, ImportPlace, Destination
<1> DEFINE new == Overlay(ImportPlace(c), call[c].layout, call[c].rows, 1)
<1>7. new \in Overlays /\ new # None /\ Good(new, StageName(c))
      /\ new.file = call[c].layout /\ new.index = call[c].rows
  BY <1>4, <1>6, OverlayIsGood
<1>8. CASE /\ stored' = IF call[c].layout = "content" THEN stored \cup call[c].rows ELSE stored
           /\ dir' = [dir EXCEPT ![Stage(c)] = new]
           /\ pc' = [pc EXCEPT ![c] = "publishing"]
  <2> HIDE DEF new
  <2>1. Stage(c) \in Places
    BY PlacesAreApart
  <2>2. /\ dir' \in [Places -> Overlays \cup {None}] /\ dir'[Stage(c)] = new
        /\ \A q \in Places : q # Stage(c) => dir'[q] = dir[q]
    BY <1>1, <1>7, <1>8, <2>1, OneWritten
  <2>3. /\ \A e \in Calls \ {c} : /\ dir'[Stage(e)] = dir[Stage(e)]
                                  /\ dir'[Backup(e)] = dir[Backup(e)]
                                  /\ dir'[Copy(e)] = dir[Copy(e)]
        /\ \A n \in Names : dir'[n] = dir[n]
    BY <2>2, OwnPlace
  <2>4. dir'[Backup(c)] = dir[Backup(c)] /\ dir'[Copy(c)] = dir[Copy(c)]
    BY <2>2, PlacesAreApart
  <2>5. /\ stored \subseteq stored' /\ stored' \subseteq Payloads
        /\ call[c].layout = "content" => call[c].rows \subseteq stored'
    BY <1>1, <1>5, <1>8 DEF TypeOK
  <2>6. TypeOK' /\ pc'[c] = "publishing"
    BY <1>1, <1>2, <1>8, <2>2, <2>5 DEF TypeOK
  <2>7. Own(c)
    BY <1>1, <1>2, <1>8, <2>3, <2>5 DEF Own, TypeOK
  <2>8. HeldInv(c)'
    <3>1. Good(new, StageName(c)')
      BY <1>2, <1>7 DEF StageName, Destination
    <3>. QED
      BY <1>1, <1>2, <1>7, <2>2, <2>4, <2>5, <2>6, <3>1 DEF HeldInv, Exists, Good, Kept
  <2>9. PhaseInv(c)'
    BY <1>1, <1>2, <1>3, <2>6 DEF PhaseInv
  <2>10. \A n \in Names : NameInv(n)'
    BY <2>3, <2>5, NameKeeps
  <2>. QED
    BY <2>6, <2>7, <2>8, <2>9, <2>10, StepOfOne
<1>9. CASE /\ \E part \in SUBSET call[c].rows :
                stored' = IF call[c].layout = "content" THEN stored \cup part ELSE stored
           /\ pc' = [pc EXCEPT ![c] = "over"] /\ dir' = dir
  <2>1. stored \subseteq stored' /\ stored' \subseteq Payloads
    BY <1>1, <1>5, <1>9 DEF TypeOK
  <2>2. TypeOK' /\ pc'[c] = "over"
    BY <1>1, <1>2, <1>9, <2>1 DEF TypeOK
  <2>3. Own(c)
    BY <1>1, <1>2, <1>9, <2>1 DEF Own, TypeOK
  <2>4. HeldInv(c)'
    BY <1>1, <1>2, <1>9, <2>1, <2>2 DEF HeldInv, Exists, Good, Kept, StageName, Destination
  <2>5. PhaseInv(c)'
    BY <1>2, <1>3, <2>2 DEF PhaseInv
  <2>. QED
    BY <1>9, <2>1, <2>2, <2>3, <2>4, <2>5, NamesKeep, StepOfOne
<1>. QED
  BY <1>8, <1>9 DEF StoreImported, Goto

LEMMA StoreRevisedStep == ASSUME Inv, NEW c \in Calls, StoreRevised(c) PROVE Inv'
PROOF
<1>1. TypeOK /\ PhaseInv(c) /\ HeldInv(c) /\ pc[c] = "storing" /\ call[c].op = "revise"
  BY DEF Inv, StoreRevised
<1>2. UNCHANGED <<dir, call, seen, had, rd, halted, made>>
  BY DEF StoreRevised
<1>3. call[c] \in Requests /\ call[c] # None /\ seen[c] # None
  BY <1>1 DEF PhaseInv, TypeOK, HasRead
<1>4. call[c].rows \subseteq Payloads
  BY <1>3, SetsAssumption DEF Requests
<1>5. \/ stored' = stored \cup call[c].rows /\ pc' = [pc EXCEPT ![c] = "comparing"]
      \/ (\E part \in SUBSET call[c].rows : stored' = stored \cup part)
         /\ pc' = [pc EXCEPT ![c] = "over"]
  BY DEF StoreRevised, Goto
<1>6. stored \subseteq stored' /\ stored' \subseteq Payloads
  BY <1>1, <1>4, <1>5 DEF TypeOK
<1>7. /\ TypeOK'
      /\ pc'[c] = "over" \/ (pc'[c] = "comparing" /\ call[c].rows \subseteq stored')
  BY <1>1, <1>2, <1>5, <1>6 DEF TypeOK
<1>8. Own(c)
  BY <1>1, <1>2, <1>5, <1>6 DEF Own, TypeOK
<1>9. HeldInv(c)'
  BY <1>1, <1>2, <1>6, <1>7 DEF HeldInv, Exists, Good, Kept, StageName, Destination
<1>10. PhaseInv(c)'
  BY <1>1, <1>2, <1>3, <1>7 DEF PhaseInv, HasRead
<1>. QED
  BY <1>2, <1>6, <1>7, <1>8, <1>9, <1>10, NamesKeep, StepOfOne

\* A stage is filled with a directory whose payloads are stored.
LEMMA StageFilled ==
    ASSUME Inv, NEW c \in Calls, pc[c] \in {"comparing", "storing"},
           call[c].op \in {"revise", "migrate"}, HasRead(c),
           NEW rows \in Sets, NEW rev \in Nat, NEW q \in {"probing", "moving"},
           call[c].op = "revise" => q = "probing",
           pc' = [pc EXCEPT ![c] = q],
           dir' = [dir EXCEPT ![Stage(c)] = Overlay(Destination(c), "content", rows, rev)],
           stored \subseteq stored', stored' \subseteq Payloads, rows \subseteq stored',
           UNCHANGED <<call, seen, had, rd, halted, made>>
    PROVE  Inv'
PROOF
<1>1. TypeOK /\ PhaseInv(c) /\ HeldInv(c)
  BY DEF Inv
<1>2. call[c] \in Requests /\ call[c] # None
  BY <1>1 DEF PhaseInv, TypeOK
<1>3. Destination(c) \in Visible /\ StageName(c) = Destination(c) /\ "content" \in Layouts
  BY <1>2, PlacesAreApart DEF Destination, StageName, Requests, Layouts
<1> DEFINE new == Overlay(Destination(c), "content", rows, rev)
<1>4. new \in Overlays /\ new # None /\ Good(new, StageName(c)) /\ new.index = rows
  BY <1>3, OverlayIsGood
<1> HIDE DEF new
<1>5. Stage(c) \in Places /\ dir' = [dir EXCEPT ![Stage(c)] = new]
  BY PlacesAreApart DEF new
<1>6. /\ dir' \in [Places -> Overlays \cup {None}] /\ dir'[Stage(c)] = new
      /\ \A p \in Places : p # Stage(c) => dir'[p] = dir[p]
  BY <1>1, <1>4, <1>5, OneWritten
<1>7. /\ \A e \in Calls \ {c} : /\ dir'[Stage(e)] = dir[Stage(e)]
                                /\ dir'[Backup(e)] = dir[Backup(e)]
                                /\ dir'[Copy(e)] = dir[Copy(e)]
      /\ \A n \in Names : dir'[n] = dir[n]
  BY <1>6, OwnPlace
<1>8. dir'[Backup(c)] = dir[Backup(c)] /\ dir'[Copy(c)] = dir[Copy(c)]
  BY <1>6, PlacesAreApart
<1>9. TypeOK' /\ pc'[c] = q
  BY <1>1, <1>6 DEF TypeOK
<1>10. Own(c)
  BY <1>1, <1>7 DEF Own, TypeOK
<1>11. HeldInv(c)'
  <2>1. Good(new, StageName(c)')
    BY <1>4 DEF StageName, Destination
  <2>. QED
    BY <1>1, <1>4, <1>6, <1>8, <1>9, <2>1 DEF HeldInv, Exists, Good, Kept
<1>12. PhaseInv(c)'
  BY <1>2, <1>4, <1>6, <1>9 DEF PhaseInv, Exists
<1>13. \A n \in Names : NameInv(n)'
  BY <1>7, NameKeeps
<1>. QED
  BY <1>9, <1>10, <1>11, <1>12, <1>13, StepOfOne

\* Revise stages rows whose payloads it has stored.
LEMMA CompareStep == ASSUME Inv, NEW c \in Calls, Compare(c) PROVE Inv'
PROOF
<1>1. TypeOK /\ PhaseInv(c) /\ HeldInv(c) /\ pc[c] = "comparing"
  BY DEF Inv, Compare
<1>2. UNCHANGED <<stored, call, seen, had, rd, halted, made>>
  BY DEF Compare
<1>3. /\ call[c] \in Requests /\ call[c] # None /\ call[c].op = "revise"
      /\ call[c].rows \subseteq stored /\ HasRead(c) /\ seen[c] \in Readings
  BY <1>1 DEF PhaseInv, TypeOK, HasRead
<1>4. CASE pc' = [pc EXCEPT ![c] = "over"] /\ dir' = dir
  <2>1. TypeOK' /\ pc'[c] = "over"
    BY <1>1, <1>2, <1>4 DEF TypeOK
  <2>2. Own(c)
    BY <1>1, <1>2, <1>4 DEF Own, TypeOK
  <2>3. HeldInv(c)'
    BY <1>1, <1>2, <1>4, <2>1 DEF HeldInv, Exists, Good, Kept, StageName, Destination
  <2>4. PhaseInv(c)'
    BY <1>2, <1>3, <2>1 DEF PhaseInv
  <2>. QED
    BY <1>2, <1>4, <2>1, <2>2, <2>3, <2>4, NamesKeep, StepOfOne
<1>5. CASE /\ dir' = [dir EXCEPT ![Stage(c)] =
                        Overlay(call[c].name, "content", call[c].rows,
                                seen[c].manifest.revision + 1)]
           /\ pc' = [pc EXCEPT ![c] = "probing"]
  <2>1. seen[c].manifest.revision + 1 \in Nat /\ call[c].rows \in Sets
    BY <1>3 DEF Readings, Manifests, Requests
  <2>2. Destination(c) = call[c].name
    BY <1>3 DEF Destination
  <2>3. stored \subseteq Payloads
    BY <1>1 DEF TypeOK
  <2>. QED
    BY <1>1, <1>2, <1>3, <1>5, <2>1, <2>2, <2>3, StageFilled
<1>. QED
  BY <1>4, <1>5 DEF Compare, Goto

\* Migrate stages the rows it has read once each payload is stored.
LEMMA StoreMigratedStep == ASSUME Inv, NEW c \in Calls, StoreMigrated(c) PROVE Inv'
PROOF
<1>1. TypeOK /\ PhaseInv(c) /\ HeldInv(c) /\ pc[c] = "storing" /\ call[c].op = "migrate"
  BY DEF Inv, StoreMigrated
<1>2. UNCHANGED <<call, seen, had, rd, halted, made>>
  BY DEF StoreMigrated
<1>3. /\ call[c] \in Requests /\ call[c] # None
      /\ HasRead(c) /\ seen[c] \in Readings /\ seen[c].rows \in Sets
  BY <1>1 DEF PhaseInv, TypeOK, HasRead
<1>4. seen[c].rows \subseteq Payloads
  BY <1>3, SetsAssumption
<1> DEFINE logical == seen[c].manifest.layout = "logical"
           there == IF ~logical THEN stored
                    ELSE IF Exists(call[c].name) THEN dir[call[c].name].res ELSE {}
<1>5. CASE /\ seen[c].rows \subseteq there
           /\ stored' = IF logical THEN stored \cup seen[c].rows ELSE stored
           /\ dir' = [dir EXCEPT ![Stage(c)] = Overlay(call[c].to, "content", seen[c].rows,
                                                       seen[c].manifest.revision)]
           /\ pc' = [pc EXCEPT ![c] = IF logical THEN "moving" ELSE "probing"]
  <2>1. seen[c].manifest.revision \in Nat
    BY <1>3 DEF Readings, Manifests
  <2>2. Destination(c) = call[c].to
    BY <1>1 DEF Destination
  <2>3. /\ stored \subseteq stored' /\ stored' \subseteq Payloads
        /\ seen[c].rows \subseteq stored'
    BY <1>1, <1>4, <1>5 DEF TypeOK
  <2> DEFINE q == IF logical THEN "moving" ELSE "probing"
  <2>4. q \in {"probing", "moving"} /\ pc' = [pc EXCEPT ![c] = q]
    BY <1>5
  <2>5. dir' = [dir EXCEPT ![Stage(c)] = Overlay(Destination(c), "content", seen[c].rows,
                                                 seen[c].manifest.revision)]
    BY <1>5, <2>2
  <2> HIDE DEF q
  <2>. QED
    BY <1>1, <1>2, <1>3, <2>1, <2>3, <2>4, <2>5, StageFilled
<1>6. CASE /\ pc' = [pc EXCEPT ![c] = "over"] /\ dir' = dir
           /\ \E part \in SUBSET (seen[c].rows \cap there) :
                stored' = IF logical THEN stored \cup part ELSE stored
  <2>1. stored \subseteq stored' /\ stored' \subseteq Payloads
    BY <1>1, <1>4, <1>6 DEF TypeOK
  <2>2. TypeOK' /\ pc'[c] = "over"
    BY <1>1, <1>2, <1>6, <2>1 DEF TypeOK
  <2>3. Own(c)
    BY <1>1, <1>2, <1>6, <2>1 DEF Own, TypeOK
  <2>4. HeldInv(c)'
    BY <1>1, <1>2, <1>6, <2>1, <2>2 DEF HeldInv, Exists, Good, Kept, StageName, Destination
  <2>5. PhaseInv(c)'
    BY <1>2, <1>3, <2>2 DEF PhaseInv
  <2>. QED
    BY <1>6, <2>1, <2>2, <2>3, <2>4, <2>5, NamesKeep, StepOfOne
<1>. QED
  BY <1>5, <1>6 DEF StoreMigrated, Goto

-------------------------------------------------------------------------------
(* Renames and removals *)

\* A directory goes from one place to another.
LEMMA Renamed ==
    ASSUME TypeOK, NEW from \in Places, NEW to \in Places, from # to, Rename(from, to)
    PROVE  /\ dir' \in [Places -> Overlays \cup {None}]
           /\ dir'[to] = dir[from] /\ dir'[from] = None
           /\ \A p \in Places \ {from, to} : dir'[p] = dir[p]
           /\ made' \subseteq Names
PROOF
  BY DEF TypeOK, Rename

LEMMA Removed ==
    ASSUME TypeOK, NEW place \in Places, Remove(place)
    PROVE  /\ dir' \in [Places -> Overlays \cup {None}]
           /\ dir'[place] = None
           /\ \A p \in Places \ {place} : dir'[p] = dir[p]
           /\ made' \subseteq Names
PROOF
  BY DEF TypeOK, Remove

\* A call gives up one of its hidden directories and ends, or looks once more.
LEMMA HiddenGoes ==
    ASSUME Inv, NEW c \in Calls, NEW p \in {Stage(c), Backup(c), Copy(c)}, Remove(p),
           NEW q \in {"over", "recovering"}, pc[c] # "idle", pc' = [pc EXCEPT ![c] = q],
           UNCHANGED <<stored, call, seen, had, rd, halted>>
    PROVE  Inv'
PROOF
<1>1. TypeOK /\ PhaseInv(c) /\ HeldInv(c)
  BY DEF Inv
<1>2. p \in Places
  BY PlacesAreApart
<1>3. /\ dir' \in [Places -> Overlays \cup {None}] /\ dir'[p] = None /\ made' \subseteq Names
      /\ \A o \in Places : o # p => dir'[o] = dir[o]
  BY <1>1, <1>2, Removed
<1>4. /\ \A e \in Calls \ {c} : /\ dir'[Stage(e)] = dir[Stage(e)]
                                /\ dir'[Backup(e)] = dir[Backup(e)]
                                /\ dir'[Copy(e)] = dir[Copy(e)]
      /\ \A n \in Names : dir'[n] = dir[n]
  BY <1>3, OwnPlace
<1>5. TypeOK' /\ pc'[c] = q
  BY <1>1, <1>3 DEF TypeOK
<1>6. Own(c)
  BY <1>1, <1>4 DEF Own, TypeOK
<1>7. /\ dir'[Backup(c)] = None \/ dir'[Backup(c)] = dir[Backup(c)]
      /\ dir'[Stage(c)] = None \/ dir'[Stage(c)] = dir[Stage(c)]
      /\ dir'[Copy(c)] = None \/ dir'[Copy(c)] = dir[Copy(c)]
  BY <1>3, PlacesAreApart
<1>8. HeldInv(c)'
  BY <1>1, <1>5, <1>7 DEF HeldInv, Exists, Good, Kept, StageName, Destination
<1>9. PhaseInv(c)'
  BY <1>1, <1>5 DEF PhaseInv
<1>10. \A n \in Names : NameInv(n)'
  BY <1>4, NameKeeps
<1>. QED
  BY <1>5, <1>6, <1>8, <1>9, <1>10, StepOfOne

\* A call puts one of its hidden directories in place under the name it carries.
LEMMA HiddenIsPlaced ==
    ASSUME Inv, NEW c \in Calls, NEW p \in {Stage(c), Backup(c), Copy(c)}, NEW n \in Names,
           Rename(p, n), Good(dir[p], n), Kept(dir[p]),
           NEW q \in {"over", "dropping", "undoing"},
           pc[c] # "idle", pc' = [pc EXCEPT ![c] = q],
           q = "undoing" => call[c].op # "import",
           q = "undoing" /\ call[c].op = "migrate" => p # Stage(c) /\ Exists(Stage(c)),
           UNCHANGED <<stored, call, seen, had, rd, halted>>
    PROVE  Inv'
PROOF
<1>1. TypeOK /\ PhaseInv(c) /\ HeldInv(c)
  BY DEF Inv
<1>2. p \in Places /\ n \in Places /\ p # n
  BY PlacesAreApart
<1>3. /\ dir' \in [Places -> Overlays \cup {None}] /\ made' \subseteq Names
      /\ dir'[n] = dir[p] /\ dir'[p] = None
      /\ \A o \in Places \ {p, n} : dir'[o] = dir[o]
  BY <1>1, <1>2, Renamed
<1>4. \A e \in Calls \ {c} : /\ dir'[Stage(e)] = dir[Stage(e)]
                             /\ dir'[Backup(e)] = dir[Backup(e)]
                             /\ dir'[Copy(e)] = dir[Copy(e)]
  <2>1. ASSUME NEW e \in Calls \ {c}
        PROVE  {Stage(e), Backup(e), Copy(e)} \subseteq Places \ {p, n}
    BY PlacesAreApart
  <2>. QED
    BY <1>3, <2>1
<1>5. TypeOK' /\ pc'[c] = q
  BY <1>1, <1>3 DEF TypeOK
<1>6. Own(c)
  BY <1>1, <1>4 DEF Own, TypeOK
<1>7. /\ dir'[Backup(c)] = None \/ dir'[Backup(c)] = dir[Backup(c)]
      /\ dir'[Stage(c)] = None \/ dir'[Stage(c)] = dir[Stage(c)]
      /\ dir'[Copy(c)] = None \/ dir'[Copy(c)] = dir[Copy(c)]
      /\ p # Stage(c) => dir'[Stage(c)] = dir[Stage(c)]
  <2>1. {Stage(c), Backup(c), Copy(c)} \subseteq Places \ {n}
    BY PlacesAreApart
  <2>. QED
    BY <1>3, <2>1
<1>8. HeldInv(c)'
  BY <1>1, <1>5, <1>7 DEF HeldInv, Exists, Good, Kept, StageName, Destination
<1>9. PhaseInv(c)'
  BY <1>1, <1>5, <1>7 DEF PhaseInv, Exists
<1>10. ASSUME NEW m \in Names PROVE NameInv(m)'
  <2>1. CASE m = n
    BY <1>3, <2>1 DEF NameInv, Good, Kept
  <2>2. CASE m # n
    <3>1. dir'[m] = dir[m]
      BY <1>3, <2>2, PlacesAreApart
    <3>. QED
      BY <3>1, NameKeeps
  <2>. QED
    BY <2>1, <2>2
<1>. QED
  BY <1>5, <1>6, <1>8, <1>9, <1>10, StepOfOne

\* What a call has that may go to its catch.
LEMMA CatchHas ==
    ASSUME Inv, NEW c \in Calls,
           pc[c] \in {"moving", "naming", "naming manifest", "named", "retiring", "placing",
                      "restoring"}
    PROVE  call[c].op # "import" /\ (call[c].op = "migrate" => Exists(Stage(c)))
PROOF
<1>1. PhaseInv(c)
  BY DEF Inv
<1>. QED
  BY <1>1 DEF PhaseInv

LEMMA RetireStep == ASSUME Inv, NEW c \in Calls, Retire(c) PROVE Inv'
PROOF
<1>1. TypeOK /\ PhaseInv(c) /\ HeldInv(c) /\ pc[c] = "retiring"
  BY DEF Inv, Retire
<1>2. UNCHANGED <<stored, call, seen, rd, halted>>
  BY DEF Retire
<1>3. call[c] \in Requests /\ call[c] # None /\ call[c].name \in Names
      /\ call[c].op # "import"
  BY <1>1 DEF PhaseInv, TypeOK, Requests
<1> DEFINE n == call[c].name
<1>4. CASE /\ CanRename(n, Backup(c)) /\ Rename(n, Backup(c))
           /\ had' = [had EXCEPT ![c] = TRUE]
           /\ pc' = [pc EXCEPT ![c] = "placing"]
  <2>1. Backup(c) \in Places /\ n \in Places /\ Backup(c) # n
    BY <1>3, PlacesAreApart
  <2>2. /\ dir' \in [Places -> Overlays \cup {None}] /\ made' \subseteq Names
        /\ dir'[Backup(c)] = dir[n] /\ dir'[n] = None
        /\ \A o \in Places \ {Backup(c), n} : dir'[o] = dir[o]
    BY <1>1, <1>4, <2>1, Renamed
  <2>3. \A e \in Calls \ {c} : /\ dir'[Stage(e)] = dir[Stage(e)]
                               /\ dir'[Backup(e)] = dir[Backup(e)]
                               /\ dir'[Copy(e)] = dir[Copy(e)]
    <3>1. ASSUME NEW e \in Calls \ {c}
          PROVE  {Stage(e), Backup(e), Copy(e)} \subseteq Places \ {Backup(c), n}
      BY <1>3, PlacesAreApart
    <3>. QED
      BY <2>2, <3>1
  <2>4. dir'[Stage(c)] = dir[Stage(c)] /\ dir'[Copy(c)] = dir[Copy(c)]
    <3>1. {Stage(c), Copy(c)} \subseteq Places \ {Backup(c), n}
      BY <1>3, PlacesAreApart
    <3>. QED
      BY <2>2, <3>1
  <2>5. TypeOK' /\ pc'[c] = "placing"
    BY <1>1, <1>2, <1>4, <2>2 DEF TypeOK
  <2>6. Own(c)
    BY <1>1, <1>2, <1>4, <2>3 DEF Own, TypeOK
  <2>7. HeldInv(c)'
    <3>1. Good(dir[n], n) /\ Kept(dir[n])
      BY <1>3, <1>4 DEF Inv, NameInv, CanRename
    <3>. QED
      BY <1>1, <1>2, <2>2, <2>4, <2>5, <3>1
         DEF HeldInv, Exists, Good, Kept, StageName, Destination
  <2>8. PhaseInv(c)'
    BY <1>1, <1>2, <1>3, <2>4, <2>5 DEF PhaseInv, Exists
  <2>9. ASSUME NEW m \in Names PROVE NameInv(m)'
    <3>1. CASE m = n
      BY <2>2, <3>1 DEF NameInv, Exists
    <3>2. CASE m # n
      <4>1. dir'[m] = dir[m]
        BY <2>2, <3>2, PlacesAreApart
      <4>. QED
        BY <1>2, <4>1, NameKeeps
    <3>. QED
      BY <3>1, <3>2
  <2>. QED
    BY <2>5, <2>6, <2>7, <2>8, <2>9, StepOfOne
<1>5. CASE pc' = [pc EXCEPT ![c] = "undoing"] /\ UNCHANGED <<dir, had, made>>
  <2>1. halted' \subseteq Calls
    BY <1>1, <1>2 DEF TypeOK
  <2>. QED
    BY <1>1, <1>2, <1>5, <2>1, CatchHas, GoesOn
<1>. QED
  BY <1>4, <1>5 DEF Retire, Goto

\* What is placed is a stage under its own name, or the copy after it was named.
LEMMA PlaceStep == ASSUME Inv, NEW c \in Calls, Place(c) PROVE Inv'
PROOF
<1>1. TypeOK /\ PhaseInv(c) /\ HeldInv(c) /\ pc[c] = "placing"
  BY DEF Inv, Place
<1>2. UNCHANGED <<stored, call, seen, had, rd, halted>>
  BY DEF Place
<1>3. call[c] \in Requests /\ call[c] # None /\ call[c].op # "import"
  BY <1>1 DEF PhaseInv, TypeOK
<1>4. CASE /\ CanRename(Source(c), Destination(c)) /\ Rename(Source(c), Destination(c))
           /\ pc' = [pc EXCEPT ![c] = IF had[c] THEN "dropping" ELSE "over"]
  <2>1. Destination(c) \in Names
    BY <1>3 DEF Destination, Requests
  <2>2. Source(c) \in {Stage(c), Backup(c), Copy(c)}
    BY DEF Source
  <2>3. Good(dir[Source(c)], Destination(c)) /\ Kept(dir[Source(c)])
    <3>1. CASE call[c].op = "replace"
      <4>1. Source(c) = Copy(c) /\ Destination(c) = call[c].name
        BY <3>1 DEF Source, Destination
      <4>. QED
        BY <1>1, <1>4, <3>1, <4>1 DEF HeldInv, CanRename
    <3>2. CASE call[c].op # "replace"
      <4>1. Source(c) = Stage(c) /\ Destination(c) = StageName(c)
        BY <3>2 DEF Source, StageName
      <4>. QED
        BY <1>1, <1>4, <4>1 DEF HeldInv, CanRename
    <3>. QED
      BY <3>1, <3>2
  <2>4. PICK q \in {"dropping", "over"} : pc' = [pc EXCEPT ![c] = q]
    BY <1>4
  <2>. QED
    BY <1>1, <1>2, <1>4, <2>1, <2>2, <2>3, <2>4, HiddenIsPlaced
<1>5. CASE /\ pc' = [pc EXCEPT ![c] = IF had[c] THEN "restoring" ELSE "undoing"]
           /\ UNCHANGED <<dir, made>>
  <2>1. PICK q \in {"restoring", "undoing"} : pc' = [pc EXCEPT ![c] = q]
    BY <1>5
  <2>2. halted' \subseteq Calls
    BY <1>1, <1>2 DEF TypeOK
  <2>. QED
    BY <1>1, <1>2, <1>5, <2>1, <2>2, CatchHas, GoesOn
<1>. QED
  BY <1>4, <1>5 DEF Place, Goto

\* The backup goes back under the name it came from.
LEMMA RestoreStep == ASSUME Inv, NEW c \in Calls, Restore(c) PROVE Inv'
PROOF
<1>1. TypeOK /\ PhaseInv(c) /\ HeldInv(c) /\ pc[c] = "restoring"
  BY DEF Inv, Restore
<1>2. UNCHANGED <<stored, call, seen, had, rd>>
      /\ pc' = [pc EXCEPT ![c] = "undoing"]
  BY DEF Restore, Goto
<1>3. call[c] \in Requests /\ call[c] # None /\ call[c].name \in Names
      /\ call[c].op # "import"
  BY <1>1 DEF PhaseInv, TypeOK, Requests
<1>4. CASE /\ CanRename(Backup(c), call[c].name) /\ Rename(Backup(c), call[c].name)
           /\ UNCHANGED halted
  <2>1. Good(dir[Backup(c)], call[c].name) /\ Kept(dir[Backup(c)])
    BY <1>1, <1>4 DEF HeldInv, CanRename
  <2>2. call[c].op = "migrate" => Exists(Stage(c))
    BY <1>1 DEF PhaseInv
  <2>3. Backup(c) # Stage(c)
    BY PlacesAreApart
  <2>. QED
    BY <1>1, <1>2, <1>3, <1>4, <2>1, <2>2, <2>3, HiddenIsPlaced
<1>5. CASE UNCHANGED <<dir, made>> /\ halted' \subseteq Calls
  BY <1>1, <1>2, <1>5, CatchHas, GoesOn
<1>6. halted \subseteq Calls
  BY <1>1 DEF TypeOK
<1>. QED
  BY <1>4, <1>5, <1>6 DEF Restore, PutBack, GivesUp

LEMMA RecoverStep == ASSUME Inv, NEW c \in Calls, Recover(c) PROVE Inv'
PROOF
<1>1. TypeOK /\ PhaseInv(c) /\ HeldInv(c) /\ pc[c] = "recovering"
  BY DEF Inv, Recover
<1>2. UNCHANGED <<stored, call, seen, had, rd>>
      /\ pc' = [pc EXCEPT ![c] = "over"]
  BY DEF Recover, Goto
<1>3. call[c] \in Requests /\ call[c] # None /\ call[c].name \in Names
  BY <1>1 DEF PhaseInv, TypeOK, Requests
<1>4. CASE /\ CanRename(Backup(c), call[c].name) /\ Rename(Backup(c), call[c].name)
           /\ UNCHANGED halted
  <2>1. Good(dir[Backup(c)], call[c].name) /\ Kept(dir[Backup(c)])
    BY <1>1, <1>4 DEF HeldInv, CanRename
  <2>. QED
    BY <1>1, <1>2, <1>3, <1>4, <2>1, HiddenIsPlaced
<1>5. CASE UNCHANGED <<dir, made>> /\ halted' \subseteq Calls
  BY <1>1, <1>2, <1>5, GoesOn
<1>6. halted \subseteq Calls
  BY <1>1 DEF TypeOK
<1>. QED
  BY <1>4, <1>5, <1>6 DEF Recover, PutBack, GivesUp

LEMMA DropStep == ASSUME Inv, NEW c \in Calls, Drop(c) PROVE Inv'
PROOF
<1>1. pc[c] = "dropping" /\ UNCHANGED <<stored, call, seen, had, rd, halted>>
  BY DEF Drop
<1>2. CASE Remove(Backup(c)) /\ pc' = [pc EXCEPT ![c] = "over"]
  BY <1>1, <1>2, HiddenGoes
<1>3. CASE UNCHANGED <<dir, made>> /\ \E q \in {"over", "recovering"} : pc' = [pc EXCEPT ![c] = q]
  <2>1. halted' \subseteq Calls
    BY <1>1 DEF Inv, TypeOK
  <2>. QED
    BY <1>1, <1>3, <2>1, GoesOn
<1>. QED
  BY <1>2, <1>3 DEF Drop, Goto

LEMMA UndoReviseStep == ASSUME Inv, NEW c \in Calls, UndoRevise(c) PROVE Inv'
PROOF
  BY HiddenGoes DEF UndoRevise, Goto

LEMMA UndoReplaceStep == ASSUME Inv, NEW c \in Calls, UndoReplace(c) PROVE Inv'
PROOF
<1>1. pc[c] = "undoing" /\ UNCHANGED <<stored, call, seen, had, rd>>
  BY DEF UndoReplace
<1>2. CASE Remove(Copy(c)) /\ pc' = [pc EXCEPT ![c] = "recovering"] /\ UNCHANGED halted
  BY <1>1, <1>2, HiddenGoes
<1>3. CASE GivesUp(c) /\ pc' = [pc EXCEPT ![c] = "over"]
  <2>1. UNCHANGED <<dir, made>> /\ halted' \subseteq Calls
    BY <1>3 DEF GivesUp, Inv, TypeOK
  <2>. QED
    BY <1>1, <1>3, <2>1, GoesOn
<1>. QED
  BY <1>2, <1>3 DEF UndoReplace, Goto

-------------------------------------------------------------------------------
(* Import's rename, and Replace's changes of what it has imported *)

LEMMA PublishImportStep == ASSUME Inv, NEW c \in Calls, PublishImport(c) PROVE Inv'
PROOF
<1>1. TypeOK /\ PhaseInv(c) /\ HeldInv(c) /\ pc[c] = "publishing"
  BY DEF Inv, PublishImport
<1>2. UNCHANGED <<stored, call, seen, had, rd, halted>>
  BY DEF PublishImport
<1>3. call[c] \in Requests /\ call[c] # None /\ call[c].name \in Names
      /\ call[c].op \in {"import", "replace"}
  BY <1>1 DEF PhaseInv, TypeOK, Requests
<1>4. CASE Remove(Stage(c)) /\ pc' = [pc EXCEPT ![c] = "over"]
  BY <1>1, <1>2, <1>4, HiddenGoes
<1>5. CASE /\ call[c].op = "import"
           /\ CanRename(Stage(c), call[c].name) /\ Rename(Stage(c), call[c].name)
           /\ pc' = [pc EXCEPT ![c] = "over"]
  <2>1. Good(dir[Stage(c)], call[c].name) /\ Kept(dir[Stage(c)])
    BY <1>1, <1>5 DEF HeldInv, CanRename, StageName, Destination
  <2>. QED
    BY <1>1, <1>2, <1>3, <1>5, <2>1, HiddenIsPlaced
<1>6. CASE /\ call[c].op = "replace"
           /\ CanRename(Stage(c), Copy(c)) /\ Rename(Stage(c), Copy(c))
           /\ pc' = [pc EXCEPT ![c] = "naming"]
  <2>1. Stage(c) \in Places /\ Copy(c) \in Places /\ Stage(c) # Copy(c)
    BY PlacesAreApart
  <2>2. /\ dir' \in [Places -> Overlays \cup {None}] /\ made' \subseteq Names
        /\ dir'[Copy(c)] = dir[Stage(c)] /\ dir'[Stage(c)] = None
        /\ \A o \in Places \ {Copy(c), Stage(c)} : dir'[o] = dir[o]
    BY <1>1, <1>6, <2>1, Renamed
  <2>3. \A e \in Calls \ {c} : /\ dir'[Stage(e)] = dir[Stage(e)]
                               /\ dir'[Backup(e)] = dir[Backup(e)]
                               /\ dir'[Copy(e)] = dir[Copy(e)]
    <3>1. ASSUME NEW e \in Calls \ {c}
          PROVE  {Stage(e), Backup(e), Copy(e)} \subseteq Places \ {Copy(c), Stage(c)}
      BY PlacesAreApart
    <3>. QED
      BY <2>2, <3>1
  <2>4. dir'[Backup(c)] = dir[Backup(c)] /\ \A n \in Names : dir'[n] = dir[n]
    <3>1. Names \cup {Backup(c)} \subseteq Places \ {Copy(c), Stage(c)}
      BY PlacesAreApart
    <3>. QED
      BY <2>2, <3>1
  <2>5. TypeOK' /\ pc'[c] = "naming"
    BY <1>1, <1>2, <1>6, <2>2 DEF TypeOK
  <2>6. Own(c)
    BY <1>1, <1>2, <1>6, <2>3 DEF Own, TypeOK
  <2>7. HeldInv(c)'
    <3>1. /\ Exists(Stage(c)) /\ Kept(dir[Stage(c)])
          /\ dir[Stage(c)].file = call[c].layout /\ dir[Stage(c)].index = call[c].rows
      BY <1>1, <1>6 DEF HeldInv, CanRename
    <3>2. call[c].rows # Torn
      BY <1>3, TornIsApart DEF Requests
    <3>. QED
      BY <1>1, <1>2, <2>2, <2>4, <2>5, <3>1, <3>2
         DEF HeldInv, Exists, Good, Kept, StageName, Destination
  <2>8. PhaseInv(c)'
    BY <1>2, <1>3, <1>6, <2>5 DEF PhaseInv
  <2>9. \A n \in Names : NameInv(n)'
    BY <1>2, <2>4, NameKeeps
  <2>. QED
    BY <2>5, <2>6, <2>7, <2>8, <2>9, StepOfOne
<1>7. call[c].op # "replace" => ImportPlace(c) = call[c].name
  BY DEF ImportPlace
<1>8. call[c].op = "replace" => ImportPlace(c) = Copy(c)
  BY DEF ImportPlace
<1>9. \/ Remove(Stage(c)) /\ pc' = [pc EXCEPT ![c] = "over"]
      \/ /\ CanRename(Stage(c), ImportPlace(c)) /\ Rename(Stage(c), ImportPlace(c))
         /\ pc' = [pc EXCEPT ![c] = IF call[c].op = "replace" THEN "naming" ELSE "over"]
  BY DEF PublishImport, Goto
<1>10. call[c].op = "import" => call[c].op # "replace"
  OBVIOUS
<1>. QED
  BY <1>3, <1>4, <1>5, <1>6, <1>7, <1>8, <1>9, <1>10

\* One of Replace's writes of the copy: what it must leave.
LEMMA CopyWritten ==
    ASSUME Inv, NEW c \in Calls, pc[c] # "idle", call[c].op = "replace",
           NEW d \in Overlays, dir' = [dir EXCEPT ![Copy(c)] = d],
           NEW q \in {"naming manifest", "named", "retiring"}, pc' = [pc EXCEPT ![c] = q],
           UNCHANGED <<stored, call, seen, had, rd, halted, made>>,
           Kept(d),
           q = "retiring" => Good(d, call[c].name),
           q # "retiring" => /\ d.file = call[c].layout
                             /\ call[c].layout = "content" => call[c].rows \subseteq stored,
           q = "named" => d.index = call[c].rows
    PROVE  Inv'
PROOF
<1>1. TypeOK /\ PhaseInv(c) /\ HeldInv(c)
  BY DEF Inv
<1>2. d # None /\ Copy(c) \in Places
  BY NoneIsApart, PlacesAreApart
<1>3. /\ dir' \in [Places -> Overlays \cup {None}] /\ dir'[Copy(c)] = d
      /\ \A o \in Places : o # Copy(c) => dir'[o] = dir[o]
  BY <1>1, <1>2, OneWritten
<1>4. /\ \A e \in Calls \ {c} : /\ dir'[Stage(e)] = dir[Stage(e)]
                                /\ dir'[Backup(e)] = dir[Backup(e)]
                                /\ dir'[Copy(e)] = dir[Copy(e)]
      /\ \A n \in Names : dir'[n] = dir[n]
  BY <1>3, OwnPlace
<1>5. dir'[Stage(c)] = dir[Stage(c)] /\ dir'[Backup(c)] = dir[Backup(c)]
  BY <1>3, PlacesAreApart
<1>6. TypeOK' /\ pc'[c] = q
  BY <1>1, <1>3 DEF TypeOK
<1>7. Own(c)
  BY <1>1, <1>4 DEF Own, TypeOK
<1>8. HeldInv(c)'
  BY <1>1, <1>2, <1>3, <1>5, <1>6 DEF HeldInv, Exists, Good, Kept, StageName, Destination
<1>9. PhaseInv(c)'
  BY <1>1, <1>6 DEF PhaseInv
<1>10. \A n \in Names : NameInv(n)'
  BY <1>4, NameKeeps
<1>. QED
  BY <1>6, <1>7, <1>8, <1>9, <1>10, StepOfOne

\* One of them fails.
LEMMA NamingFails ==
    ASSUME Inv, NEW c \in Calls, pc[c] \in {"naming", "naming manifest", "named"},
           NameFails(c), UNCHANGED <<stored, call, seen, had, rd, halted, made>>
    PROVE  Inv'
PROOF
<1>1. UNCHANGED dir /\ pc' = [pc EXCEPT ![c] = "undoing"] /\ halted' \subseteq Calls
  BY DEF NameFails, Goto, Inv, TypeOK
<1>. QED
  BY <1>1, CatchHas, GoesOn

LEMMA NameIndexStep == ASSUME Inv, NEW c \in Calls, NameIndex(c) PROVE Inv'
PROOF
<1>1. TypeOK /\ PhaseInv(c) /\ HeldInv(c) /\ pc[c] = "naming"
  BY DEF Inv, NameIndex
<1>2. UNCHANGED <<stored, call, seen, had, rd, halted, made>>
  BY DEF NameIndex
<1> SUFFICES ASSUME ~NameFails(c) PROVE Inv'
  BY <1>1, <1>2, NamingFails
<1>0. pc' = [pc EXCEPT ![c] = "naming manifest"]
  BY DEF NameIndex, Goto
<1> DEFINE old == dir[Copy(c)]
           new == [old EXCEPT !.index = Torn]
<1>3. old \in Overlays /\ old.file = call[c].layout /\ Kept(old)
      /\ (call[c].layout = "content" => call[c].rows \subseteq stored)
  BY <1>1, PlacesAreApart DEF HeldInv, Exists, TypeOK
<1>4. new \in Overlays /\ new.file = old.file /\ new.index = Torn
  <2> HIDE DEF old
  <2>. QED
    BY <1>3 DEF Overlays
<1>5. call[c].op = "replace"
  BY <1>1 DEF PhaseInv
<1>6. CASE dir' = [dir EXCEPT ![Copy(c)].index = Torn]
  <2>1. dir' = [dir EXCEPT ![Copy(c)] = new]
    BY <1>6
  <2> HIDE DEF new, old
  <2>2. Kept(new)
    BY <1>4 DEF Kept
  <2>. QED
    BY <1>0, <1>1, <1>2, <1>3, <1>4, <1>5, <2>1, <2>2, CopyWritten
<1>7. CASE dir' = dir
  <2>1. dir' = [dir EXCEPT ![Copy(c)] = old]
    BY <1>1, <1>7 DEF TypeOK
  <2> HIDE DEF old
  <2>. QED
    BY <1>0, <1>1, <1>2, <1>3, <1>5, <2>1, CopyWritten
<1>. QED
  BY <1>6, <1>7 DEF NameIndex

LEMMA NameManifestStep == ASSUME Inv, NEW c \in Calls, NameManifest(c) PROVE Inv'
PROOF
<1>1. TypeOK /\ PhaseInv(c) /\ HeldInv(c) /\ pc[c] = "naming manifest"
  BY DEF Inv, NameManifest
<1>2. UNCHANGED <<stored, call, seen, had, rd, halted, made>>
  BY DEF NameManifest
<1> SUFFICES ASSUME ~NameFails(c) PROVE Inv'
  BY <1>1, <1>2, NamingFails
<1>0. pc' = [pc EXCEPT ![c] = "named"]
  BY DEF NameManifest, Goto
<1>3. call[c].op = "replace" /\ call[c] \in Requests /\ call[c].rows \in Sets
  BY <1>1 DEF PhaseInv, TypeOK, Requests
<1> DEFINE old == dir[Copy(c)]
           new == [[old EXCEPT !.index = call[c].rows] EXCEPT !.manifest = Torn]
<1>4. old \in Overlays /\ old.file = call[c].layout
      /\ (call[c].layout = "content" => call[c].rows \subseteq stored)
  BY <1>1, PlacesAreApart DEF HeldInv, Exists, TypeOK
<1>5. new \in Overlays /\ new.file = old.file /\ new.index = call[c].rows
  <2> DEFINE i == call[c].rows
             e == [old EXCEPT !.index = i]
  <2>1. i \in Sets
    BY <1>3
  <2> HIDE DEF old, i
  <2>2. e \in Overlays /\ e.file = old.file /\ e.index = i
    BY <1>4, <2>1 DEF Overlays
  <2>3. new = [e EXCEPT !.manifest = Torn]
    BY DEF i
  <2> HIDE DEF e, new
  <2>4. new \in Overlays /\ new.file = e.file /\ new.index = e.index
    BY <2>2, <2>3 DEF Overlays
  <2>. QED
    BY <2>2, <2>4 DEF i
<1>6. dir' = [dir EXCEPT ![Copy(c)].index = call[c].rows, ![Copy(c)].manifest = Torn]
  BY DEF NameManifest
<1>7. dir' = [dir EXCEPT ![Copy(c)] = new]
  BY <1>1, <1>6, PlacesAreApart DEF TypeOK
<1> HIDE DEF new, old
<1>8. Kept(new)
  BY <1>4, <1>5 DEF Kept
<1>. QED
  BY <1>0, <1>1, <1>2, <1>3, <1>4, <1>5, <1>7, <1>8, CopyWritten

LEMMA NamedStep == ASSUME Inv, NEW c \in Calls, Named(c) PROVE Inv'
PROOF
<1>1. TypeOK /\ PhaseInv(c) /\ HeldInv(c) /\ pc[c] = "named"
  BY DEF Inv, Named
<1>2. UNCHANGED <<stored, call, seen, had, rd, halted, made>>
  BY DEF Named
<1> SUFFICES ASSUME ~NameFails(c) PROVE Inv'
  BY <1>1, <1>2, NamingFails
<1>0. pc' = [pc EXCEPT ![c] = "retiring"]
  BY DEF Named, Goto
<1>3. /\ call[c].op = "replace" /\ call[c] \in Requests /\ call[c].rows \in Sets
      /\ call[c].name \in Names /\ call[c].layout \in Layouts
  BY <1>1 DEF PhaseInv, TypeOK, Requests
<1> DEFINE old == dir[Copy(c)]
           m == Manifest(call[c].name, call[c].layout, call[c].rows, 1)
           new == [old EXCEPT !.manifest = m]
<1>4. /\ old \in Overlays /\ old.file = call[c].layout /\ old.index = call[c].rows
      /\ Kept(old)
  BY <1>1, PlacesAreApart DEF HeldInv, Exists, TypeOK
<1>5. m \in Manifests
  BY <1>3, PlacesAreApart DEF Manifest, Manifests
<1>6. new \in Overlays /\ new.file = old.file /\ new.index = old.index /\ new.manifest = m
  <2> HIDE DEF m, old
  <2>. QED
    BY <1>4, <1>5 DEF Overlays
<1>7. dir' = [dir EXCEPT ![Copy(c)] = new]
  BY DEF Named
<1>8. Good(new, call[c].name)
  <2>1. m.name = call[c].name /\ m.layout = call[c].layout
        /\ m.rowCount = Cardinality(call[c].rows)
    BY DEF Manifest
  <2> HIDE DEF m, new, old
  <2>. QED
    BY <1>3, <1>4, <1>5, <1>6, <2>1 DEF Good
<1> HIDE DEF new, old, m
<1>9. Kept(new)
  BY <1>4, <1>6 DEF Kept
<1>. QED
  BY <1>0, <1>1, <1>2, <1>3, <1>6, <1>7, <1>8, <1>9, CopyWritten

-------------------------------------------------------------------------------
(* Migrate moves a tree into its stage, or back *)

\* The stage and the overlay change together; the stage may go.
LEMMA TreeMoved ==
    ASSUME Inv, NEW c \in Calls, pc[c] # "idle", call[c].op = "migrate",
           NEW n \in Names, Exists(n), Exists(Stage(c)),
           NEW t \in SUBSET Payloads, NEW s \in SUBSET Payloads,
           NEW q \in {"probing", "over"}, pc' = [pc EXCEPT ![c] = q],
           \/ dir' = [dir EXCEPT ![n].res = t, ![Stage(c)].res = s]
           \/ q = "over" /\ dir' = [dir EXCEPT ![n].res = t, ![Stage(c)] = None],
           UNCHANGED <<stored, call, seen, had, rd, halted, made>>
    PROVE  Inv'
PROOF
<1>1. TypeOK /\ PhaseInv(c) /\ HeldInv(c) /\ NameInv(n)
  BY DEF Inv
<1>2. n \in Places /\ Stage(c) \in Places /\ n # Stage(c)
  BY PlacesAreApart
<1>3. dir[n] \in Overlays /\ dir[Stage(c)] \in Overlays
  BY <1>1, <1>2 DEF TypeOK, Exists
<1> DEFINE a == [dir[n] EXCEPT !.res = t]
           b == [dir[Stage(c)] EXCEPT !.res = s]
<1>4. a \in Overlays /\ Kept(a) /\ Good(a, n)
  <2> DEFINE d == dir[n]
  <2>1. d \in Overlays /\ Good(d, n) /\ Kept(d)
    BY <1>1, <1>3 DEF NameInv
  <2> HIDE DEF d
  <2>2. LET e == [d EXCEPT !.res = t] IN
        e \in Overlays /\ e.file = d.file /\ e.index = d.index /\ e.manifest = d.manifest
    BY <2>1 DEF Overlays
  <2>. QED
    BY <2>1, <2>2 DEF d, Good, Kept
<1>5. /\ b \in Overlays /\ Kept(b) /\ Good(b, StageName(c)) /\ b # None
      /\ b.file = dir[Stage(c)].file /\ b.index = dir[Stage(c)].index
  <2> DEFINE d == dir[Stage(c)]
  <2>1. d \in Overlays /\ Good(d, StageName(c)) /\ Kept(d)
    BY <1>1, <1>3 DEF HeldInv
  <2> HIDE DEF d
  <2>2. LET e == [d EXCEPT !.res = s] IN
        e \in Overlays /\ e.file = d.file /\ e.index = d.index /\ e.manifest = d.manifest
    BY <2>1 DEF Overlays
  <2>. QED
    BY <2>1, <2>2, NoneIsApart DEF d, Good, Kept
<1>6. /\ dir'[n] = a
      /\ dir'[Stage(c)] = b \/ (q = "over" /\ dir'[Stage(c)] = None)
      /\ \A o \in Places \ {n, Stage(c)} : dir'[o] = dir[o]
      /\ DOMAIN dir' = Places
  BY <1>1, <1>2 DEF TypeOK
<1> HIDE DEF a, b
<1>7. \A e \in Calls \ {c} : /\ dir'[Stage(e)] = dir[Stage(e)]
                             /\ dir'[Backup(e)] = dir[Backup(e)]
                             /\ dir'[Copy(e)] = dir[Copy(e)]
  <2>1. ASSUME NEW e \in Calls \ {c}
        PROVE  {Stage(e), Backup(e), Copy(e)} \subseteq Places \ {n, Stage(c)}
    BY PlacesAreApart
  <2>. QED
    BY <1>6, <2>1
<1>8. dir'[Backup(c)] = dir[Backup(c)] /\ dir'[Copy(c)] = dir[Copy(c)]
  <2>1. {Backup(c), Copy(c)} \subseteq Places \ {n, Stage(c)}
    BY PlacesAreApart
  <2>. QED
    BY <1>6, <2>1
<1>9. dir' \in [Places -> Overlays \cup {None}]
  <2>1. \A o \in Places : dir'[o] \in Overlays \cup {None}
    BY <1>1, <1>4, <1>5, <1>6 DEF TypeOK
  <2>2. dir' = [o \in Places |-> dir'[o]]
    BY <1>1 DEF TypeOK
  <2>. QED
    BY <2>1, <2>2
<1>10. TypeOK' /\ pc'[c] = q
  BY <1>1, <1>9 DEF TypeOK
<1>11. Own(c)
  BY <1>1, <1>7 DEF Own, TypeOK
<1>12. HeldInv(c)'
  <2>1. StageName(c)' = StageName(c)
    BY DEF StageName, Destination
  <2>. QED
    BY <1>1, <1>5, <1>6, <1>8, <1>10, <2>1 DEF HeldInv, Exists, Good, Kept
<1>13. PhaseInv(c)'
  BY <1>1, <1>5, <1>6, <1>10 DEF PhaseInv, Exists
<1>14. ASSUME NEW m \in Names PROVE NameInv(m)'
  <2>1. CASE m = n
    BY <1>4, <1>6, <2>1 DEF NameInv, Good, Kept
  <2>2. CASE m # n
    <3>1. dir'[m] = dir[m]
      BY <1>6, <2>2, PlacesAreApart
    <3>. QED
      BY <3>1, NameKeeps
  <2>. QED
    BY <2>1, <2>2
<1>. QED
  BY <1>10, <1>11, <1>12, <1>13, <1>14, StepOfOne

LEMMA MoveTreeStep == ASSUME Inv, NEW c \in Calls, MoveTree(c) PROVE Inv'
PROOF
<1>1. TypeOK /\ PhaseInv(c) /\ HeldInv(c) /\ pc[c] = "moving"
  BY DEF Inv, MoveTree
<1>2. UNCHANGED <<stored, call, seen, had, rd, halted, made>>
  BY DEF MoveTree
<1>3. /\ call[c].op = "migrate" /\ call[c] \in Requests /\ call[c] # None
      /\ call[c].name \in Names /\ Exists(Stage(c))
  BY <1>1 DEF PhaseInv, TypeOK, Requests
<1> DEFINE n == call[c].name
<1>4. CASE /\ Exists(n) /\ dir' = [dir EXCEPT ![n].res = {}, ![Stage(c)].res = dir[n].res]
           /\ pc' = [pc EXCEPT ![c] = "probing"]
  <2>1. dir[n].res \in SUBSET Payloads
    BY <1>1, <1>3, <1>4, PlacesAreApart DEF TypeOK, Exists, Overlays
  <2>. QED
    BY <1>1, <1>2, <1>3, <1>4, <2>1, TreeMoved
<1>5. CASE dir' = dir /\ pc' = [pc EXCEPT ![c] = "probing"]
  <2>1. TypeOK' /\ pc'[c] = "probing"
    BY <1>1, <1>2, <1>5 DEF TypeOK
  <2>2. Own(c)
    BY <1>1, <1>2, <1>5 DEF Own, TypeOK
  <2>3. HeldInv(c)'
    BY <1>1, <1>2, <1>5, <2>1 DEF HeldInv, Exists, Good, Kept, StageName, Destination
  <2>4. PhaseInv(c)'
    BY <1>2, <1>3, <1>5, <2>1 DEF PhaseInv, Exists
  <2>. QED
    BY <1>2, <1>5, <2>1, <2>2, <2>3, <2>4, NamesKeep, StepOfOne
<1>6. CASE dir' = dir /\ pc' = [pc EXCEPT ![c] = "undoing"]
  <2>1. halted' \subseteq Calls
    BY <1>1, <1>2 DEF TypeOK
  <2>. QED
    BY <1>1, <1>2, <1>6, <2>1, CatchHas, GoesOn
<1>. QED
  BY <1>4, <1>5, <1>6 DEF MoveTree, Goto

LEMMA UndoMigrateStep == ASSUME Inv, NEW c \in Calls, UndoMigrate(c) PROVE Inv'
PROOF
<1>1. TypeOK /\ PhaseInv(c) /\ HeldInv(c) /\ pc[c] = "undoing" /\ call[c].op = "migrate"
  BY DEF Inv, UndoMigrate
<1>2. UNCHANGED <<stored, call, seen, had, rd>>
      /\ pc' = [pc EXCEPT ![c] = "over"]
  BY DEF UndoMigrate, Goto
<1>3. call[c] \in Requests /\ call[c].name \in Names /\ Exists(Stage(c))
  BY <1>1 DEF PhaseInv, TypeOK, Requests
<1>4. dir[Stage(c)].res \in SUBSET Payloads
  BY <1>1, <1>3, PlacesAreApart DEF TypeOK, Exists, Overlays
<1> DEFINE n == call[c].name
<1>5. CASE /\ Exists(n)
           /\ dir' = [dir EXCEPT ![n].res = dir[Stage(c)].res, ![Stage(c)] = None]
           /\ UNCHANGED <<halted, made>>
  BY <1>1, <1>2, <1>3, <1>4, <1>5, TreeMoved
<1>6. CASE UNCHANGED <<dir, made>> /\ halted' \subseteq Calls
  BY <1>1, <1>2, <1>6, GoesOn
<1>7. CASE dir' = [dir EXCEPT ![Stage(c)] = None] /\ UNCHANGED <<halted, made>>
  <2>1. Remove(Stage(c))
    BY <1>7 DEF Remove
  <2>. QED
    BY <1>1, <1>2, <1>7, <2>1, HiddenGoes
<1>8. halted \subseteq Calls
  BY <1>1 DEF TypeOK
<1>. QED
  BY <1>5, <1>6, <1>7, <1>8 DEF UndoMigrate, GivesUp

-------------------------------------------------------------------------------
(* Readers *)

\* A step of a reader leaves everything but the readers alone.
LEMMA ReaderOnly ==
    ASSUME Inv, UNCHANGED <<dir, stored, pc, call, seen, had, halted, made>>,
           TypeOK', \A r \in Readers : ReadInv(r)'
    PROVE  Inv'
PROOF
<1>1. \A n \in Names : NameInv(n)'
  BY NamesKeep
<1>2. ASSUME NEW c \in Calls PROVE HeldInv(c)'
  BY DEF Inv, HeldInv, Exists, Good, Kept, StageName, Destination
<1>3. ASSUME NEW c \in Calls PROVE PhaseInv(c)'
  BY DEF Inv, PhaseInv, Exists, HasRead
<1>. QED
  BY <1>1, <1>2, <1>3 DEF Inv

\* What a reader may become.
LEMMA ReaderMoves ==
    ASSUME Inv, NEW r \in Readers,
           NEW at \in {"idle", "opening", "indexing", "opened", "failed"},
           NEW todo \in SUBSET Visible, NEW cur \in Manifests \cup {None},
           NEW got \in SUBSET Opened,
           at = "indexing" => cur # None,
           \A o \in got : o.manifest.layout = "content" => o.rows \subseteq stored,
           Reads(r, at, todo, cur, got)
    PROVE  Inv'
PROOF
<1>1. TypeOK
  BY DEF Inv
<1>2. UNCHANGED <<dir, stored, pc, call, seen, had, halted, made>>
      /\ rd' = [rd EXCEPT ![r] = [at |-> at, todo |-> todo, cur |-> cur, got |-> got]]
  BY DEF Reads, calls
<1>3. TypeOK'
  BY <1>1, <1>2 DEF TypeOK
<1>4. ASSUME NEW q \in Readers PROVE ReadInv(q)'
  <2>1. CASE q = r
    <3>1. rd'[r] = [at |-> at, todo |-> todo, cur |-> cur, got |-> got]
      BY <1>1, <1>2 DEF TypeOK
    <3>. QED
      BY <1>2, <2>1, <3>1 DEF ReadInv
  <2>2. CASE q # r
    <3>1. rd'[q] = rd[q]
      BY <1>1, <1>2, <2>2 DEF TypeOK
    <3>. QED
      BY <1>2, <3>1 DEF Inv, ReadInv
  <2>. QED
    BY <2>1, <2>2
<1>. QED
  BY <1>2, <1>3, <1>4, ReaderOnly

\* A reader as the invariant describes it.
LEMMA ReaderShape ==
    ASSUME Inv, NEW r \in Readers
    PROVE  /\ rd[r].todo \in SUBSET Visible /\ rd[r].cur \in Manifests \cup {None}
           /\ rd[r].got \in SUBSET Opened
           /\ rd[r].at = "indexing" => rd[r].cur # None
           /\ \A o \in rd[r].got : o.manifest.layout = "content" => o.rows \subseteq stored
PROOF
  BY DEF Inv, TypeOK, ReadInv

LEMMA FailStep == ASSUME Inv, NEW r \in Readers, Fail(r) PROVE Inv'
PROOF
  BY ReaderShape, ReaderMoves DEF Fail

LEMMA ListStep == ASSUME Inv, NEW r \in Readers, List(r) PROVE Inv'
PROOF
<1> DEFINE to == {p \in Visible : Exists(p)}
<1>1. to \in SUBSET Visible
  OBVIOUS
<1>2. Reads(r, "opening", to, None, {})
  BY DEF List
<1> HIDE DEF to
<1>. QED
  BY <1>1, <1>2, ReaderMoves

\* A manifest is read only where its name is the directory's.
LEMMA OpenManifestStep == ASSUME Inv, NEW r \in Readers, OpenManifest(r) PROVE Inv'
PROOF
<1>1. CASE Reads(r, "opened", {}, None, rd[r].got)
  BY <1>1, ReaderShape, ReaderMoves
<1>2. ASSUME NEW p \in rd[r].todo, Exists(p), dir[p].manifest # Torn,
             Reads(r, "indexing", rd[r].todo \ {p}, dir[p].manifest, rd[r].got)
      PROVE  Inv'
  <2>1. p \in Places /\ rd[r].todo \ {p} \in SUBSET Visible
    BY ReaderShape, PlacesAreApart
  <2>2. dir[p] \in Overlays
    BY <1>2, <2>1 DEF Inv, TypeOK, Exists
  <2>3. dir[p].manifest \in Manifests /\ dir[p].manifest # None
    BY <1>2, <2>2, NoneIsApart DEF Overlays
  <2>. QED
    BY <1>2, <2>1, <2>3, ReaderShape, ReaderMoves
<1>. QED
  BY <1>1, <1>2, FailStep DEF OpenManifest

\* Whatever directory the index comes from, the store has what it lists.
LEMMA OpenIndexStep == ASSUME Inv, NEW r \in Readers, OpenIndex(r) PROVE Inv'
PROOF
<1>1. rd[r].cur \in Manifests /\ rd[r].cur # None
  BY ReaderShape DEF OpenIndex
<1> DEFINE d == dir[rd[r].cur.name]
           new == [manifest |-> rd[r].cur, rows |-> d.index]
<1>2. CASE /\ d # None /\ d.file = rd[r].cur.layout /\ d.index # Torn
           /\ Reads(r, "opening", rd[r].todo, None, rd[r].got \cup {new})
  <2>1. rd[r].cur.name \in Visible
    BY <1>1 DEF Manifests
  <2>2. Kept(d)
    <3>1. CASE rd[r].cur.name \in Names
      BY <1>2, <3>1 DEF Inv, NameInv, Exists
    <3>2. ASSUME NEW c \in Calls, rd[r].cur.name = Copy(c) PROVE Kept(d)
      BY <1>2, <3>2 DEF Inv, HeldInv, Exists
    <3>. QED
      BY <2>1, <3>1, <3>2 DEF Visible
  <2>3. d \in Overlays
    BY <1>2, <2>1, PlacesAreApart DEF Inv, TypeOK
  <2>4. d.index \in Sets
    BY <1>2, <2>3 DEF Overlays
  <2>5. new \in Opened
    BY <1>1, <2>4 DEF Opened
  <2>6. new.manifest.layout = "content" => new.rows \subseteq stored
    BY <1>2, <2>2 DEF Kept
  <2> HIDE DEF new
  <2> DEFINE go == rd[r].got \cup {new}
  <2>7. /\ go \in SUBSET Opened
        /\ \A o \in go : o.manifest.layout = "content" => o.rows \subseteq stored
    BY <2>5, <2>6, ReaderShape
  <2>8. Reads(r, "opening", rd[r].todo, None, go)
    BY <1>2
  <2> HIDE DEF go
  <2>. QED
    BY <2>7, <2>8, ReaderShape, ReaderMoves
<1>. QED
  BY <1>2, FailStep DEF OpenIndex

-------------------------------------------------------------------------------
(* The initial states, every step, and the theorems *)

\* The types of the initial states, but for the disk.
LEMMA InitTypes ==
    ASSUME Init, dir \in [Places -> Overlays \cup {None}], stored \subseteq Payloads
    PROVE  TypeOK
PROOF
<1>1. rd \in [Readers -> [at : {"idle", "opening", "indexing", "opened", "failed"},
                         todo : SUBSET Visible, cur : Manifests \cup {None},
                         got : SUBSET Opened]]
  BY DEF Init
<1>2. /\ call \in [Calls -> Requests \cup {None}] /\ seen \in [Calls -> Readings \cup {None}]
      /\ had \in [Calls -> BOOLEAN]
  BY DEF Init
<1>3. pc \in [Calls -> {"idle", "looking", "checking", "reading", "indexing", "storing",
                       "comparing", "moving", "publishing", "naming", "naming manifest",
                       "named", "probing", "retiring", "placing", "restoring", "dropping",
                       "undoing", "recovering", "over"}]
  BY DEF Init
<1>4. halted = {} /\ made = {n \in Names : Exists(n)}
  BY DEF Init
<1>5. halted \subseteq Calls /\ made \subseteq Names
  BY <1>4
<1>. QED
  BY <1>1, <1>2, <1>3, <1>5 DEF TypeOK

LEMMA InitInv == ASSUME Init PROVE Inv
PROOF
<1>1. PICK n \in Names, o \in {None} \cup {Overlay(m, l, s, 1) : m \in Names, l \in Layouts,
                                            s \in Sets} :
        dir = [p \in Places |-> IF p = n THEN o ELSE None]
  BY DEF Init
<1>2. o \in Overlays \cup {None}
  BY OverlayIsGood, PlacesAreApart
<1>3. dir \in [Places -> Overlays \cup {None}]
  BY <1>1, <1>2
<1>4. ASSUME NEW m \in Names, Exists(m) PROVE Good(dir[m], m)
  <2>1. dir[m] = o /\ o # None
    BY <1>1, <1>4, PlacesAreApart DEF Exists
  <2>2. PICK k \in Names, l \in Layouts, s \in Sets : o = Overlay(k, l, s, 1)
    BY <2>1
  <2>3. Good(o, k) /\ o.manifest.name = k
    BY <2>2, OverlayIsGood, PlacesAreApart DEF Good
  <2>4. dir[m].manifest.name = m
    BY <1>4 DEF Init
  <2>. QED
    BY <2>1, <2>3, <2>4
<1>5. ASSUME NEW c \in Calls PROVE ~Exists(Stage(c)) /\ ~Exists(Backup(c)) /\ ~Exists(Copy(c))
  BY <1>1, PlacesAreApart DEF Exists
<1>6. stored = UNION {dir[m].index : m \in {k \in Names :
                         Exists(k) /\ dir[k].manifest.layout = "content"}}
  BY DEF Init
<1>7. stored \subseteq Payloads
  <2>1. ASSUME NEW m \in Names, Exists(m) PROVE dir[m].index \subseteq Payloads
    BY <1>4, <2>1, SetsAssumption DEF Good
  <2>. QED
    BY <1>6, <2>1
<1>8. ASSUME NEW m \in Names PROVE NameInv(m)
  <2> SUFFICES ASSUME Exists(m) PROVE Good(dir[m], m) /\ Kept(dir[m])
    BY DEF NameInv
  <2>1. Good(dir[m], m)
    BY <1>4
  <2>2. Kept(dir[m])
    <3> SUFFICES ASSUME dir[m].file = "content" PROVE dir[m].index \subseteq stored
      BY DEF Kept
    <3>1. dir[m].manifest.layout = "content"
      BY <2>1 DEF Good
    <3>. QED
      BY <1>6, <3>1
  <2>. QED
    BY <2>1, <2>2
<1>9. /\ pc = [c \in Calls |-> "idle"] /\ call = [c \in Calls |-> None]
      /\ seen = [c \in Calls |-> None] /\ had = [c \in Calls |-> FALSE]
      /\ rd = [r \in Readers |-> [at |-> "idle", todo |-> {}, cur |-> None, got |-> {}]]
      /\ halted = {} /\ made \subseteq Names
  BY DEF Init
<1>10. TypeOK
  BY <1>3, <1>7, InitTypes
<1>11. ASSUME NEW c \in Calls PROVE HeldInv(c) /\ PhaseInv(c)
  BY <1>5, <1>9 DEF HeldInv, PhaseInv
<1>12. ASSUME NEW r \in Readers PROVE ReadInv(r)
  BY <1>9 DEF ReadInv
<1>. QED
  BY <1>8, <1>10, <1>11, <1>12 DEF Inv

LEMMA StepInv == ASSUME Inv, [Next]_vars PROVE Inv'
PROOF
<1>1. ASSUME NEW c \in Calls, Importing(c) PROVE Inv'
  BY <1>1, CheckStep, StoreImportedStep, PublishImportStep DEF Importing
<1>2. ASSUME NEW c \in Calls, Revising(c) PROVE Inv'
  BY <1>2, LookStep, ReadManifestStep, StoreRevisedStep, CompareStep, UndoReviseStep DEF Revising
<1>3. ASSUME NEW c \in Calls, Replacing(c) PROVE Inv'
  BY <1>3, NameIndexStep, NameManifestStep, NamedStep, UndoReplaceStep, RecoverStep
     DEF Replacing
<1>4. ASSUME NEW c \in Calls, Migrating(c) PROVE Inv'
  BY <1>4, ReadIndexStep, StoreMigratedStep, MoveTreeStep, UndoMigrateStep DEF Migrating
<1>5. ASSUME NEW c \in Calls, Swapping(c) PROVE Inv'
  BY <1>5, ProbeStep, RetireStep, PlaceStep, RestoreStep, DropStep DEF Swapping
<1>6. ASSUME UNCHANGED vars PROVE Inv'
  <2>1. UNCHANGED <<dir, stored, pc, call, seen, had, rd, halted, made>>
    BY <1>6 DEF vars, calls
  <2>2. TypeOK'
    BY <2>1 DEF Inv, TypeOK
  <2>3. \A r \in Readers : ReadInv(r)'
    BY <2>1 DEF Inv, ReadInv
  <2>. QED
    BY <2>1, <2>2, <2>3, ReaderOnly
<1>. QED
  BY <1>1, <1>2, <1>3, <1>4, <1>5, <1>6, BeginStep, CrashStep, ListStep, OpenManifestStep,
     OpenIndexStep DEF Next

\* The overlay under each name, what each call holds and where each reader is: true
\* of every state whatever calls meet, fail or die (CjsToolIndexOverlayStore.js).
THEOREM StoreIsSane == Spec => []Inv
PROOF
<1>1. Init => Inv
  BY InitInv
<1>2. Inv /\ [Next]_vars => Inv'
  BY StepInv
<1>. QED
  BY <1>1, <1>2, PTL DEF Spec

\* Directories, calls and readers have the values their comments name
\* (CjsToolIndexOverlayStore.js:60-120).
THEOREM TypeCorrect == Spec => []TypeOK
PROOF
<1>1. Inv => TypeOK
  BY DEF Inv
<1>. QED
  BY <1>1, StoreIsSane, PTL

\* Under its own name an overlay is consistent at every moment, for any number of
\* calls, names and payloads and wherever calls end (#SwapDirectory, :858).
THEOREM NamedStays == Spec => []NamedIsConsistent
PROOF
<1>1. Inv => NamedIsConsistent
  <2> SUFFICES ASSUME Inv, NEW n \in Names, Exists(n)
               PROVE  /\ dir[n].manifest # Torn /\ dir[n].manifest.name = n
                      /\ dir[n].index \in Sets
                      /\ dir[n].manifest.rowCount = Cardinality(dir[n].index)
                      /\ dir[n].manifest.layout = "content" => dir[n].index \subseteq stored
    BY DEF NamedIsConsistent
  <2>1. Good(dir[n], n) /\ Kept(dir[n])
    BY DEF Inv, NameInv
  <2>. QED
    BY <2>1, TornIsApart DEF Good, Kept
<1>. QED
  BY <1>1, StoreIsSane, PTL

\* What a service has opened it can read, although the directory may be another one
\* between the two files it reads (#OpenOverlay, :1061).
THEOREM OpenedStays == Spec => []OpenedIsStored
PROOF
<1>1. Inv => OpenedIsStored
  BY DEF Inv, ReadInv, OpenedIsStored
<1>. QED
  BY <1>1, StoreIsSane, PTL


-------------------------------------------------------------------------------
(* Copies: the inductive invariant *)

\* A tree that should mirror the index does not.
IsBare(d) == d.file = "logical" /\ ~(d.index \subseteq d.res)

Migration(c) == call[c] # None /\ call[c].op = "migrate"
Migrates(c, n) == Migration(c) /\ call[c].name = n

\* A migration that has been through MoveTree.
HasMoved(c) ==
    pc[c] \in {"probing", "retiring", "placing", "restoring", "dropping", "undoing", "over"}

\* What a call stages has its payloads, and so has the copy it has imported and named.
FreshInv(c) ==
    /\ pc[c] = "idle" => call[c] = None
    /\ pc[c] = "recovering" => ~Migration(c)
    /\ Exists(Stage(c)) => ~IsBare(dir[Stage(c)])
    /\ Exists(Stage(c)) /\ Migration(c) => dir[Stage(c)].file = "content"
    /\ Exists(Copy(c)) /\ pc[c] \in {"retiring", "placing"} /\ call[c].op = "replace" =>
         ~IsBare(dir[Copy(c)])
    /\ pc[c] \in {"naming", "naming manifest", "named"} /\ call[c].layout = "logical" =>
         call[c].rows \subseteq dir[Copy(c)].res

\* Every name that is or was in place is remembered.
MadeInv ==
    /\ \A n \in Names : Exists(n) => n \in made
    /\ \A c \in Calls : Exists(Backup(c)) => call[c].name \in made

\* An overlay without its tree: one migration has it whole in its stage, or two share it.
Excused(n, d) ==
    \/ MigratedTwice(n)
    \/ \E c \in Calls : /\ Migrates(c, n) /\ HasMoved(c) /\ d.res = {}
                        /\ Exists(Stage(c)) => d.index \subseteq dir[Stage(c)].res

TreeInv ==
    /\ \A n \in Names : Exists(n) /\ IsBare(dir[n]) => Excused(n, dir[n])
    /\ \A c \in Calls : Exists(Backup(c)) /\ IsBare(dir[Backup(c)]) =>
         Excused(call[c].name, dir[Backup(c)])

\* Where a complete copy is: in place, in a backup that is not being dropped, or in
\* the stage of a migration that has taken the tree.
InName(n) == Exists(n) /\ ~IsBare(dir[n])
Holds(c) ==
    /\ call[c] # None
    /\ \/ pc[c] # "dropping" /\ Exists(Backup(c)) /\ ~IsBare(dir[Backup(c)])
       \/ call[c].op = "migrate" /\ HasMoved(c) /\ Exists(Stage(c)) /\ dir[Stage(c)].res # {}

Safe(n) ==
    \/ \E m \in Heirs(n) : MigratedTwice(m) \/ InName(m)
    \/ \E c \in Calls : Holds(c) /\ call[c].name \in Heirs(n)

CopyInv ==
    /\ \A c \in Calls : FreshInv(c)
    /\ MadeInv /\ TreeInv
    /\ \A n \in made : Safe(n)

-------------------------------------------------------------------------------
(* Heirs *)

\* What a step of c must leave for the lemmas below: other calls, the requests to
\* migrate, and the stage of a migration that holds a tree.
Follows(c) ==
    /\ Own(c) /\ made \subseteq made'
    /\ \A d \in Calls : Migration(d) => call'[d] = call[d]
    /\ Migration(c) /\ HasMoved(c) =>
         pc'[c] \in {"probing", "retiring", "placing", "restoring", "dropping", "undoing", "over"}
         /\ (dir'[Stage(c)] = dir[Stage(c)] \/ dir'[Stage(c)] = None)

\* An overlay is its own heir, and its heirs' heirs are its heirs.
LEMMA HeirOfItself == ASSUME NEW n \in Names PROVE n \in Heirs(n)
PROOF
  BY DEF Heirs

LEMMA HeirOfItselfNext == ASSUME NEW n \in Names PROVE (n \in Heirs(n))'
PROOF
  BY DEF Heirs

LEMMA SafeChain ==
    ASSUME NEW n \in Names, NEW m \in Names, (m \in Heirs(n))', Safe(m)'
    PROVE  Safe(n)'
PROOF
<1>1. \A k \in Names : (k \in Heirs(m))' => (k \in Heirs(n))'
  BY DEF Heirs
<1>2. \A k : (k \in Heirs(m))' => k \in Names
  BY DEF Heirs
<1>. QED
  BY <1>1, <1>2 DEF Safe

\* What a migration makes of an overlay is its heir.
LEMMA Becomes ==
    ASSUME NEW c \in Calls, (Migration(c))', NEW n \in Names, (call[c].name = n)', NEW m \in Names,
           (call[c].to = m)'
    PROVE  (m \in Heirs(n))'
PROOF
  BY DEF Heirs, Closed, Migration

\* Requests are only added: heirs stay heirs, and an excuse stays one.
LEMMA HeirsStay ==
    ASSUME NEW c \in Calls, Follows(c), NEW n \in Names
    PROVE  /\ \A m \in Heirs(n) : (m \in Heirs(n))'
           /\ MigratedTwice(n) => MigratedTwice(n)'
PROOF
<1>1. \A d \in Calls : call[d] # None /\ call[d].op = "migrate" => call'[d] = call[d]
  BY DEF Follows, Migration
<1>2. \A m \in Heirs(n) : (m \in Heirs(n))'
  <2>1. \A S \in SUBSET Names : Closed(S)' => Closed(S)
    BY <1>1 DEF Closed
  <2>. QED
    BY <2>1 DEF Heirs
<1>3. MigratedTwice(n) => MigratedTwice(n)'
  BY <1>1 DEF MigratedTwice
<1>. QED
  BY <1>2, <1>3

LEMMA ExcuseStays ==
    ASSUME NEW c \in Calls, Follows(c), NEW n \in Names, NEW d, Excused(n, d)
    PROVE  \/ MigratedTwice(n)'
           \/ \E e \in Calls : /\ Migrates(e, n)' /\ HasMoved(e)' /\ d.res = {}
                               /\ Exists(Stage(e))' => d.index \subseteq dir'[Stage(e)].res
PROOF
<1>1. CASE MigratedTwice(n)
  BY <1>1, HeirsStay
<1>2. ASSUME NEW e \in Calls, Migrates(e, n), HasMoved(e), d.res = {},
             Exists(Stage(e)) => d.index \subseteq dir[Stage(e)].res
      PROVE  Migrates(e, n)' /\ HasMoved(e)'
             /\ (Exists(Stage(e))' => d.index \subseteq dir'[Stage(e)].res)
  <2>1. Migrates(e, n)'
    BY <1>2 DEF Follows, Migrates, Migration
  <2>2. CASE e = c
    BY <1>2, <2>1, <2>2 DEF Follows, HasMoved, Migrates, Exists
  <2>3. CASE e # c
    <3>1. pc'[e] = pc[e] /\ dir'[Stage(e)] = dir[Stage(e)]
      BY <2>3 DEF Follows, Own
    <3>. QED
      BY <1>2, <2>1, <3>1 DEF HasMoved, Exists
  <2>. QED
    BY <2>2, <2>3
<1>. QED
  BY <1>1, <1>2 DEF Excused

\* What a step of c must show of the directories it changes.
LEMMA CopyStep ==
    ASSUME Inv, Inv', CopyInv, NEW c \in Calls, Follows(c), FreshInv(c)',
           \A n \in Names : Exists(n)' => (n \in made)',
           Exists(Backup(c))' => (call[c].name \in made)',
           \A n \in Names : dir'[n] = dir[n] \/
               (Exists(n)' /\ IsBare(dir[n])' => Excused(n, dir[n])'),
           Exists(Backup(c))' /\ IsBare(dir[Backup(c)])' =>
               Excused(call[c].name, dir[Backup(c)])',
           \A n \in Names : dir'[n] = dir[n] \/ (InName(n) => Safe(n)'),
           \A n \in Names : Holds(c) /\ call[c].name = n => Safe(n)',
           \A n \in made' : n \in made \/ Safe(n)'
    PROVE  CopyInv'
PROOF
<1>1. ASSUME NEW e \in Calls \ {c}
      PROVE  /\ pc'[e] = pc[e] /\ call'[e] = call[e] /\ dir'[Stage(e)] = dir[Stage(e)]
             /\ dir'[Backup(e)] = dir[Backup(e)] /\ dir'[Copy(e)] = dir[Copy(e)]
  BY DEF Follows, Own
<1>2. \A e \in Calls : FreshInv(e)'
  <2> SUFFICES ASSUME NEW e \in Calls \ {c} PROVE FreshInv(e)'
    OBVIOUS
  <2>1. FreshInv(e)
    BY DEF CopyInv
  <2>. QED
    BY <1>1, <2>1 DEF FreshInv, Exists, IsBare, Migration
<1>3. MadeInv'
  <2>1. made \subseteq made'
    BY DEF Follows
  <2>2. ASSUME NEW e \in Calls \ {c} PROVE Exists(Backup(e))' => (call[e].name \in made)'
    BY <1>1, <2>1 DEF CopyInv, MadeInv, Exists
  <2>. QED
    BY <2>2 DEF MadeInv
<1>4. ASSUME NEW n \in Names, Exists(n)', IsBare(dir[n])' PROVE Excused(n, dir[n])'
  <2>1. CASE dir'[n] = dir[n]
    <3>1. Excused(n, dir[n])
      BY <1>4, <2>1 DEF CopyInv, TreeInv, Exists
    <3>2. \/ MigratedTwice(n)'
          \/ \E e \in Calls : /\ Migrates(e, n)' /\ HasMoved(e)' /\ dir[n].res = {}
                              /\ Exists(Stage(e))' => dir[n].index \subseteq dir'[Stage(e)].res
      BY <3>1, ExcuseStays
    <3>. QED
      BY <2>1, <3>2 DEF Excused
  <2>. QED
    BY <1>4, <2>1
<1>5. ASSUME NEW e \in Calls \ {c}, Exists(Backup(e))', IsBare(dir[Backup(e)])'
      PROVE  Excused(call[e].name, dir[Backup(e)])'
  <2>1. Exists(Backup(e)) /\ IsBare(dir[Backup(e)])
    BY <1>1, <1>5 DEF Exists
  <2>2. call[e].name \in Names
    BY <2>1 DEF Inv, PhaseInv, TypeOK, Requests
  <2>3. Excused(call[e].name, dir[Backup(e)])
    BY <2>1 DEF CopyInv, TreeInv
  <2> DEFINE n == call[e].name
  <2>4. \/ MigratedTwice(call[e].name)'
        \/ \E f \in Calls : /\ Migrates(f, n)' /\ HasMoved(f)' /\ dir[Backup(e)].res = {}
                            /\ Exists(Stage(f))' => dir[Backup(e)].index \subseteq dir'[Stage(f)].res
    <3>1. ASSUME NEW m \in Names, m = n PROVE
          \/ MigratedTwice(m)'
          \/ \E f \in Calls : /\ Migrates(f, m)' /\ HasMoved(f)' /\ dir[Backup(e)].res = {}
                              /\ Exists(Stage(f))' => dir[Backup(e)].index \subseteq dir'[Stage(f)].res
      BY <2>3, <3>1, ExcuseStays
    <3>. QED
      BY <1>1, <2>2, <3>1
  <2>. QED
    BY <1>1, <2>4 DEF Excused
<1>6. TreeInv'
  BY <1>4, <1>5 DEF TreeInv
<1>7. ASSUME NEW n \in made' PROVE Safe(n)'
  <2>1. CASE n \in made
    <3>1. n \in Names /\ Safe(n)
      BY <2>1 DEF Inv, TypeOK, CopyInv
    <3>2. ASSUME NEW m \in Heirs(n), MigratedTwice(m) PROVE Safe(n)'
      <4>1. m \in Names
        BY DEF Heirs
      <4>. QED
        BY <3>1, <3>2, <4>1, HeirsStay DEF Safe
    <3>3. ASSUME NEW m \in Heirs(n), InName(m) PROVE Safe(n)'
      <4>1. m \in Names /\ (m \in Heirs(n))'
        BY <3>1, HeirsStay DEF Heirs
      <4>2. CASE dir'[m] = dir[m]
        BY <3>3, <4>1, <4>2 DEF Safe, InName, Exists
      <4>3. CASE Safe(m)'
        BY <3>1, <4>1, <4>3, SafeChain
      <4>. QED
        BY <3>3, <4>1, <4>2, <4>3
    <3>4. ASSUME NEW e \in Calls, Holds(e), call[e].name \in Heirs(n) PROVE Safe(n)'
      <4>1. ASSUME NEW m \in Names, m = call[e].name PROVE Safe(n)'
        <5>1. (m \in Heirs(n))'
          BY <3>1, <3>4, <4>1, HeirsStay
        <5>2. CASE e = c
          BY <3>1, <3>4, <4>1, <5>1, <5>2, SafeChain
        <5>3. CASE e # c
          <6>1. Holds(e)' /\ (call[e].name)' = m
            BY <1>1, <3>4, <4>1, <5>3 DEF Holds, HasMoved, Exists
          <6>. QED
            BY <5>1, <6>1 DEF Safe
        <5>. QED
          BY <5>2, <5>3
      <4>. QED
        BY <3>4, <4>1 DEF Heirs
    <3>. QED
      BY <3>1, <3>2, <3>3, <3>4 DEF Safe
  <2>. QED
    BY <2>1
<1>. QED
  BY <1>2, <1>3, <1>6, <1>7 DEF CopyInv

\* The backup of a call that keeps it is excused as before.
LEMMA BackupStays ==
    ASSUME Inv, CopyInv, NEW c \in Calls, Follows(c), call' = call,
           dir'[Backup(c)] = dir[Backup(c)]
    PROVE  /\ Exists(Backup(c))' => (call[c].name \in made)'
           /\ Exists(Backup(c))' /\ IsBare(dir[Backup(c)])' =>
                Excused(call[c].name, dir[Backup(c)])'
PROOF
<1>1. Exists(Backup(c))' => (call[c].name \in made)'
  BY DEF CopyInv, MadeInv, Exists, Follows
<1>2. ASSUME Exists(Backup(c))', IsBare(dir[Backup(c)])'
      PROVE  Excused(call[c].name, dir[Backup(c)])'
  <2>1. Exists(Backup(c)) /\ IsBare(dir[Backup(c)])
    BY <1>2 DEF Exists
  <2>2. call[c].name \in Names
    BY <2>1 DEF Inv, PhaseInv, TypeOK, Requests
  <2>3. Excused(call[c].name, dir[Backup(c)])
    BY <2>1 DEF CopyInv, TreeInv
  <2>4. ASSUME NEW n \in Names, n = call[c].name
        PROVE  \/ MigratedTwice(n)'
               \/ \E e \in Calls : /\ Migrates(e, n)' /\ HasMoved(e)' /\ dir[Backup(c)].res = {}
                                   /\ Exists(Stage(e))' =>
                                        dir[Backup(c)].index \subseteq dir'[Stage(e)].res
    BY <2>3, <2>4, ExcuseStays
  <2>. QED
    BY <2>2, <2>4 DEF Excused
<1>. QED
  BY <1>1, <1>2

\* A step that leaves what is in place, and its own backup and tree.
LEMMA HiddenStep ==
    ASSUME Inv, Inv', CopyInv, NEW c \in Calls, Own(c), FreshInv(c)', call' = call, made' = made,
           \A n \in Names : dir'[n] = dir[n],
           dir'[Backup(c)] = dir[Backup(c)],
           pc'[c] # "dropping",
           Migration(c) /\ HasMoved(c) => dir'[Stage(c)] = dir[Stage(c)]
               /\ pc'[c] \in {"probing", "retiring", "placing", "restoring", "undoing", "over"}
    PROVE  CopyInv'
PROOF
<1>1. Follows(c)
  BY DEF Follows
<1>2. \A n \in Names : Exists(n)' => (n \in made)'
  BY DEF CopyInv, MadeInv, Exists
<1>3. ASSUME NEW n \in Names, Holds(c), call[c].name = n PROVE Safe(n)'
  <2>1. Holds(c)'
    BY <1>3 DEF Holds, HasMoved, Migration, Exists
  <2>. QED
    BY <1>3, <2>1, HeirOfItselfNext DEF Safe
<1>. QED
  BY <1>1, <1>2, <1>3, BackupStays, CopyStep

-------------------------------------------------------------------------------
(* Steps that leave what is in place alone *)

\* A call that changes only its own directories and names leaves those of the others.
LEMMA OwnStep ==
    ASSUME NEW c \in Calls,
           \A d \in Calls \ {c} : pc'[d] = pc[d] /\ call'[d] = call[d] /\ seen'[d] = seen[d],
           \A p \in Places : p \in Names \/ p \in {Stage(c), Backup(c), Copy(c)} \/ dir'[p] = dir[p],
           stored \subseteq stored', rd' = rd
    PROVE  Own(c)
PROOF
<1>1. ASSUME NEW d \in Calls \ {c}, NEW p \in {Stage(d), Backup(d), Copy(d)}
      PROVE  dir'[p] = dir[p]
  BY PlacesAreApart
<1>. QED
  BY <1>1 DEF Own

\* A call goes elsewhere and the disk stays as it is.
LEMMA DiskStays ==
    ASSUME Inv, Inv', CopyInv, NEW c \in Calls, dir' = dir, made' = made, call' = call, rd' = rd,
           stored \subseteq stored', \A d \in Calls \ {c} : seen'[d] = seen[d],
           NEW q, pc' = [pc EXCEPT ![c] = q],
           \/ q \in {"checking", "storing", "indexing", "comparing"} /\ ~HasMoved(c)
           \/ q \in {"over", "restoring", "undoing"}
           \/ q = "recovering" /\ ~Migration(c)
           \/ q = "probing" /\ pc[c] = "moving"
           \/ q \in {"retiring", "placing"} /\ pc[c] = "probing"
    PROVE  CopyInv'
PROOF
<1>1. PhaseInv(c) /\ FreshInv(c) /\ TypeOK
  BY DEF Inv, CopyInv
<1>2. pc'[c] = q /\ \A d \in Calls \ {c} : pc'[d] = pc[d]
  BY <1>1 DEF TypeOK
<1>3. Own(c)
  BY <1>2, OwnStep
<1>4. pc[c] = "probing" => call[c].op \in {"revise", "migrate"}
  BY <1>1 DEF PhaseInv
<1>5. FreshInv(c)'
  BY <1>1, <1>2, <1>4 DEF FreshInv, Exists, IsBare, Migration
<1>6. /\ pc'[c] # "dropping"
      /\ Migration(c) /\ HasMoved(c) =>
           pc'[c] \in {"probing", "retiring", "placing", "restoring", "undoing", "over"}
  BY <1>2 DEF HasMoved
<1>. QED
  BY <1>3, <1>5, <1>6, HiddenStep

\* A call fills, empties or writes in its stage or its copy.
LEMMA HiddenChanges ==
    ASSUME Inv, Inv', CopyInv, NEW c \in Calls, FreshInv(c)', made' = made, call' = call, rd' = rd,
           seen' = seen, stored \subseteq stored',
           NEW q, q # "dropping", pc' = [pc EXCEPT ![c] = q],
           \A p \in Places : p \in {Stage(c), Copy(c)} \/ dir'[p] = dir[p],
           ~(Migration(c) /\ HasMoved(c))
    PROVE  CopyInv'
PROOF
<1>1. TypeOK
  BY DEF Inv
<1>2. pc'[c] = q /\ \A d \in Calls \ {c} : pc'[d] = pc[d]
  BY <1>1 DEF TypeOK
<1>3. Own(c)
  BY <1>2, OwnStep
<1>4. /\ \A n \in Names : dir'[n] = dir[n]
      /\ dir'[Backup(c)] = dir[Backup(c)]
  BY PlacesAreApart
<1>. QED
  BY <1>2, <1>3, <1>4, HiddenStep

\* Calls begin, or turn into imports, with nothing on disk.
LEMMA RequestMade ==
    ASSUME Inv, Inv', CopyInv, NEW c \in Calls, NEW q, q # "idle", q # "retiring", q # "placing",
           pc' = [pc EXCEPT ![c] = q],
           q \notin {"naming", "naming manifest", "named", "recovering"},
           pc[c] \in {"idle", "looking"},
           \A d \in Calls \ {c} : call'[d] = call[d],
           UNCHANGED <<dir, stored, seen, rd, made>>
    PROVE  CopyInv'
PROOF
<1>1. PhaseInv(c) /\ FreshInv(c) /\ TypeOK
  BY DEF Inv, CopyInv
<1>2. pc'[c] = q /\ \A d \in Calls \ {c} : pc'[d] = pc[d]
  BY <1>1 DEF TypeOK
<1>3. Own(c)
  BY <1>2, OwnStep
<1>4. ~Exists(Stage(c)) /\ ~Exists(Backup(c)) /\ ~Exists(Copy(c)) /\ ~Migration(c)
  BY <1>1 DEF PhaseInv, FreshInv, Migration
<1>5. FreshInv(c)'
  BY <1>2, <1>4 DEF FreshInv, Exists
<1>6. Follows(c)
  BY <1>3, <1>4 DEF Follows
<1>7. \A n \in Names : Exists(n)' => (n \in made)'
  BY DEF CopyInv, MadeInv, Exists
<1>8. ~Exists(Backup(c))' /\ ~Holds(c)
  BY <1>4 DEF Exists, Holds, Migration
<1>. QED
  BY <1>5, <1>6, <1>7, <1>8, CopyStep

LEMMA BeginCopies == ASSUME Inv, Inv', CopyInv, NEW c \in Calls, Begin(c) PROVE CopyInv'
PROOF
<1>1. PICK op \in Ops, name \in Names, to \in Names, rows \in Sets, layout \in Layouts :
        /\ op # "migrate" => to = name
        /\ op = "revise" => layout = "content"
        /\ op = "migrate" => layout = "content" /\ rows = CHOOSE s \in Sets : TRUE
        /\ call' = [call EXCEPT ![c] = [op |-> op, name |-> name, to |-> to,
                                        rows |-> rows, layout |-> layout]]
        /\ Goto(c, CASE op = "import" -> "checking"
                     [] op = "migrate" -> "reading"
                     [] OTHER -> "looking")
  BY DEF Begin
<1>2. PICK q \in {"checking", "reading", "looking"} : pc' = [pc EXCEPT ![c] = q]
  <2>1. op \in {"import", "revise", "replace", "migrate"}
    BY OpsAssumption
  <2>. QED
    BY <1>1, <2>1 DEF Goto
<1>3. \A d \in Calls \ {c} : call'[d] = call[d]
  BY <1>1 DEF Inv, TypeOK
<1>4. pc[c] \in {"idle", "looking"} /\ UNCHANGED <<dir, stored, seen, rd, made>>
  BY DEF Begin
<1>. QED
  BY <1>2, <1>3, <1>4, RequestMade

LEMMA LookCopies == ASSUME Inv, Inv', CopyInv, NEW c \in Calls, Look(c) PROVE CopyInv'
PROOF
<1>1. PICK q \in {"reading", "checking"} : pc' = [pc EXCEPT ![c] = q]
  BY DEF Look, Goto
<1>2. \A d \in Calls \ {c} : call'[d] = call[d]
  BY DEF Look, Inv, TypeOK
<1>3. pc[c] \in {"idle", "looking"} /\ UNCHANGED <<dir, stored, seen, rd, made>>
  BY DEF Look
<1>. QED
  BY <1>1, <1>2, <1>3, RequestMade

\* Steps that end a call or go on, with the disk as it is.
LEMMA ReadingCopies ==
    ASSUME Inv, Inv', CopyInv, NEW c \in Calls,
           \/ Check(c) \/ ReadManifest(c) \/ ReadIndex(c) \/ StoreRevised(c) \/ Probe(c) \/ Crash(c)
    PROVE  CopyInv'
PROOF
<1>1. CASE Check(c)
  <2>1. PICK q \in {"over", "storing"} : pc' = [pc EXCEPT ![c] = q]
    BY <1>1 DEF Check, Moves, Goto
  <2>2. /\ UNCHANGED <<dir, made, call, rd, stored, seen>> /\ ~HasMoved(c)
    BY <1>1 DEF Check, Moves, HasMoved
  <2>. QED
    BY <2>1, <2>2, DiskStays
<1>2. CASE ReadManifest(c)
  <2>1. PICK q \in {"over", "storing", "indexing"} : pc' = [pc EXCEPT ![c] = q]
    BY <1>2 DEF ReadManifest, Goto
  <2>2. UNCHANGED <<dir, made, call, rd, stored>> /\ ~HasMoved(c)
    BY <1>2 DEF ReadManifest, HasMoved
  <2>3. \A d \in Calls \ {c} : seen'[d] = seen[d]
    BY <1>2 DEF ReadManifest, Inv, TypeOK
  <2>. QED
    BY <2>1, <2>2, <2>3, DiskStays
<1>3. CASE ReadIndex(c)
  <2>1. PICK q \in {"over", "storing", "checking"} : pc' = [pc EXCEPT ![c] = q]
    BY <1>3 DEF ReadIndex, Goto
  <2>2. UNCHANGED <<dir, made, call, rd, stored>> /\ ~HasMoved(c)
    BY <1>3 DEF ReadIndex, HasMoved
  <2>3. \A d \in Calls \ {c} : seen'[d] = seen[d]
    BY <1>3 DEF ReadIndex, Inv, TypeOK
  <2>. QED
    BY <2>1, <2>2, <2>3, DiskStays
<1>4. CASE StoreRevised(c)
  <2>1. PICK q \in {"over", "comparing"} : pc' = [pc EXCEPT ![c] = q]
    BY <1>4 DEF StoreRevised, Goto
  <2>2. UNCHANGED <<dir, made, call, rd, seen>> /\ ~HasMoved(c) /\ stored \subseteq stored'
    BY <1>4 DEF StoreRevised, HasMoved
  <2>. QED
    BY <2>1, <2>2, DiskStays
<1>5. CASE Probe(c)
  <2>1. PICK q \in {"retiring", "placing"} : pc' = [pc EXCEPT ![c] = q]
    BY <1>5 DEF Probe, Goto
  <2>2. UNCHANGED <<dir, made, call, rd, stored, seen>> /\ pc[c] = "probing"
    BY <1>5 DEF Probe
  <2>. QED
    BY <2>1, <2>2, DiskStays
<1>6. CASE Crash(c)
  <2>1. pc' = [pc EXCEPT ![c] = "over"]
    BY <1>6 DEF Crash, Goto
  <2>2. UNCHANGED <<dir, made, call, rd, stored, seen>>
    BY <1>6 DEF Crash
  <2>. QED
    BY <2>1, <2>2, DiskStays
<1>. QED
  BY <1>1, <1>2, <1>3, <1>4, <1>5, <1>6

\* A new directory has the tree its layout asks for.
LEMMA NewIsWhole ==
    ASSUME NEW name, NEW layout, NEW rows, NEW rev
    PROVE  LET d == Overlay(name, layout, rows, rev) IN
           ~IsBare(d) /\ d.file = layout
PROOF
  BY DEF Overlay, IsBare

\* A call stages a new directory, of the shared store when it is a migration.
LEMMA StagingCopies ==
    ASSUME Inv, Inv', CopyInv, NEW c \in Calls, NEW d \in Overlays, ~IsBare(d),
           Migration(c) => d.file = "content",
           dir' = [dir EXCEPT ![Stage(c)] = d],
           UNCHANGED <<made, call, rd, seen>>, stored \subseteq stored',
           pc[c] \in {"storing", "comparing"},
           NEW q \in {"publishing", "probing", "moving"}, pc' = [pc EXCEPT ![c] = q]
    PROVE  CopyInv'
PROOF
<1>1. TypeOK /\ FreshInv(c)
  BY DEF Inv, CopyInv
<1>2. Stage(c) \in Places
  BY PlacesAreApart
<1>3. dir'[Stage(c)] = d /\ \A p \in Places : p # Stage(c) => dir'[p] = dir[p]
  BY <1>1, <1>2, OneWritten
<1>4. pc'[c] = q
  BY <1>1 DEF TypeOK
<1>5. FreshInv(c)'
  BY <1>1, <1>3, <1>4 DEF FreshInv, Migration
<1>6. ~HasMoved(c)
  BY DEF HasMoved
<1>. QED
  BY <1>3, <1>5, <1>6, HiddenChanges

LEMMA StoreImportedCopies ==
    ASSUME Inv, Inv', CopyInv, NEW c \in Calls, StoreImported(c) PROVE CopyInv'
PROOF
<1>1. /\ pc[c] = "storing" /\ call[c].op \in {"import", "replace"}
      /\ UNCHANGED <<made, call, rd, seen>> /\ ~HasMoved(c) /\ ~Migration(c)
  BY DEF StoreImported, HasMoved, Migration
<1>2. stored \subseteq stored'
  BY DEF StoreImported
<1>3. CASE pc' = [pc EXCEPT ![c] = "over"] /\ dir' = dir
  BY <1>1, <1>2, <1>3, DiskStays
<1>4. CASE /\ dir' = [dir EXCEPT ![Stage(c)] =
                        Overlay(ImportPlace(c), call[c].layout, call[c].rows, 1)]
           /\ pc' = [pc EXCEPT ![c] = "publishing"]
  <2> DEFINE new == Overlay(ImportPlace(c), call[c].layout, call[c].rows, 1)
  <2>1. call[c] \in Requests
    BY <1>1 DEF Inv, PhaseInv, TypeOK
  <2>2. ImportPlace(c) \in Visible
    BY <2>1, PlacesAreApart DEF ImportPlace, Requests
  <2>3. new \in Overlays
    BY <2>1, <2>2, OverlayIsGood DEF Requests
  <2>4. ~IsBare(new)
    BY NewIsWhole
  <2>5. dir' = [dir EXCEPT ![Stage(c)] = new]
    BY <1>4
  <2> HIDE DEF new
  <2>. QED
    BY <1>1, <1>2, <1>4, <2>3, <2>4, <2>5, StagingCopies
<1>. QED
  BY <1>3, <1>4 DEF StoreImported, Goto

LEMMA CompareCopies ==
    ASSUME Inv, Inv', CopyInv, NEW c \in Calls, Compare(c) PROVE CopyInv'
PROOF
<1>1. /\ pc[c] = "comparing" /\ UNCHANGED <<stored, made, call, rd, seen>> /\ ~HasMoved(c)
  BY DEF Compare, HasMoved
<1>2. CASE pc' = [pc EXCEPT ![c] = "over"] /\ dir' = dir
  BY <1>1, <1>2, DiskStays
<1>3. CASE /\ dir' = [dir EXCEPT ![Stage(c)] = Overlay(call[c].name, "content", call[c].rows,
                                                      seen[c].manifest.revision + 1)]
           /\ pc' = [pc EXCEPT ![c] = "probing"]
  <2> DEFINE new == Overlay(call[c].name, "content", call[c].rows, seen[c].manifest.revision + 1)
  <2>1. call[c] \in Requests /\ seen[c] \in Readings /\ call[c].op = "revise"
    BY <1>1 DEF Inv, PhaseInv, TypeOK, HasRead
  <2>2. call[c].name \in Visible /\ call[c].rows \in Sets /\ "content" \in Layouts
        /\ seen[c].manifest.revision + 1 \in Nat
    BY <2>1, PlacesAreApart DEF Requests, Readings, Manifests, Layouts
  <2>3. new \in Overlays
    BY <2>2, OverlayIsGood
  <2>4. ~IsBare(new) /\ new.file = "content"
    BY NewIsWhole
  <2>5. dir' = [dir EXCEPT ![Stage(c)] = new]
    BY <1>3
  <2> HIDE DEF new
  <2>. QED
    BY <1>1, <1>3, <2>3, <2>4, <2>5, StagingCopies
<1>. QED
  BY <1>2, <1>3 DEF Compare, Goto

LEMMA StoreMigratedCopies ==
    ASSUME Inv, Inv', CopyInv, NEW c \in Calls, StoreMigrated(c) PROVE CopyInv'
PROOF
<1>1. /\ pc[c] = "storing" /\ call[c].op = "migrate"
      /\ UNCHANGED <<made, call, rd, seen>> /\ ~HasMoved(c)
  BY DEF StoreMigrated, HasMoved
<1>2. stored \subseteq stored'
  BY DEF StoreMigrated
<1>3. CASE pc' = [pc EXCEPT ![c] = "over"] /\ dir' = dir
  BY <1>1, <1>2, <1>3, DiskStays
<1>4. ASSUME NEW q \in {"moving", "probing"}, pc' = [pc EXCEPT ![c] = q],
             dir' = [dir EXCEPT ![Stage(c)] = Overlay(call[c].to, "content", seen[c].rows,
                                                      seen[c].manifest.revision)]
      PROVE  CopyInv'
  <2> DEFINE new == Overlay(call[c].to, "content", seen[c].rows, seen[c].manifest.revision)
  <2>1. call[c] \in Requests /\ seen[c] \in Readings /\ seen[c].rows \in Sets
    BY <1>1 DEF Inv, PhaseInv, TypeOK, HasRead
  <2>2. call[c].to \in Visible /\ "content" \in Layouts /\ seen[c].manifest.revision \in Nat
    BY <2>1, PlacesAreApart DEF Requests, Readings, Manifests, Layouts
  <2>3. new \in Overlays
    BY <2>1, <2>2, OverlayIsGood
  <2>4. ~IsBare(new) /\ new.file = "content"
    BY NewIsWhole
  <2>5. dir' = [dir EXCEPT ![Stage(c)] = new]
    BY <1>4
  <2> HIDE DEF new
  <2>. QED
    BY <1>1, <1>2, <1>4, <2>3, <2>4, <2>5, StagingCopies
<1>. QED
  BY <1>3, <1>4 DEF StoreMigrated, Goto

\* Replace writes the files of its copy again, and its tree stays.
LEMMA NamingCopies ==
    ASSUME Inv, Inv', CopyInv, NEW c \in Calls, NameIndex(c) \/ NameManifest(c) \/ Named(c)
    PROVE  CopyInv'
PROOF
<1>0. CASE NameFails(c)
  <2>1. dir' = dir /\ pc' = [pc EXCEPT ![c] = "undoing"] /\ UNCHANGED <<stored, made, call, rd, seen>>
    BY <1>0 DEF NameFails, Goto, NameIndex, NameManifest, Named
  <2>. QED
    BY <2>1, DiskStays
<1>1. /\ TypeOK /\ FreshInv(c) /\ HeldInv(c)
      /\ pc[c] \in {"naming", "naming manifest", "named"} /\ call[c] # None
      /\ UNCHANGED <<stored, made, call, rd, seen>> /\ ~HasMoved(c)
  BY DEF Inv, CopyInv, PhaseInv, NameIndex, NameManifest, Named, HasMoved
<1> DEFINE old == dir[Copy(c)]
<1>2. old \in Overlays /\ Copy(c) \in Places /\ old.file = call[c].layout
  BY <1>1, PlacesAreApart DEF HeldInv, Exists, TypeOK
<1>3. Stage(c) \in Places /\ Stage(c) # Copy(c)
  BY PlacesAreApart
<1>4. ASSUME NEW d, dir' = [dir EXCEPT ![Copy(c)] = d], d.res = old.res,
             NEW q \in {"naming manifest", "named", "retiring"}, pc' = [pc EXCEPT ![c] = q],
             q = "retiring" => d.file = old.file /\ d.index = call[c].rows
      PROVE  CopyInv'
  <2>1. /\ dir'[Copy(c)] = d /\ dir'[Stage(c)] = dir[Stage(c)]
        /\ \A p \in Places : p # Copy(c) => dir'[p] = dir[p]
    BY <1>1, <1>2, <1>3, <1>4 DEF TypeOK
  <2>2. pc'[c] = q
    BY <1>1, <1>4 DEF TypeOK
  <2>3. FreshInv(c)'
    BY <1>1, <1>2, <1>4, <2>1, <2>2 DEF FreshInv, Exists, IsBare, Migration
  <2>. QED
    BY <1>1, <1>4, <2>1, <2>3, HiddenChanges
<1>5. CASE NameIndex(c) /\ ~NameFails(c)
  <2>1. pc' = [pc EXCEPT ![c] = "naming manifest"]
    BY <1>5 DEF NameIndex, Goto
  <2>2. CASE dir' = [dir EXCEPT ![Copy(c)].index = Torn]
    <3> DEFINE new == [old EXCEPT !.index = Torn]
    <3>1. dir' = [dir EXCEPT ![Copy(c)] = new]
      BY <2>2
    <3>2. new.res = old.res
      BY <1>2 DEF Overlays
    <3> HIDE DEF new, old
    <3>. QED
      BY <1>4, <2>1, <3>1, <3>2
  <2>3. CASE dir' = dir
    <3>1. dir' = [dir EXCEPT ![Copy(c)] = old]
      BY <1>1, <2>3 DEF TypeOK
    <3> HIDE DEF old
    <3>. QED
      BY <1>4, <2>1, <3>1
  <2>. QED
    BY <1>5, <2>2, <2>3 DEF NameIndex
<1>6. CASE NameManifest(c) /\ ~NameFails(c)
  <2>1. pc' = [pc EXCEPT ![c] = "named"]
        /\ dir' = [dir EXCEPT ![Copy(c)].index = call[c].rows, ![Copy(c)].manifest = Torn]
    BY <1>6 DEF NameManifest, Goto
  <2> DEFINE i == call[c].rows
             mid == [old EXCEPT !.index = i]
             new == [mid EXCEPT !.manifest = Torn]
  <2>2. dir' = [dir EXCEPT ![Copy(c)] = new]
    BY <1>1, <1>2, <2>1 DEF TypeOK
  <2>3. new.res = old.res
    <3> HIDE DEF i, old
    <3>. QED
      BY <1>2 DEF Overlays
  <2> HIDE DEF new, old
  <2>. QED
    BY <1>4, <2>1, <2>2, <2>3
<1>7. CASE Named(c) /\ ~NameFails(c)
  <2>1. pc' = [pc EXCEPT ![c] = "retiring"] /\ old.index = call[c].rows
    BY <1>1, <1>7 DEF Named, Goto, HeldInv
  <2> DEFINE m == Manifest(call[c].name, call[c].layout, call[c].rows, 1)
             new == [old EXCEPT !.manifest = m]
  <2>2. dir' = [dir EXCEPT ![Copy(c)] = new]
    BY <1>7 DEF Named
  <2>3. new.res = old.res /\ new.file = old.file /\ new.index = old.index
    <3> HIDE DEF m, old
    <3>. QED
      BY <1>2 DEF Overlays
  <2> HIDE DEF new, old
  <2>. QED
    BY <1>4, <2>1, <2>2, <2>3
<1>. QED
  BY <1>0, <1>5, <1>6, <1>7

\* A call removes what it has staged or copied.
LEMMA GivingUpCopies ==
    ASSUME Inv, Inv', CopyInv, NEW c \in Calls, NEW p \in {Stage(c), Copy(c)}, Remove(p),
           NEW q \in {"over", "recovering"}, pc' = [pc EXCEPT ![c] = q],
           UNCHANGED <<stored, call, seen, rd>>, pc[c] # "idle", ~Migration(c)
    PROVE  CopyInv'
PROOF
<1>1. TypeOK /\ FreshInv(c)
  BY DEF Inv, CopyInv
<1>2. p \in Places /\ Stage(c) \in Places
  BY PlacesAreApart
<1>3. /\ dir'[p] = None /\ made' = made
      /\ \A o \in Places \ {p} : dir'[o] = dir[o]
  BY <1>1, <1>2, Removed DEF Remove
<1>4. pc'[c] = q
  BY <1>1 DEF TypeOK
<1>5. dir'[Stage(c)] = dir[Stage(c)] \/ dir'[Stage(c)] = None
  BY <1>2, <1>3
<1>6. FreshInv(c)'
  BY <1>1, <1>4, <1>5 DEF FreshInv, Exists, IsBare, Migration
<1>. QED
  BY <1>3, <1>6, HiddenChanges

LEMMA UndoReviseCopies ==
    ASSUME Inv, Inv', CopyInv, NEW c \in Calls, UndoRevise(c) PROVE CopyInv'
PROOF
  BY GivingUpCopies DEF UndoRevise, Goto, Migration

LEMMA UndoReplaceCopies ==
    ASSUME Inv, Inv', CopyInv, NEW c \in Calls, UndoReplace(c) PROVE CopyInv'
PROOF
<1>1. /\ pc[c] = "undoing" /\ call[c].op = "replace" /\ UNCHANGED <<stored, call, seen, rd>>
      /\ ~Migration(c)
  BY DEF UndoReplace, Migration
<1>2. CASE Remove(Copy(c)) /\ pc' = [pc EXCEPT ![c] = "recovering"]
  BY <1>1, <1>2, GivingUpCopies
<1>3. CASE UNCHANGED <<dir, made>> /\ pc' = [pc EXCEPT ![c] = "over"]
  BY <1>1, <1>3, DiskStays
<1>. QED
  BY <1>2, <1>3 DEF UndoReplace, GivesUp, Goto

-------------------------------------------------------------------------------
(* Steps that rename what is in place *)

\* A complete directory of c takes the place of none, or another's backup goes back.
LEMMA PlacingCopies ==
    ASSUME Inv, Inv', CopyInv, NEW c \in Calls, NEW p \in {Stage(c), Backup(c), Copy(c)},
           NEW n \in Names, CanRename(p, n), Rename(p, n),
           UNCHANGED <<stored, call, seen, rd>>,
           NEW q \in {"over", "dropping", "undoing"}, pc' = [pc EXCEPT ![c] = q],
           pc[c] \in {"publishing", "placing", "restoring", "recovering"},
           \/ ~IsBare(dir[p]) /\ (n = call[c].name \/ (Migration(c) /\ n = call[c].to))
           \/ p = Backup(c) /\ n = call[c].name
    PROVE  CopyInv'
PROOF
<1>1. TypeOK /\ FreshInv(c) /\ PhaseInv(c)
  BY DEF Inv, CopyInv
<1>2. call[c] # None /\ call[c] \in Requests /\ call[c].name \in Names
  BY <1>1 DEF PhaseInv, TypeOK, Requests
<1>3. p \in Places /\ n \in Places /\ p # n
  BY PlacesAreApart
<1>4. /\ dir'[n] = dir[p] /\ dir'[p] = None /\ Exists(p) /\ ~Exists(n)
      /\ \A o \in Places \ {p, n} : dir'[o] = dir[o]
  BY <1>1, <1>3, Renamed DEF CanRename
<1>5. /\ pc'[c] = q /\ \A d \in Calls \ {c} : pc'[d] = pc[d]
      /\ made' = made \cup {n}
  BY <1>1 DEF TypeOK, Rename
<1>6. Own(c)
  <2>1. \A o \in Places : o \in Names \/ o \in {Stage(c), Backup(c), Copy(c)} \/ dir'[o] = dir[o]
    BY <1>4
  <2>. QED
    BY <1>5, <2>1, OwnStep
<1>7. /\ dir'[Stage(c)] = dir[Stage(c)] \/ dir'[Stage(c)] = None
      /\ dir'[Backup(c)] = dir[Backup(c)] \/ dir'[Backup(c)] = None
      /\ p # Stage(c) => dir'[Stage(c)] = dir[Stage(c)]
  BY <1>3, <1>4, PlacesAreApart
<1>8. Follows(c)
  BY <1>5, <1>6, <1>7 DEF Follows
<1>9. FreshInv(c)'
  BY <1>1, <1>5, <1>7 DEF FreshInv, Exists, IsBare, Migration
<1>10. \A m \in Names : m = n \/ dir'[m] = dir[m]
  BY <1>3, <1>4, PlacesAreApart
<1>11. \A m \in Names : Exists(m)' => (m \in made)'
  BY <1>5, <1>10 DEF CopyInv, MadeInv, Exists
<1>12. /\ Exists(Backup(c))' => (call[c].name \in made)'
       /\ Exists(Backup(c))' /\ IsBare(dir[Backup(c)])' =>
            Excused(call[c].name, dir[Backup(c)])'
  <2>1. CASE dir'[Backup(c)] = dir[Backup(c)]
    BY <1>8, <2>1, BackupStays
  <2>2. CASE dir'[Backup(c)] = None
    BY <2>2 DEF Exists
  <2>. QED
    BY <1>7, <2>1, <2>2
<1>13. Exists(n)' /\ IsBare(dir[n])' => Excused(n, dir[n])'
  <2> SUFFICES ASSUME IsBare(dir[p]) PROVE Excused(n, dir[n])'
    BY <1>4
  <2>1. p = Backup(c) /\ n = call[c].name
    OBVIOUS
  <2>2. Excused(n, dir[p])
    BY <1>4, <2>1 DEF CopyInv, TreeInv
  <2>3. \/ MigratedTwice(n)'
        \/ \E e \in Calls : /\ Migrates(e, n)' /\ HasMoved(e)' /\ dir[p].res = {}
                            /\ Exists(Stage(e))' => dir[p].index \subseteq dir'[Stage(e)].res
    BY <1>8, <2>2, ExcuseStays
  <2>. QED
    BY <1>4, <2>3 DEF Excused
<1>14. ~IsBare(dir[p]) => InName(n)'
  BY <1>4 DEF InName, Exists
<1>15. ~IsBare(dir[p]) => Safe(n)' /\ Safe(call[c].name)'
  <2>1. (n \in Heirs(call[c].name))'
    <3>1. CASE n = call[c].name
      BY <3>1, HeirOfItselfNext
    <3>2. CASE Migration(c) /\ n = call[c].to
      <4>1. Migration(c)'
        BY <3>2 DEF Migration
      <4>2. ASSUME NEW m \in Names, m = call[c].name PROVE (n \in Heirs(m))'
        BY <3>2, <4>1, <4>2, Becomes
      <4>. QED
        BY <1>2, <4>2
    <3>. QED
      BY <3>1, <3>2
  <2>2. (n \in Heirs(n))'
    BY HeirOfItselfNext
  <2>. QED
    BY <1>14, <2>1, <2>2 DEF Safe
<1>16. ASSUME NEW m \in Names, Holds(c), call[c].name = m PROVE Safe(m)'
  <2>1. CASE ~IsBare(dir[p])
    BY <1>15, <1>16, <2>1
  <2>2. CASE IsBare(dir[p])
    <3>1. p = Backup(c)
      BY <2>2
    <3>2. dir'[Stage(c)] = dir[Stage(c)]
      BY <1>7, <3>1, PlacesAreApart
    <3>3. Holds(c)'
      BY <1>5, <1>16, <2>2, <3>1, <3>2 DEF Holds, HasMoved, Exists
    <3>. QED
      BY <1>16, <3>3, HeirOfItselfNext DEF Safe
  <2>. QED
    BY <2>1, <2>2
<1>17. n \in made \/ Safe(n)'
  <2>1. CASE IsBare(dir[p])
    BY <1>4, <2>1 DEF CopyInv, MadeInv
  <2>. QED
    BY <1>15, <2>1
<1>18. \A m \in made' : m \in made \/ Safe(m)'
  BY <1>5, <1>17
<1>19. \A m \in Names : dir'[m] = dir[m] \/ (InName(m) => Safe(m)')
  BY <1>4, <1>10 DEF InName
<1>20. \A m \in Names : dir'[m] = dir[m] \/
           (Exists(m)' /\ IsBare(dir[m])' => Excused(m, dir[m])')
  BY <1>10, <1>13
<1>. QED
  BY <1>8, <1>9, <1>11, <1>12, <1>16, <1>18, <1>19, <1>20, CopyStep

\* Import puts its stage in place, or the copy of Replace beside what it replaces.
LEMMA PublishImportCopies ==
    ASSUME Inv, Inv', CopyInv, NEW c \in Calls, PublishImport(c) PROVE CopyInv'
PROOF
<1>1. /\ TypeOK /\ FreshInv(c) /\ HeldInv(c) /\ PhaseInv(c) /\ pc[c] = "publishing"
      /\ UNCHANGED <<stored, call, seen, rd>>
  BY DEF Inv, CopyInv, PublishImport
<1>2. /\ call[c] # None /\ call[c] \in Requests /\ call[c].name \in Names
      /\ call[c].op \in {"import", "replace"} /\ ~Migration(c)
  BY <1>1 DEF PhaseInv, TypeOK, Requests, Migration
<1>3. CASE Remove(Stage(c)) /\ pc' = [pc EXCEPT ![c] = "over"]
  BY <1>1, <1>2, <1>3, GivingUpCopies
<1>4. CASE /\ call[c].op = "import"
           /\ CanRename(Stage(c), call[c].name) /\ Rename(Stage(c), call[c].name)
           /\ pc' = [pc EXCEPT ![c] = "over"]
  <2>1. ~IsBare(dir[Stage(c)])
    BY <1>1, <1>4 DEF FreshInv, CanRename
  <2>. QED
    BY <1>1, <1>2, <1>4, <2>1, PlacingCopies
<1>5. CASE /\ call[c].op = "replace"
           /\ CanRename(Stage(c), Copy(c)) /\ Rename(Stage(c), Copy(c))
           /\ pc' = [pc EXCEPT ![c] = "naming"]
  <2>1. Stage(c) \in Places /\ Copy(c) \in Places /\ Stage(c) # Copy(c) /\ Copy(c) \notin Names
    BY PlacesAreApart
  <2>2. /\ dir'[Copy(c)] = dir[Stage(c)] /\ dir'[Stage(c)] = None /\ made' = made
        /\ \A o \in Places \ {Copy(c), Stage(c)} : dir'[o] = dir[o]
    <3>1. made' = made
      BY <1>5, <2>1 DEF Rename
    <3>. QED
      BY <1>1, <1>5, <2>1, <3>1, Renamed
  <2>3. /\ ~IsBare(dir[Stage(c)]) /\ dir[Stage(c)].file = call[c].layout
        /\ dir[Stage(c)].index = call[c].rows /\ pc'[c] = "naming"
    BY <1>1, <1>5 DEF FreshInv, CanRename, HeldInv, TypeOK
  <2>4. FreshInv(c)'
    BY <1>1, <2>2, <2>3 DEF FreshInv, Exists, IsBare
  <2>. QED
    BY <1>1, <1>2, <1>5, <2>2, <2>4, HiddenChanges
<1>6. call[c].op = "replace" => ImportPlace(c) = Copy(c)
  BY DEF ImportPlace
<1>7. call[c].op = "import" => ImportPlace(c) = call[c].name /\ call[c].op # "replace"
  BY DEF ImportPlace
<1>8. \/ Remove(Stage(c)) /\ pc' = [pc EXCEPT ![c] = "over"]
      \/ /\ CanRename(Stage(c), ImportPlace(c)) /\ Rename(Stage(c), ImportPlace(c))
         /\ pc' = [pc EXCEPT ![c] = IF call[c].op = "replace" THEN "naming" ELSE "over"]
  BY DEF PublishImport, Goto
<1>. QED
  BY <1>2, <1>3, <1>4, <1>5, <1>6, <1>7, <1>8

\* What is retired is in the backup, as complete as it was in place.
LEMMA RetireCopies == ASSUME Inv, Inv', CopyInv, NEW c \in Calls, Retire(c) PROVE CopyInv'
PROOF
<1>1. /\ TypeOK /\ FreshInv(c) /\ PhaseInv(c) /\ pc[c] = "retiring"
      /\ UNCHANGED <<stored, call, seen, rd>>
  BY DEF Inv, CopyInv, Retire
<1>2. call[c] # None /\ call[c] \in Requests /\ call[c].name \in Names
  BY <1>1 DEF PhaseInv, TypeOK, Requests
<1> DEFINE n == call[c].name
<1>3. CASE dir' = dir /\ made' = made /\ pc' = [pc EXCEPT ![c] = "undoing"]
  BY <1>1, <1>3, DiskStays
<1>4. CASE /\ CanRename(n, Backup(c)) /\ Rename(n, Backup(c))
           /\ pc' = [pc EXCEPT ![c] = "placing"]
  <2>1. Backup(c) \in Places /\ n \in Places /\ n # Backup(c) /\ Backup(c) \notin Names
    BY <1>2, PlacesAreApart
  <2>2. /\ dir'[Backup(c)] = dir[n] /\ dir'[n] = None /\ Exists(n) /\ ~Exists(Backup(c))
        /\ \A o \in Places \ {n, Backup(c)} : dir'[o] = dir[o]
    BY <1>1, <1>4, <2>1, Renamed DEF CanRename
  <2>3. /\ pc'[c] = "placing" /\ \A d \in Calls \ {c} : pc'[d] = pc[d]
        /\ made' = made
    BY <1>1, <1>4, <2>1 DEF TypeOK, Rename
  <2>4. Own(c)
    <3>1. \A o \in Places : o \in Names \/ o \in {Stage(c), Backup(c), Copy(c)} \/ dir'[o] = dir[o]
      BY <1>2, <2>2
    <3>. QED
      BY <1>1, <2>3, <3>1, OwnStep
  <2>5. dir'[Stage(c)] = dir[Stage(c)] /\ dir'[Copy(c)] = dir[Copy(c)]
    BY <1>2, <2>2, PlacesAreApart
  <2>6. Follows(c)
    BY <1>1, <2>3, <2>4, <2>5 DEF Follows
  <2>7. FreshInv(c)'
    BY <1>1, <2>3, <2>5 DEF FreshInv, Exists, IsBare, Migration
  <2>8. \A m \in Names : m = n \/ dir'[m] = dir[m]
    BY <2>1, <2>2, PlacesAreApart
  <2>9. \A m \in Names : Exists(m)' => (m \in made)'
    BY <2>2, <2>3, <2>8 DEF CopyInv, MadeInv, Exists
  <2>10. n \in made'
    BY <1>2, <2>2, <2>3 DEF CopyInv, MadeInv
  <2>11. Exists(Backup(c))' /\ IsBare(dir[Backup(c)])' => Excused(call[c].name, dir[Backup(c)])'
    <3> SUFFICES ASSUME IsBare(dir[n]) PROVE Excused(call[c].name, dir[Backup(c)])'
      BY <2>2
    <3>1. Excused(n, dir[n])
      BY <1>2, <2>2 DEF CopyInv, TreeInv
    <3>2. \/ MigratedTwice(n)'
          \/ \E e \in Calls : /\ Migrates(e, n)' /\ HasMoved(e)' /\ dir[n].res = {}
                              /\ Exists(Stage(e))' => dir[n].index \subseteq dir'[Stage(e)].res
      <4>1. ASSUME NEW m \in Names, m = n
            PROVE  \/ MigratedTwice(m)'
                   \/ \E e \in Calls : /\ Migrates(e, m)' /\ HasMoved(e)' /\ dir[n].res = {}
                                       /\ Exists(Stage(e))' =>
                                            dir[n].index \subseteq dir'[Stage(e)].res
        BY <2>6, <3>1, <4>1, ExcuseStays
      <4>. QED
        BY <1>1, <1>2, <4>1
    <3>. QED
      BY <1>1, <2>2, <3>2 DEF Excused
  <2>12. ~IsBare(dir[n]) => Holds(c)'
    BY <1>1, <1>2, <2>2, <2>3 DEF Holds, Exists
  <2>13. InName(n) => Safe(n)'
    <3>1. ASSUME NEW m \in Names, m = n, InName(m) PROVE Safe(m)'
      BY <1>1, <2>12, <3>1, HeirOfItselfNext DEF Safe, InName
    <3>. QED
      BY <1>1, <1>2, <3>1
  <2>14. ASSUME NEW m \in Names, Holds(c), call[c].name = m PROVE Safe(m)'
    <3>1. Holds(c)'
      BY <1>1, <2>2, <2>3, <2>5, <2>14 DEF Holds, HasMoved, Exists
    <3>. QED
      BY <1>1, <2>14, <3>1, HeirOfItselfNext DEF Safe
  <2>15. \A m \in Names : dir'[m] = dir[m] \/ (InName(m) => Safe(m)')
    <3>1. ASSUME NEW m \in Names, m = n PROVE InName(m) => Safe(m)'
      BY <1>1, <2>13, <3>1
    <3>. QED
      BY <2>8, <3>1
  <2>16. \A m \in Names : dir'[m] = dir[m] \/
             (Exists(m)' /\ IsBare(dir[m])' => Excused(m, dir[m])')
    BY <2>2, <2>8 DEF Exists
  <2>17. Exists(Backup(c))' => (call[c].name \in made)'
    BY <1>1, <2>10
  <2>. QED
    BY <2>3, <2>6, <2>7, <2>9, <2>11, <2>14, <2>15, <2>16, <2>17, CopyStep
<1>. QED
  BY <1>3, <1>4 DEF Retire, Goto

\* What is placed is complete.
LEMMA PlaceCopies == ASSUME Inv, Inv', CopyInv, NEW c \in Calls, Place(c) PROVE CopyInv'
PROOF
<1>1. /\ TypeOK /\ FreshInv(c) /\ PhaseInv(c) /\ pc[c] = "placing"
      /\ UNCHANGED <<stored, call, seen, rd>>
  BY DEF Inv, CopyInv, Place
<1>2. call[c] # None /\ call[c] \in Requests
  BY <1>1 DEF PhaseInv, TypeOK
<1>3. CASE /\ CanRename(Source(c), Destination(c)) /\ Rename(Source(c), Destination(c))
           /\ pc' = [pc EXCEPT ![c] = IF had[c] THEN "dropping" ELSE "over"]
  <2>1. /\ Destination(c) \in Names
        /\ Destination(c) = call[c].name \/ (Migration(c) /\ Destination(c) = call[c].to)
    <3>1. CASE call[c].op = "migrate"
      BY <1>2, <3>1 DEF Destination, Requests, Migration
    <3>2. CASE call[c].op # "migrate"
      BY <1>2, <3>2 DEF Destination, Requests
    <3>. QED
      BY <3>1, <3>2
  <2>2. Source(c) \in {Stage(c), Backup(c), Copy(c)}
    BY DEF Source
  <2>3. ~IsBare(dir[Source(c)])
    BY <1>1, <1>3 DEF Source, FreshInv, CanRename
  <2>4. PICK q \in {"dropping", "over"} : pc' = [pc EXCEPT ![c] = q]
    BY <1>3
  <2>. QED
    BY <1>1, <1>3, <2>1, <2>2, <2>3, <2>4, PlacingCopies
<1>4. CASE /\ pc' = [pc EXCEPT ![c] = IF had[c] THEN "restoring" ELSE "undoing"]
           /\ UNCHANGED <<dir, made>>
  <2>1. PICK q \in {"restoring", "undoing"} : pc' = [pc EXCEPT ![c] = q]
    BY <1>4
  <2>. QED
    BY <1>1, <1>4, <2>1, DiskStays
<1>. QED
  BY <1>3, <1>4 DEF Place, Goto

\* The backup goes back, with what it held.
LEMMA PutBackCopies ==
    ASSUME Inv, Inv', CopyInv, NEW c \in Calls, Restore(c) \/ Recover(c) PROVE CopyInv'
PROOF
<1>1. /\ TypeOK /\ PhaseInv(c) /\ pc[c] \in {"restoring", "recovering"}
      /\ UNCHANGED <<stored, call, seen, rd>>
  BY DEF Inv, Restore, Recover
<1>2. call[c].name \in Names
  BY <1>1 DEF PhaseInv, TypeOK, Requests
<1>3. PICK q \in {"undoing", "over"} : pc' = [pc EXCEPT ![c] = q]
  BY DEF Restore, Recover, Goto
<1>4. CASE CanRename(Backup(c), call[c].name) /\ Rename(Backup(c), call[c].name)
  BY <1>1, <1>2, <1>3, <1>4, PlacingCopies
<1>5. CASE UNCHANGED <<dir, made>>
  BY <1>1, <1>3, <1>5, DiskStays
<1>. QED
  BY <1>4, <1>5 DEF Restore, Recover, PutBack, GivesUp

\* What is dropped is no witness any more: another is in place.
LEMMA DropCopies == ASSUME Inv, Inv', CopyInv, NEW c \in Calls, Drop(c) PROVE CopyInv'
PROOF
<1>1. /\ TypeOK /\ FreshInv(c) /\ pc[c] = "dropping" /\ UNCHANGED <<stored, call, seen, rd>>
  BY DEF Inv, CopyInv, Drop
<1>0. CASE /\ UNCHANGED <<dir, made>>
           /\ pc' = [pc EXCEPT ![c] = IF call[c].op = "replace" THEN "recovering" ELSE "over"]
  <2>1. PICK q \in {"recovering", "over"} :
          pc' = [pc EXCEPT ![c] = q] /\ (q = "recovering" => ~Migration(c))
    BY <1>0 DEF Migration
  <2>. QED
    BY <1>0, <1>1, <2>1, DiskStays
<1> SUFFICES ASSUME Remove(Backup(c)), pc' = [pc EXCEPT ![c] = "over"] PROVE CopyInv'
  BY <1>0 DEF Drop, Goto
<1>2. Backup(c) \in Places
  BY PlacesAreApart
<1>3. /\ dir'[Backup(c)] = None /\ made' = made
      /\ \A o \in Places \ {Backup(c)} : dir'[o] = dir[o]
  BY <1>1, <1>2, Removed DEF Remove
<1>4. pc'[c] = "over" /\ \A d \in Calls \ {c} : pc'[d] = pc[d]
  BY <1>1 DEF TypeOK
<1>5. Own(c)
  <2>1. \A o \in Places : o \in Names \/ o \in {Stage(c), Backup(c), Copy(c)} \/ dir'[o] = dir[o]
    BY <1>3
  <2>. QED
    BY <1>1, <1>4, <2>1, OwnStep
<1>6. dir'[Stage(c)] = dir[Stage(c)] /\ \A n \in Names : dir'[n] = dir[n]
  BY <1>3, PlacesAreApart
<1>7. FreshInv(c)'
  BY <1>1, <1>4, <1>6 DEF FreshInv, Exists, IsBare, Migration
<1>8. Follows(c)
  BY <1>1, <1>3, <1>4, <1>5, <1>6 DEF Follows
<1>9. \A n \in Names : Exists(n)' => (n \in made)'
  BY <1>3, <1>6 DEF CopyInv, MadeInv, Exists
<1>10. ASSUME NEW n \in Names, Holds(c), call[c].name = n PROVE Safe(n)'
  <2>1. Holds(c)'
    BY <1>1, <1>4, <1>6, <1>10 DEF Holds, HasMoved, Exists
  <2>. QED
    BY <1>1, <1>10, <2>1, HeirOfItselfNext DEF Safe
<1>11. ~Exists(Backup(c))'
  BY <1>3 DEF Exists
<1>. QED
  BY <1>3, <1>6, <1>7, <1>8, <1>9, <1>10, <1>11, CopyStep

-------------------------------------------------------------------------------
(* Steps that move a tree *)

\* Two migrations of one overlay, unless the excuse is the one's own stage.
LEMMA OneMigration ==
    ASSUME NEW c \in Calls, NEW n \in Names, Migrates(c, n), NEW d, Excused(n, d)
    PROVE  \/ MigratedTwice(n)
           \/ HasMoved(c) /\ d.res = {} /\ (Exists(Stage(c)) => d.index \subseteq dir[Stage(c)].res)
PROOF
  BY DEF Excused, Migrates, Migration, MigratedTwice

\* The tree of the overlay n goes into the stage, or out of it again.
LEMMA TreeCopies ==
    ASSUME Inv, Inv', CopyInv, NEW c \in Calls, NEW n \in Names, Migrates(c, n), Exists(n),
           Exists(Stage(c)),
           UNCHANGED <<stored, call, seen, rd, made>>,
           NEW q \in {"probing", "over"}, pc' = [pc EXCEPT ![c] = q],
           NEW tree, dir'[n] = [dir[n] EXCEPT !.res = tree],
           \A o \in Places \ {n, Stage(c)} : dir'[o] = dir[o],
           \/ /\ pc[c] = "moving" /\ tree = {} /\ dir[n].res # {}
              /\ dir'[Stage(c)] = [dir[Stage(c)] EXCEPT !.res = dir[n].res]
           \/ /\ pc[c] = "undoing" /\ tree = dir[Stage(c)].res /\ tree # {} /\ dir[n].res = {}
              /\ dir'[Stage(c)] = None
    PROVE  CopyInv'
PROOF
<1>1. /\ TypeOK /\ FreshInv(c) /\ call[c] # None /\ call[c].op = "migrate" /\ call[c].name = n
      /\ Migration(c)
  BY DEF Inv, CopyInv, Migrates, Migration
<1>2. n \in Places /\ Stage(c) \in Places /\ n # Stage(c) /\ Backup(c) # n
      /\ Backup(c) # Stage(c) /\ Backup(c) \in Places
  BY PlacesAreApart
<1>3. dir[n] \in Overlays /\ dir[Stage(c)] \in Overlays
  <2>1. dir \in [Places -> Overlays \cup {None}] /\ dir[n] # None /\ dir[Stage(c)] # None
    BY <1>1 DEF TypeOK, Exists
  <2>. QED
    BY <1>2, <2>1
<1>4. \A o \in Places \ {n, Stage(c)} : dir'[o] = dir[o]
  OBVIOUS
<1>5. /\ dir'[n].res = tree /\ dir'[n].file = dir[n].file /\ dir'[n].index = dir[n].index
  BY <1>3 DEF Overlays
<1>6. pc'[c] = q /\ \A d \in Calls \ {c} : pc'[d] = pc[d]
  BY <1>1 DEF TypeOK
<1>7. Own(c)
  <2>1. \A o \in Places : o \in Names \/ o \in {Stage(c), Backup(c), Copy(c)} \/ dir'[o] = dir[o]
    BY <1>4
  <2>. QED
    BY <1>6, <2>1, OwnStep
<1>8. pc[c] = "moving" => /\ dir'[Stage(c)].file = dir[Stage(c)].file
                          /\ dir'[Stage(c)].res = dir[n].res
                          /\ dir'[Stage(c)] # None
  <2> SUFFICES ASSUME dir'[Stage(c)] = [dir[Stage(c)] EXCEPT !.res = dir[n].res]
               PROVE  /\ dir'[Stage(c)].file = dir[Stage(c)].file
                      /\ dir'[Stage(c)].res = dir[n].res /\ dir'[Stage(c)] # None
    OBVIOUS
  <2>1. dir'[Stage(c)].file = dir[Stage(c)].file /\ dir'[Stage(c)].res = dir[n].res
    BY <1>3 DEF Overlays
  <2>2. dir'[Stage(c)] \in Overlays
    <3>1. dir[n].res \in SUBSET Payloads
      BY <1>3 DEF Overlays
    <3>. QED
      BY <1>3, <3>1 DEF Overlays
  <2>. QED
    BY <2>1, <2>2, NoneIsApart
<1>9. dir[Stage(c)].file = "content"
  BY <1>1 DEF FreshInv
<1>10. FreshInv(c)'
  <2>1. Exists(Stage(c))' => dir'[Stage(c)].file = "content"
    BY <1>8, <1>9 DEF Exists
  <2>. QED
    BY <1>1, <1>6, <2>1 DEF FreshInv, IsBare
<1>11. Follows(c)
  BY <1>7 DEF Follows, HasMoved
<1>12. \A m \in Names : m = n \/ dir'[m] = dir[m]
  BY <1>4, PlacesAreApart
<1>13. \A m \in Names : Exists(m)' => (m \in made)'
  BY <1>12 DEF CopyInv, MadeInv, Exists
<1>14. dir'[Backup(c)] = dir[Backup(c)]
  BY <1>2, <1>4
<1>15. Exists(n)'
  <2>1. NameInv(n)'
    BY DEF Inv
  <2>2. tree \in SUBSET Payloads
    BY <1>3 DEF Overlays
  <2>3. dir'[n] \in Overlays
    BY <1>3, <2>2 DEF Overlays
  <2>. QED
    BY <2>3, NoneIsApart DEF Exists
<1>16. IsBare(dir[n]) => Excused(n, dir[n])
  BY DEF CopyInv, TreeInv
<1>17. IsBare(dir[n])' => MigratedTwice(n) \/ (pc[c] = "moving" /\ ~IsBare(dir[n]))
  <2> SUFFICES ASSUME dir[n].file = "logical", ~(dir[n].index \subseteq tree), ~MigratedTwice(n)
               PROVE  pc[c] = "moving" /\ ~IsBare(dir[n])
    BY <1>5 DEF IsBare
  <2>1. CASE pc[c] = "moving"
    BY <1>16, <2>1, OneMigration DEF HasMoved
  <2>2. CASE pc[c] = "undoing"
    <3>1. IsBare(dir[n])
      BY <2>2 DEF IsBare
    <3>. QED
      BY <1>16, <2>2, <3>1, OneMigration
  <2>. QED
    BY <2>1, <2>2
<1>18. IsBare(dir[n])' => Excused(n, dir[n])'
  <2> SUFFICES ASSUME IsBare(dir[n])' PROVE Excused(n, dir[n])'
    OBVIOUS
  <2>1. CASE MigratedTwice(n)
    BY <1>11, <2>1, HeirsStay DEF Excused
  <2>2. CASE pc[c] = "moving" /\ ~IsBare(dir[n])
    <3>1. /\ Migrates(c, n)' /\ HasMoved(c)'
      BY <1>6, <2>2 DEF Migrates, Migration, HasMoved
    <3>2. dir'[n].res = {} /\ dir'[n].index \subseteq dir'[Stage(c)].res
      BY <1>5, <1>8, <2>2 DEF IsBare
    <3>. QED
      BY <3>1, <3>2 DEF Excused
  <2>. QED
    BY <1>17, <2>1, <2>2
<1>19. Safe(n)'
  <2>1. CASE pc[c] = "moving"
    <3>1. Holds(c)'
      BY <1>1, <1>6, <1>8, <2>1 DEF Holds, HasMoved, Exists
    <3>. QED
      BY <1>1, <3>1, HeirOfItselfNext DEF Safe
  <2>2. CASE pc[c] = "undoing"
    <3>1. CASE IsBare(dir[n])'
      BY <1>11, <1>17, <2>2, <3>1, HeirsStay, HeirOfItselfNext DEF Safe
    <3>2. CASE ~IsBare(dir[n])'
      BY <1>15, <3>2, HeirOfItselfNext DEF Safe, InName
    <3>. QED
      BY <3>1, <3>2
  <2>. QED
    BY <2>1, <2>2
<1>20. \A m \in Names : Holds(c) /\ call[c].name = m => Safe(m)'
  BY <1>1, <1>19
<1>21. \A m \in Names : dir'[m] = dir[m] \/ (InName(m) => Safe(m)')
  BY <1>12, <1>19
<1>22. \A m \in Names : dir'[m] = dir[m] \/
           (Exists(m)' /\ IsBare(dir[m])' => Excused(m, dir[m])')
  BY <1>12, <1>18
<1>23. /\ Exists(Backup(c))' => (call[c].name \in made)'
       /\ Exists(Backup(c))' /\ IsBare(dir[Backup(c)])' =>
            Excused(call[c].name, dir[Backup(c)])'
  BY <1>11, <1>14, BackupStays
<1>. QED
  BY <1>10, <1>11, <1>13, <1>20, <1>21, <1>22, <1>23, CopyStep

LEMMA MoveTreeCopies ==
    ASSUME Inv, Inv', CopyInv, NEW c \in Calls, MoveTree(c) PROVE CopyInv'
PROOF
<1>1. /\ TypeOK /\ FreshInv(c) /\ PhaseInv(c) /\ pc[c] = "moving"
      /\ UNCHANGED <<stored, call, seen, rd, made>>
  BY DEF Inv, CopyInv, MoveTree
<1>2. /\ call[c] # None /\ call[c] \in Requests /\ call[c].name \in Names
      /\ call[c].op = "migrate" /\ Exists(Stage(c))
  BY <1>1 DEF PhaseInv, TypeOK, Requests
<1>3. CASE dir' = dir /\ \E q \in {"probing", "undoing"} : pc' = [pc EXCEPT ![c] = q]
  BY <1>1, <1>3, DiskStays
<1> DEFINE n == call[c].name
<1>4. CASE /\ Exists(n) /\ dir[n].res # {}
           /\ dir' = [dir EXCEPT ![n].res = {}, ![Stage(c)].res = dir[n].res]
           /\ pc' = [pc EXCEPT ![c] = "probing"]
  <2>1. n \in Places /\ Stage(c) \in Places /\ n # Stage(c)
    BY <1>2, PlacesAreApart
  <2>2. ASSUME NEW m \in Names, m = n, NEW tree, tree = {} PROVE CopyInv'
    <3>1. /\ Migrates(c, m) /\ Exists(m) /\ Exists(Stage(c))
          /\ pc[c] = "moving" /\ tree = {} /\ dir[m].res # {}
      BY <1>1, <1>2, <1>4, <2>2 DEF Migrates, Migration
    <3>2. dir'[Stage(c)] = [dir[Stage(c)] EXCEPT !.res = dir[m].res]
      BY <1>1, <1>4, <2>1, <2>2 DEF TypeOK
    <3>3. dir'[m] = [dir[m] EXCEPT !.res = tree]
      BY <1>1, <1>4, <2>1, <2>2 DEF TypeOK
    <3>4. \A o \in Places \ {m, Stage(c)} : dir'[o] = dir[o]
      BY <1>1, <1>4, <2>1, <2>2 DEF TypeOK
    <3>5. pc' = [pc EXCEPT ![c] = "probing"] /\ UNCHANGED <<stored, call, seen, rd, made>>
      BY <1>1, <1>4
    <3>. QED
      BY <3>1, <3>2, <3>3, <3>4, <3>5, TreeCopies
  <2>. QED
    BY <1>2, <2>2
<1>. QED
  BY <1>3, <1>4 DEF MoveTree, Goto

\* The tree goes back, stays in the stage, or was never in it.
LEMMA UndoMigrateCopies ==
    ASSUME Inv, Inv', CopyInv, NEW c \in Calls, UndoMigrate(c) PROVE CopyInv'
PROOF
<1>1. /\ TypeOK /\ FreshInv(c) /\ PhaseInv(c) /\ pc[c] = "undoing" /\ call[c].op = "migrate"
      /\ UNCHANGED <<stored, call, seen, rd>> /\ made' = made /\ pc' = [pc EXCEPT ![c] = "over"]
  BY DEF Inv, CopyInv, UndoMigrate, GivesUp, Goto
<1>2. /\ call[c] # None /\ call[c] \in Requests /\ call[c].name \in Names
      /\ Exists(Stage(c))
  BY <1>1 DEF PhaseInv, TypeOK, Requests
<1> DEFINE n == call[c].name
           tree == dir[Stage(c)].res
<1>3. Migrates(c, n)
  BY <1>1, <1>2 DEF Migrates, Migration
<1>4. n \in Places /\ Stage(c) \in Places /\ n # Stage(c)
  BY <1>2, PlacesAreApart
<1>5. CASE dir' = dir
  BY <1>1, <1>5, DiskStays
<1>6. CASE /\ tree # {} /\ Exists(n) /\ dir[n].res = {}
           /\ dir' = [dir EXCEPT ![n].res = tree, ![Stage(c)] = None]
  <2>1. dir'[Stage(c)] = None
    BY <1>1, <1>4, <1>6 DEF TypeOK
  <2>2. /\ dir'[n] = [dir[n] EXCEPT !.res = tree]
        /\ \A o \in Places \ {n, Stage(c)} : dir'[o] = dir[o]
    BY <1>1, <1>4, <1>6 DEF TypeOK
  <2>3. /\ UNCHANGED <<stored, call, seen, rd, made>> /\ pc' = [pc EXCEPT ![c] = "over"]
        /\ pc[c] = "undoing" /\ n \in Names /\ Exists(n) /\ Exists(Stage(c))
        /\ tree # {} /\ dir[n].res = {}
    BY <1>1, <1>2, <1>6
  <2> HIDE DEF n
  <2>. QED
    BY <1>3, <2>1, <2>2, <2>3, TreeCopies
<1>7. CASE /\ tree = {} \/ (Exists(n) /\ dir[n].res # {})
           /\ dir' = [dir EXCEPT ![Stage(c)] = None]
  <2>1. /\ dir'[Stage(c)] = None /\ \A o \in Places : o # Stage(c) => dir'[o] = dir[o]
    BY <1>1, <1>4, <1>7 DEF TypeOK
  <2>2. pc'[c] = "over" /\ \A d \in Calls \ {c} : pc'[d] = pc[d]
    BY <1>1 DEF TypeOK
  <2>3. Own(c)
    <3>1. \A o \in Places :
            o \in Names \/ o \in {Stage(c), Backup(c), Copy(c)} \/ dir'[o] = dir[o]
      BY <2>1
    <3>. QED
      BY <1>1, <2>2, <3>1, OwnStep
  <2>4. Follows(c)
    BY <1>1, <2>1, <2>2, <2>3 DEF Follows
  <2>5. FreshInv(c)'
    BY <1>1, <2>1, <2>2 DEF FreshInv, Exists, Migration
  <2>6. dir'[Backup(c)] = dir[Backup(c)] /\ \A m \in Names : dir'[m] = dir[m]
    BY <2>1, PlacesAreApart
  <2>7. \A m \in Names : Exists(m)' => (m \in made)'
    BY <1>1, <2>6 DEF CopyInv, MadeInv, Exists
  <2>8. ASSUME NEW m \in Names, Holds(c), call[c].name = m PROVE Safe(m)'
    <3>1. CASE tree = {}
      <4>1. Holds(c)'
        BY <1>1, <2>2, <2>6, <2>8, <3>1 DEF Holds, Exists
      <4>. QED
        BY <1>1, <2>8, <4>1, HeirOfItselfNext DEF Safe
    <3>2. CASE Exists(n) /\ dir[n].res # {}
      <4>1. IsBare(dir[m]) => MigratedTwice(m)
        BY <1>3, <2>8, <3>2, OneMigration DEF CopyInv, TreeInv
      <4>2. CASE MigratedTwice(m)
        BY <2>4, <4>2, HeirsStay, HeirOfItselfNext DEF Safe
      <4>3. CASE ~IsBare(dir[m])
        BY <2>6, <2>8, <3>2, <4>3, HeirOfItselfNext DEF Safe, InName, Exists
      <4>. QED
        BY <4>1, <4>2, <4>3
    <3>. QED
      BY <1>7, <3>1, <3>2
  <2>9. /\ Exists(Backup(c))' => (call[c].name \in made)'
        /\ Exists(Backup(c))' /\ IsBare(dir[Backup(c)])' =>
             Excused(call[c].name, dir[Backup(c)])'
    BY <1>1, <2>4, <2>6, BackupStays
  <2>. QED
    BY <1>1, <2>4, <2>5, <2>6, <2>7, <2>8, <2>9, CopyStep
<1>. QED
  BY <1>5, <1>6, <1>7 DEF UndoMigrate, GivesUp

-------------------------------------------------------------------------------
(* Every step keeps a copy *)

LEMMA InitCopies == ASSUME Init PROVE CopyInv
PROOF
<1>1. PICK n \in Names, o \in {None} \cup {Overlay(m, l, s, 1) : m \in Names, l \in Layouts,
                                            s \in Sets} :
        dir = [p \in Places |-> IF p = n THEN o ELSE None]
  BY DEF Init
<1>2. ASSUME NEW c \in Calls
      PROVE  ~Exists(Stage(c)) /\ ~Exists(Backup(c)) /\ ~Exists(Copy(c))
  BY <1>1, PlacesAreApart DEF Exists
<1>3. /\ pc = [c \in Calls |-> "idle"] /\ call = [c \in Calls |-> None]
      /\ made = {m \in Names : Exists(m)}
  BY DEF Init
<1>4. ASSUME NEW m \in Names, Exists(m) PROVE ~IsBare(dir[m])
  <2>1. dir[m] = o /\ o # None
    BY <1>1, <1>4, PlacesAreApart DEF Exists
  <2>2. PICK k \in Names, l \in Layouts, s \in Sets : o = Overlay(k, l, s, 1)
    BY <2>1
  <2>. QED
    BY <2>1, <2>2, NewIsWhole
<1>5. \A c \in Calls : FreshInv(c)
  BY <1>2, <1>3 DEF FreshInv
<1>6. MadeInv /\ TreeInv
  BY <1>2, <1>3, <1>4 DEF MadeInv, TreeInv
<1>7. \A m \in made : Safe(m)
  BY <1>3, <1>4, HeirOfItself DEF Safe, InName
<1>. QED
  BY <1>5, <1>6, <1>7 DEF CopyInv

LEMMA StepCopies == ASSUME Inv, Inv', CopyInv, [Next]_vars PROVE CopyInv'
PROOF
<1>1. ASSUME NEW c \in Calls, Begin(c) \/ Crash(c) PROVE CopyInv'
  BY <1>1, BeginCopies, ReadingCopies
<1>2. ASSUME NEW c \in Calls, Importing(c) PROVE CopyInv'
  BY <1>2, ReadingCopies, StoreImportedCopies, PublishImportCopies DEF Importing
<1>3. ASSUME NEW c \in Calls, Revising(c) PROVE CopyInv'
  BY <1>3, LookCopies, ReadingCopies, CompareCopies, UndoReviseCopies DEF Revising
<1>4. ASSUME NEW c \in Calls, Replacing(c) PROVE CopyInv'
  BY <1>4, NamingCopies, UndoReplaceCopies, PutBackCopies DEF Replacing
<1>5. ASSUME NEW c \in Calls, Migrating(c) PROVE CopyInv'
  BY <1>5, ReadingCopies, StoreMigratedCopies, MoveTreeCopies, UndoMigrateCopies DEF Migrating
<1>6. ASSUME NEW c \in Calls, Swapping(c) PROVE CopyInv'
  BY <1>6, ReadingCopies, RetireCopies, PlaceCopies, PutBackCopies, DropCopies DEF Swapping
<1>7. ASSUME UNCHANGED <<dir, pc, call, made>> PROVE CopyInv'
  <2>1. \A c \in Calls : FreshInv(c)'
    BY <1>7 DEF CopyInv, FreshInv, Exists, IsBare, Migration
  <2>2. MadeInv'
    BY <1>7 DEF CopyInv, MadeInv, Exists
  <2>3. TreeInv'
    BY <1>7 DEF CopyInv, TreeInv, Exists, IsBare, Excused, MigratedTwice, Migrates, Migration,
                HasMoved
  <2>4. \A n \in made' : Safe(n)'
    BY <1>7 DEF CopyInv, Safe, Heirs, Closed, MigratedTwice, InName, Holds, HasMoved, Exists, IsBare
  <2>. QED
    BY <2>1, <2>2, <2>3, <2>4 DEF CopyInv
<1>8. ASSUME NEW r \in Readers, List(r) \/ OpenManifest(r) \/ OpenIndex(r) PROVE CopyInv'
  <2>1. UNCHANGED <<dir, pc, call, made>>
    BY <1>8 DEF List, OpenManifest, OpenIndex, Fail, Reads, calls
  <2>. QED
    BY <1>7, <2>1
<1>9. ASSUME UNCHANGED vars PROVE CopyInv'
  BY <1>7, <1>9 DEF vars, calls
<1>. QED
  BY <1>1, <1>2, <1>3, <1>4, <1>5, <1>6, <1>8, <1>9 DEF Next

\* A directory that is not bare and agrees with itself is complete.
LEMMA NotBareIsWhole ==
    ASSUME NEW p \in Places, Exists(p), NEW name, Good(dir[p], name), Kept(dir[p]),
           ~IsBare(dir[p])
    PROVE  Whole(p) /\ dir[p].manifest.name = name
PROOF
<1>1. dir[p].manifest # Torn /\ dir[p].index # Torn
  BY TornIsApart DEF Good
<1>2. dir[p].manifest.layout \in Layouts
  BY DEF Good, Manifests
<1>. QED
  BY <1>1, <1>2 DEF Whole, Good, Kept, IsBare, Layouts

\* What was ever published has a complete copy on disk for ever, for any number of
\* calls, names and payloads and wherever they fail or end.
THEOREM CopiesStay == Spec => []NeverWithoutCopy
PROOF
<1>1. Init => Inv /\ CopyInv
  BY InitInv, InitCopies
<1>2. (Inv /\ CopyInv) /\ [Next]_vars => (Inv /\ CopyInv)'
  BY StepInv, StepCopies
<1>3. Inv /\ CopyInv => NeverWithoutCopy
  <2> SUFFICES ASSUME Inv, CopyInv, NEW n \in made, ~(\E m \in Heirs(n) : MigratedTwice(m))
               PROVE  \E p \in Places : Whole(p) /\ dir[p].manifest.name \in Heirs(n)
    BY DEF NeverWithoutCopy
  <2>1. Safe(n)
    BY DEF CopyInv
  <2>2. ASSUME NEW m \in Heirs(n), InName(m)
        PROVE  \E p \in Places : Whole(p) /\ dir[p].manifest.name \in Heirs(n)
    <3>1. m \in Names /\ m \in Places
      BY PlacesAreApart DEF Heirs
    <3>2. Good(dir[m], m) /\ Kept(dir[m])
      BY <2>2, <3>1 DEF Inv, NameInv, InName
    <3>. QED
      BY <2>2, <3>1, <3>2, NotBareIsWhole DEF InName
  <2>3. ASSUME NEW c \in Calls, Holds(c), call[c].name \in Heirs(n)
        PROVE  \E p \in Places : Whole(p) /\ dir[p].manifest.name \in Heirs(n)
    <3>1. Stage(c) \in Places /\ Backup(c) \in Places /\ HeldInv(c) /\ FreshInv(c)
      BY PlacesAreApart DEF Inv, CopyInv
    <3>2. CASE Exists(Backup(c)) /\ ~IsBare(dir[Backup(c)])
      BY <2>3, <3>1, <3>2, NotBareIsWhole DEF HeldInv
    <3>3. CASE call[c].op = "migrate" /\ Exists(Stage(c))
      <4>1. Good(dir[Stage(c)], call[c].to) /\ Kept(dir[Stage(c)]) /\ ~IsBare(dir[Stage(c)])
        BY <3>1, <3>3 DEF HeldInv, FreshInv, StageName, Destination
      <4>2. call[c].to \in Heirs(n)
        <5>1. call[c] # None /\ call[c].to \in Names
          BY <2>3 DEF Holds, Inv, TypeOK, Requests
        <5>. QED
          BY <2>3, <3>3, <5>1 DEF Heirs, Closed
      <4>. QED
        BY <3>1, <3>3, <4>1, <4>2, NotBareIsWhole
    <3>. QED
      BY <2>3, <3>2, <3>3 DEF Holds
  <2>. QED
    BY <2>1, <2>2, <2>3 DEF Safe
<1>. QED
  BY <1>1, <1>2, <1>3, PTL DEF Spec


-------------------------------------------------------------------------------
(* A store at rest *)

\* A backup that its call will put back, or drop once something is in place, or that
\* one left which ended half way.
Lent(c) ==
    /\ call[c] # None /\ Exists(Backup(c))
    /\ c \in halted \/ (pc[c] \in {"placing", "restoring"} /\ had[c])

InPlace(n) ==
    \/ \E m \in Heirs(n) : Exists(m)
    \/ \E c \in Calls : Lent(c) /\ call[c].name \in Heirs(n)

\* Only Replace has a visible copy, until it has renamed or removed it, or has ended
\* half way.
CopyOwned(c) ==
    Exists(Copy(c)) =>
        /\ \/ pc[c] \in {"naming", "naming manifest", "named", "retiring", "placing", "restoring",
                         "undoing"}
           \/ c \in halted
        /\ call[c].op = "replace"

\* An overlay in place lacks its tree only while a migration has it, or after one that
\* ended half way, or beside one.
Borrows(c) == pc[c] \in {"probing", "retiring", "undoing"} \/ c \in halted

Awaited(n) ==
    \/ MigratedBeside(n)
    \/ \E c \in Calls : Migrates(c, n) /\ Borrows(c)

\* A call that could not undo what it did may still have some of its catch to do.
Halts(c) == c \in halted => pc[c] \in {"undoing", "recovering", "over"}

QuietInv ==
    /\ \A n \in made : InPlace(n)
    /\ \A c \in Calls : Halts(c)
    /\ \A c \in Calls : CopyOwned(c)
    /\ \A n \in Names : Exists(n) /\ IsBare(dir[n]) => Awaited(n)

\* What a step of c leaves: the names calls were made for among it.
Leaves(c) ==
    /\ Own(c) /\ made \subseteq made'
    /\ halted \subseteq halted' /\ halted' \subseteq halted \cup {c}
    /\ \A d \in Calls \ {c} : had'[d] = had[d]
    /\ \A d \in Calls : Migration(d) => call'[d] = call[d]
    /\ \A d \in Calls : call[d] # None => call'[d] # None /\ call'[d].name = call[d].name

LEMMA LeavesHeirs ==
    ASSUME NEW c \in Calls, Leaves(c), NEW n \in Names
    PROVE  /\ \A m \in Heirs(n) : (m \in Heirs(n))'
           /\ MigratedBeside(n) => MigratedBeside(n)'
PROOF
<1>1. \A d \in Calls : call[d] # None /\ call[d].op = "migrate" => call'[d] = call[d]
  BY DEF Leaves, Migration
<1>2. \A m \in Heirs(n) : (m \in Heirs(n))'
  <2>1. \A S \in SUBSET Names : Closed(S)' => Closed(S)
    BY <1>1 DEF Closed
  <2>. QED
    BY <2>1 DEF Heirs
<1>3. MigratedBeside(n) => MigratedBeside(n)'
  BY <1>1 DEF MigratedBeside, Leaves
<1>. QED
  BY <1>2, <1>3

LEMMA InPlaceChain ==
    ASSUME NEW n \in Names, NEW m \in Names, (m \in Heirs(n))', InPlace(m)'
    PROVE  InPlace(n)'
PROOF
<1>1. \A k \in Names : (k \in Heirs(m))' => (k \in Heirs(n))'
  BY DEF Heirs
<1>2. \A k : (k \in Heirs(m))' => k \in Names
  BY DEF Heirs
<1>. QED
  BY <1>1, <1>2 DEF InPlace

\* What a step of c must show.
LEMMA QuietStep ==
    ASSUME Inv, Inv', QuietInv, NEW c \in Calls, Leaves(c),
           \A n \in Names : dir'[n] = dir[n] \/ (Exists(n) => InPlace(n)'),
           \A n \in Names : Lent(c) /\ call[c].name = n => InPlace(n)',
           \A n \in made' : n \in made \/ InPlace(n)',
           CopyOwned(c)', Halts(c)',
           \A n \in Names : dir'[n] = dir[n] \/
               (Exists(n)' /\ IsBare(dir[n])' => Awaited(n)'),
           \A n \in Names : Migrates(c, n) /\ pc[c] \in {"probing", "retiring", "undoing"} =>
               (Exists(n)' /\ IsBare(dir[n])' => Awaited(n)')
    PROVE  QuietInv'
PROOF
<1>1. ASSUME NEW e \in Calls \ {c}
      PROVE  /\ pc'[e] = pc[e] /\ call'[e] = call[e] /\ had'[e] = had[e]
             /\ dir'[Backup(e)] = dir[Backup(e)] /\ dir'[Copy(e)] = dir[Copy(e)]
             /\ e \in halted' <=> e \in halted
  BY DEF Leaves, Own
<1>2. ASSUME NEW n \in made' PROVE InPlace(n)'
  <2> SUFFICES ASSUME n \in made PROVE InPlace(n)'
    OBVIOUS
  <2>1. n \in Names /\ InPlace(n)
    BY DEF Inv, TypeOK, QuietInv
  <2>2. ASSUME NEW m \in Heirs(n), Exists(m) PROVE InPlace(n)'
    <3>1. m \in Names /\ (m \in Heirs(n))'
      BY <2>1, LeavesHeirs DEF Heirs
    <3>2. CASE dir'[m] = dir[m]
      BY <2>2, <3>1, <3>2 DEF InPlace, Exists
    <3>3. CASE InPlace(m)'
      BY <2>1, <3>1, <3>3, InPlaceChain
    <3>. QED
      BY <2>2, <3>1, <3>2, <3>3
  <2>3. ASSUME NEW e \in Calls, Lent(e), call[e].name \in Heirs(n) PROVE InPlace(n)'
    <3>1. ASSUME NEW m \in Names, m = call[e].name PROVE InPlace(n)'
      <4>1. (m \in Heirs(n))'
        BY <2>1, <2>3, <3>1, LeavesHeirs
      <4>2. CASE e = c
        BY <2>1, <2>3, <3>1, <4>1, <4>2, InPlaceChain
      <4>3. CASE e # c
        <5>1. Lent(e)' /\ (call[e].name)' = m
          BY <1>1, <2>3, <3>1, <4>3 DEF Lent, Exists
        <5>. QED
          BY <4>1, <5>1 DEF InPlace
      <4>. QED
        BY <4>2, <4>3
    <3>. QED
      BY <2>3, <3>1 DEF Heirs
  <2>. QED
    BY <2>1, <2>2, <2>3 DEF InPlace
<1>3. \A e \in Calls : CopyOwned(e)'
  <2> SUFFICES ASSUME NEW e \in Calls \ {c} PROVE CopyOwned(e)'
    OBVIOUS
  <2>1. CopyOwned(e)
    BY DEF QuietInv
  <2>. QED
    BY <1>1, <2>1 DEF CopyOwned, Exists
<1>4. ASSUME NEW n \in Names, Exists(n)', IsBare(dir[n])' PROVE Awaited(n)'
  <2> SUFFICES ASSUME dir'[n] = dir[n] PROVE Awaited(n)'
    BY <1>4
  <2>1. Awaited(n)
    BY <1>4 DEF QuietInv, Exists
  <2>2. CASE MigratedBeside(n)
    BY <2>2, LeavesHeirs DEF Awaited
  <2>3. ASSUME NEW e \in Calls, Migrates(e, n), Borrows(e) PROVE Awaited(n)'
    <3>1. CASE e = c /\ pc[e] \in {"probing", "retiring", "undoing"}
      BY <1>4, <2>3, <3>1
    <3>2. CASE e # c \/ e \in halted
      <4>1. Migrates(e, n)'
        BY <2>3 DEF Leaves, Migrates, Migration
      <4>2. Borrows(e)'
        BY <1>1, <2>3, <3>2 DEF Leaves, Borrows
      <4>. QED
        BY <4>1, <4>2 DEF Awaited
    <3>. QED
      BY <2>3, <3>1, <3>2 DEF Borrows
  <2>. QED
    BY <2>1, <2>2, <2>3 DEF Awaited
<1>5. \A e \in Calls : Halts(e)'
  BY <1>1 DEF QuietInv, Halts
<1>. QED
  BY <1>2, <1>3, <1>4, <1>5 DEF QuietInv

\* A step of c is its own, and leaves the requests.
LEMMA EachLeaves ==
    ASSUME Inv, CopyInv, NEW c \in Calls,
           \/ Begin(c) \/ Importing(c) \/ Revising(c) \/ Replacing(c) \/ Migrating(c)
           \/ Swapping(c) \/ Crash(c)
    PROVE  Leaves(c)
PROOF
<1>1. TypeOK /\ PhaseInv(c) /\ FreshInv(c)
  BY DEF Inv, CopyInv
<1>2. ASSUME call' = call, halted \subseteq halted', halted' \subseteq halted \cup {c}, made \subseteq made', stored \subseteq stored', rd' = rd,
             \A d \in Calls \ {c} : pc'[d] = pc[d] /\ seen'[d] = seen[d] /\ had'[d] = had[d],
             \A p \in Places :
               p \in Names \/ p \in {Stage(c), Backup(c), Copy(c)} \/ dir'[p] = dir[p]
      PROVE  Leaves(c)
  <2>1. Own(c)
    BY <1>2, OwnStep
  <2>. QED
    BY <1>2, <2>1 DEF Leaves
<1>3. CASE Begin(c)
  <2>1. call[c] = None
    BY <1>1, <1>3 DEF FreshInv, Begin
  <2>2. \A d \in Calls \ {c} : call'[d] = call[d] /\ pc'[d] = pc[d]
    BY <1>1, <1>3 DEF Begin, Goto, TypeOK
  <2>3. Own(c)
    BY <1>3, <2>2, OwnStep DEF Begin
  <2>. QED
    BY <1>3, <2>1, <2>2, <2>3 DEF Leaves, Begin, Migration
<1>4. CASE Look(c)
  <2>1. call[c].op \in {"revise", "replace"} /\ call[c] \in Requests
    BY <1>1, <1>4 DEF PhaseInv, Look, TypeOK
  <2>2. \A d \in Calls \ {c} : call'[d] = call[d] /\ pc'[d] = pc[d]
    BY <1>1, <1>4 DEF Look, Goto, TypeOK
  <2>3. call'[c] # None /\ call'[c].name = call[c].name
    <3>1. /\ [call[c] EXCEPT !.op = "import"] \in Requests
          /\ [call[c] EXCEPT !.op = "import"].name = call[c].name
      BY <2>1 DEF Requests
    <3>2. call' = call \/ call' = [call EXCEPT ![c].op = "import"]
      BY <1>4 DEF Look
    <3>3. call'[c] \in Requests /\ call'[c].name = call[c].name
      BY <1>1, <2>1, <3>1, <3>2 DEF TypeOK
    <3>. QED
      BY <3>3, NoneIsApart
  <2>4. Own(c)
    BY <1>4, <2>2, OwnStep DEF Look
  <2>. QED
    BY <1>4, <2>1, <2>2, <2>3, <2>4 DEF Leaves, Look, Migration
<1>5. CASE Check(c) \/ ReadManifest(c) \/ ReadIndex(c) \/ StoreRevised(c) \/ Probe(c)
  BY <1>1, <1>2, <1>5 DEF Check, Moves, ReadManifest, ReadIndex, StoreRevised, Probe, Goto, TypeOK
<1>6. CASE StoreImported(c) \/ Compare(c) \/ StoreMigrated(c)
  BY <1>1, <1>2, <1>6 DEF StoreImported, Compare, StoreMigrated, Goto, TypeOK
<1>7. CASE NameIndex(c) \/ NameManifest(c) \/ Named(c)
  BY <1>1, <1>2, <1>7 DEF NameIndex, NameManifest, Named, NameFails, Goto, TypeOK
<1>8. CASE UndoRevise(c) \/ UndoReplace(c) \/ Drop(c) \/ Crash(c)
  BY <1>1, <1>2, <1>8
     DEF UndoRevise, UndoReplace, Drop, Crash, GivesUp, Goto, Remove, TypeOK
<1>9. pc[c] # "idle" =>
        call[c] # None /\ call[c] \in Requests /\ call[c].name \in Names /\ call[c].to \in Names
  BY <1>1 DEF PhaseInv, TypeOK, Requests
<1>10. CASE PublishImport(c)
  <2>1. ImportPlace(c) \in Names \cup {Copy(c)}
    BY <1>9, <1>10 DEF ImportPlace, PublishImport
  <2>2. ASSUME NEW p \in Places, p \notin Names, p \notin {Stage(c), Backup(c), Copy(c)}
        PROVE  dir'[p] = dir[p]
    BY <1>1, <1>10, <2>1, <2>2 DEF PublishImport, Rename, Remove, TypeOK
  <2>. QED
    BY <1>1, <1>2, <1>10, <2>2 DEF PublishImport, Rename, Remove, Goto, TypeOK
<1>11. CASE Retire(c) \/ Restore(c) \/ Recover(c)
  <2>1. ASSUME NEW p \in Places, p \notin Names, p \notin {Stage(c), Backup(c), Copy(c)}
        PROVE  dir'[p] = dir[p]
    BY <1>1, <1>9, <1>11, <2>1 DEF Retire, Restore, Recover, PutBack, GivesUp, Rename, TypeOK
  <2>. QED
    BY <1>1, <1>2, <1>11, <2>1 DEF Retire, Restore, Recover, PutBack, GivesUp, Rename, Goto, TypeOK
<1>12. CASE Place(c)
  <2>1. Destination(c) \in Names /\ Source(c) \in {Stage(c), Copy(c)}
    BY <1>9, <1>12 DEF Destination, Source, Place
  <2>2. ASSUME NEW p \in Places, p \notin Names, p \notin {Stage(c), Backup(c), Copy(c)}
        PROVE  dir'[p] = dir[p]
    BY <1>1, <1>12, <2>1, <2>2 DEF Place, Rename, TypeOK
  <2>. QED
    BY <1>1, <1>2, <1>12, <2>2 DEF Place, Rename, Goto, TypeOK
<1>13. CASE MoveTree(c) \/ UndoMigrate(c)
  <2>1. call[c].name \in Names
    BY <1>9, <1>13 DEF MoveTree, UndoMigrate
  <2>2. ASSUME NEW p \in Places, p \notin Names, p \notin {Stage(c), Backup(c), Copy(c)}
        PROVE  dir'[p] = dir[p]
    BY <1>1, <1>13, <2>1, <2>2 DEF MoveTree, UndoMigrate, GivesUp, TypeOK
  <2>. QED
    BY <1>1, <1>2, <1>13, <2>2 DEF MoveTree, UndoMigrate, GivesUp, Goto, TypeOK
<1>. QED
  BY <1>3, <1>4, <1>5, <1>6, <1>7, <1>8, <1>10, <1>11, <1>12, <1>13
     DEF Importing, Revising, Replacing, Migrating, Swapping

\* A step that leaves what is in place.
LEMMA QuietHidden ==
    ASSUME Inv, Inv', CopyInv, QuietInv, NEW c \in Calls, Leaves(c), made' = made,
           \A n \in Names : dir'[n] = dir[n],
           CopyOwned(c)', Halts(c)',
           \A n \in Names : Lent(c) /\ call[c].name = n => Lent(c)' \/ Exists(n),
           \A n \in Names : Migrates(c, n) /\ pc[c] \in {"probing", "retiring", "undoing"}
                              /\ Exists(n) /\ IsBare(dir[n]) =>
               Borrows(c)' \/ Awaited(n)'
    PROVE  QuietInv'
PROOF
<1>1. ASSUME NEW n \in Names, Lent(c), call[c].name = n PROVE InPlace(n)'
  <2>1. (call[c].name)' = n
    BY <1>1 DEF Lent, Leaves
  <2>2. CASE Lent(c)'
    BY <2>1, <2>2, HeirOfItselfNext DEF InPlace
  <2>3. CASE Exists(n)
    BY <2>3, HeirOfItselfNext DEF InPlace, Exists
  <2>. QED
    BY <1>1, <2>2, <2>3
<1>2. ASSUME NEW n \in Names, Migrates(c, n), pc[c] \in {"probing", "retiring", "undoing"},
             Exists(n)', IsBare(dir[n])'
      PROVE  Awaited(n)'
  <2>1. Migrates(c, n)'
    BY <1>2 DEF Migrates, Migration, Leaves
  <2>2. Exists(n) /\ IsBare(dir[n])
    BY <1>2 DEF Exists
  <2>. QED
    BY <1>2, <2>1, <2>2 DEF Awaited
<1>. QED
  BY <1>1, <1>2, QuietStep

\* Long before and after what is in place is touched.
LEMMA QuietElsewhere ==
    ASSUME Inv, Inv', CopyInv, QuietInv, NEW c \in Calls, Leaves(c), made' = made,
           pc[c] \notin {"probing", "retiring", "placing", "restoring", "undoing", "recovering",
                         "over"},
           halted' = halted,
           \A n \in Names : dir'[n] = dir[n],
           CopyOwned(c)'
    PROVE  QuietInv'
PROOF
<1>1. c \notin halted
  BY DEF QuietInv, Halts
<1>2. ~Lent(c) /\ Halts(c)'
  BY <1>1 DEF Lent, Halts
<1>. QED
  BY <1>2, QuietHidden

\* A call without a copy that makes none.
LEMMA NoCopy ==
    ASSUME QuietInv, NEW c \in Calls, dir'[Copy(c)] = dir[Copy(c)] \/ dir'[Copy(c)] = None,
           pc[c] \notin {"naming", "naming manifest", "named", "retiring", "placing", "restoring",
                         "undoing", "recovering", "over"}
    PROVE  CopyOwned(c)'
PROOF
  BY DEF QuietInv, CopyOwned, Halts, Exists

LEMMA StartingQuiet ==
    ASSUME Inv, Inv', CopyInv, QuietInv, NEW c \in Calls, Leaves(c),
           \/ Begin(c) \/ Look(c) \/ Check(c) \/ ReadManifest(c) \/ ReadIndex(c)
           \/ StoreRevised(c) \/ StoreImported(c) \/ Compare(c) \/ StoreMigrated(c) \/ Drop(c)
    PROVE  QuietInv'
PROOF
<1>1. /\ made' = made /\ halted' = halted
      /\ pc[c] \notin {"naming", "naming manifest", "named", "retiring", "placing", "restoring",
                       "undoing", "probing", "recovering", "over"}
  BY DEF Begin, Look, Check, Moves, ReadManifest, ReadIndex, StoreRevised, StoreImported, Compare,
         StoreMigrated, Drop, Remove
<1>2. \A p \in Places : p \in {Stage(c), Backup(c)} \/ dir'[p] = dir[p]
  BY DEF Begin, Look, Check, Moves, ReadManifest, ReadIndex, StoreRevised, StoreImported, Compare,
         StoreMigrated, Drop, Remove, Inv, TypeOK
<1>3. dir'[Copy(c)] = dir[Copy(c)] /\ \A n \in Names : dir'[n] = dir[n]
  BY <1>2, PlacesAreApart
<1>4. CopyOwned(c)'
  BY <1>1, <1>3, NoCopy
<1>. QED
  BY <1>1, <1>3, <1>4, QuietElsewhere

LEMMA NamingQuiet ==
    ASSUME Inv, Inv', CopyInv, QuietInv, NEW c \in Calls, Leaves(c),
           NameIndex(c) \/ NameManifest(c) \/ Named(c)
    PROVE  QuietInv'
PROOF
<1>1. /\ made' = made /\ halted' = halted /\ call' = call /\ call[c].op = "replace"
      /\ pc[c] \in {"naming", "naming manifest", "named"}
      /\ pc'[c] \in {"naming manifest", "named", "retiring", "undoing"}
  BY DEF NameIndex, NameManifest, Named, NameFails, Goto, Inv, TypeOK, PhaseInv
<1>2. \A p \in Places : p = Copy(c) \/ dir'[p] = dir[p]
  BY DEF NameIndex, NameManifest, Named, NameFails, Inv, TypeOK
<1>3. \A n \in Names : dir'[n] = dir[n]
  BY <1>2, PlacesAreApart
<1>4. CopyOwned(c)'
  BY <1>1 DEF CopyOwned
<1>. QED
  BY <1>1, <1>3, <1>4, QuietElsewhere

\* A step of the swap that changes no directory, or gives up what was staged.
LEMMA SwappingQuiet ==
    ASSUME Inv, Inv', CopyInv, QuietInv, NEW c \in Calls, Leaves(c),
           call' = call, made' = made, NEW q, pc' = [pc EXCEPT ![c] = q],
           \A n \in Names : dir'[n] = dir[n],
           dir'[Copy(c)] = dir[Copy(c)] \/ dir'[Copy(c)] = None,
           dir'[Backup(c)] = dir[Backup(c)],
           \/ pc[c] = "probing" /\ q = (IF Exists(call[c].name) THEN "retiring" ELSE "placing")
           \/ pc[c] = "retiring" /\ q = "undoing"
           \/ pc[c] = "placing" /\ q = (IF had[c] THEN "restoring" ELSE "undoing") /\ had' = had
           \/ /\ pc[c] = "restoring" /\ q = "undoing"
              /\ ~CanRename(Backup(c), call[c].name) \/ c \in halted'
           \/ /\ pc[c] = "undoing"
              /\ (~Migration(c) /\ dir'[Copy(c)] = None) \/ c \in halted'
           \/ pc[c] = "recovering" /\ q = "over",
           c \in halted' => q \in {"undoing", "recovering", "over"}
    PROVE  QuietInv'
PROOF
<1>1. pc'[c] = q /\ CopyOwned(c) /\ Halts(c) /\ PhaseInv(c) /\ call[c] # None
      /\ (c \in halted => c \in halted')
  BY DEF Inv, TypeOK, QuietInv, PhaseInv, Leaves
<1>2. CopyOwned(c)' /\ Halts(c)'
  BY <1>1 DEF CopyOwned, Halts, Exists
<1>3. ASSUME NEW n \in Names, Lent(c), call[c].name = n PROVE Lent(c)' \/ Exists(n)
  BY <1>1, <1>3 DEF Lent, CanRename, Exists
<1>4. ASSUME NEW n \in Names, Migrates(c, n), pc[c] \in {"probing", "retiring", "undoing"},
             Exists(n)
      PROVE  Borrows(c)'
  BY <1>1, <1>4 DEF Migrates, Borrows
<1>. QED
  BY <1>2, <1>3, <1>4, QuietHidden

\* A directory of c takes the place of none.
LEMMA PlacingQuiet ==
    ASSUME Inv, Inv', CopyInv, QuietInv, NEW c \in Calls, Leaves(c),
           NEW p \in {Stage(c), Backup(c), Copy(c)},
           NEW n \in Names, CanRename(p, n), Rename(p, n), call' = call, CopyOwned(c)',
           NEW q \in {"over", "dropping", "undoing"}, pc' = [pc EXCEPT ![c] = q],
           c \in halted' => q # "dropping",
           pc[c] \in {"publishing", "placing", "restoring", "recovering"},
           \/ ~IsBare(dir[p]) /\ (n = call[c].name \/ (Migration(c) /\ n = call[c].to))
           \/ p = Backup(c) /\ n = call[c].name /\ (q = "undoing" \/ ~Migration(c))
    PROVE  QuietInv'
PROOF
<1>1. TypeOK /\ PhaseInv(c) /\ pc'[c] = q
  BY DEF Inv, TypeOK
<1>2. call[c] # None /\ call[c].name \in Names
  BY <1>1 DEF PhaseInv, TypeOK, Requests
<1>3. p \in Places /\ n \in Places /\ p # n
  BY PlacesAreApart
<1>4. /\ dir'[n] = dir[p] /\ dir'[p] = None /\ Exists(p) /\ ~Exists(n)
      /\ \A o \in Places \ {p, n} : dir'[o] = dir[o]
  BY <1>1, <1>3, Renamed DEF CanRename
<1>5. made' = made \cup {n}
  BY DEF Rename
<1>6. \A m \in Names : m = n \/ dir'[m] = dir[m]
  BY <1>3, <1>4, PlacesAreApart
<1>7. InPlace(n)'
  BY <1>4, HeirOfItselfNext DEF InPlace, Exists
<1>8. ASSUME NEW m \in Names, call[c].name = m PROVE InPlace(m)'
  <2>1. CASE n = m
    BY <1>7, <2>1
  <2>2. CASE Migration(c) /\ n = call[c].to
    <3>1. (n \in Heirs(m))'
      BY <1>8, <2>2, Becomes DEF Migration
    <3>. QED
      BY <1>7, <3>1, InPlaceChain
  <2>. QED
    BY <1>8, <2>1, <2>2
<1>9. IsBare(dir[p]) => Awaited(n)'
  <2> SUFFICES ASSUME IsBare(dir[p]) PROVE Awaited(n)'
    OBVIOUS
  <2>1. p = Backup(c) /\ n = call[c].name /\ (q = "undoing" \/ ~Migration(c))
    OBVIOUS
  <2>2. Excused(n, dir[p])
    BY <1>4, <2>1 DEF CopyInv, TreeInv
  <2>3. CASE MigratedTwice(n)
    BY <2>3, LeavesHeirs DEF MigratedTwice, MigratedBeside, Awaited
  <2>4. ASSUME NEW e \in Calls, Migrates(e, n) PROVE Awaited(n)'
    <3>1. CASE e = c
      BY <1>1, <2>1, <2>4, <3>1 DEF Migrates, Migration, Awaited, Borrows
    <3>2. CASE e # c
      BY <1>2, <2>1, <2>4, <3>2, LeavesHeirs DEF Migrates, Migration, MigratedBeside, Awaited
    <3>. QED
      BY <3>1, <3>2
  <2>. QED
    BY <2>2, <2>3, <2>4 DEF Excused
<1>10. \A m \in Names : dir'[m] = dir[m] \/ (Exists(m) => InPlace(m)')
  BY <1>4, <1>6
<1>11. \A m \in Names : Lent(c) /\ call[c].name = m => InPlace(m)'
  BY <1>8
<1>12. \A m \in made' : m \in made \/ InPlace(m)'
  BY <1>5, <1>7
<1>13. \A m \in Names : dir'[m] = dir[m] \/
           (Exists(m)' /\ IsBare(dir[m])' => Awaited(m)')
  BY <1>4, <1>6, <1>9
<1>14. \A m \in Names : Migrates(c, m) /\ pc[c] \in {"probing", "retiring", "undoing"} =>
           (Exists(m)' /\ IsBare(dir[m])' => Awaited(m)')
  OBVIOUS
<1>15. Halts(c)'
  BY <1>1 DEF Halts
<1>. QED
  BY <1>10, <1>11, <1>12, <1>13, <1>14, <1>15, QuietStep

LEMMA RetireQuiet ==
    ASSUME Inv, Inv', CopyInv, QuietInv, NEW c \in Calls, Leaves(c), Retire(c)
    PROVE  QuietInv'
PROOF
<1>1. /\ TypeOK /\ PhaseInv(c) /\ pc[c] = "retiring" /\ CopyOwned(c)
      /\ UNCHANGED <<stored, call, seen, rd>> /\ c \notin halted'
  BY DEF Inv, QuietInv, Halts, Retire
<1>2. call[c] # None /\ call[c] \in Requests /\ call[c].name \in Names
  BY <1>1 DEF PhaseInv, TypeOK, Requests
<1>3. CASE dir' = dir /\ made' = made /\ pc' = [pc EXCEPT ![c] = "undoing"]
  BY <1>1, <1>3, SwappingQuiet
<1>4. CASE /\ CanRename(call[c].name, Backup(c)) /\ Rename(call[c].name, Backup(c))
           /\ had' = [had EXCEPT ![c] = TRUE]
           /\ pc' = [pc EXCEPT ![c] = "placing"]
  <2> SUFFICES ASSUME NEW n \in Names, n = call[c].name PROVE QuietInv'
    BY <1>2
  <2>1. Backup(c) \in Places /\ n \in Places /\ n # Backup(c) /\ Backup(c) \notin Names
    BY PlacesAreApart
  <2>2. /\ dir'[Backup(c)] = dir[n] /\ dir'[n] = None /\ Exists(n)
        /\ \A o \in Places \ {n, Backup(c)} : dir'[o] = dir[o]
    BY <1>1, <1>4, <2>1, Renamed DEF CanRename
  <2>3. pc'[c] = "placing" /\ had'[c] /\ made' = made
    BY <1>1, <1>4, <2>1 DEF TypeOK, Rename
  <2>4. dir'[Copy(c)] = dir[Copy(c)] /\ \A m \in Names : m = n \/ dir'[m] = dir[m]
    BY <2>1, <2>2, PlacesAreApart
  <2>5. CopyOwned(c)'
    BY <1>1, <2>3, <2>4 DEF CopyOwned, Exists
  <2>6. InPlace(n)'
    <3>1. Lent(c)'
      BY <1>1, <1>2, <2>2, <2>3 DEF Lent, Exists
    <3>. QED
      BY <1>1, <3>1, HeirOfItselfNext DEF InPlace
  <2>7. \A m \in Names : dir'[m] = dir[m] \/ (Exists(m) => InPlace(m)')
    BY <2>4, <2>6
  <2>8. \A m \in Names : Lent(c) /\ call[c].name = m => InPlace(m)'
    BY <2>6
  <2>9. \A m \in Names : dir'[m] = dir[m] \/
            (Exists(m)' /\ IsBare(dir[m])' => Awaited(m)')
    BY <2>2, <2>4 DEF Exists
  <2>10. \A m \in Names : Migrates(c, m) /\ pc[c] \in {"probing", "retiring", "undoing"} =>
             (Exists(m)' /\ IsBare(dir[m])' => Awaited(m)')
    BY <2>2 DEF Migrates, Exists
  <2>11. Halts(c)'
    BY <1>1 DEF Halts
  <2>. QED
    BY <2>3, <2>5, <2>7, <2>8, <2>9, <2>10, <2>11, QuietStep
<1>. QED
  BY <1>3, <1>4 DEF Retire, Goto

LEMMA PlaceQuiet ==
    ASSUME Inv, Inv', CopyInv, QuietInv, NEW c \in Calls, Leaves(c), Place(c)
    PROVE  QuietInv'
PROOF
<1>1. /\ TypeOK /\ PhaseInv(c) /\ pc[c] = "placing" /\ CopyOwned(c) /\ FreshInv(c)
      /\ UNCHANGED <<stored, call, seen, had, rd>> /\ c \notin halted'
  BY DEF Inv, CopyInv, QuietInv, Halts, Place
<1>2. call[c] # None /\ call[c] \in Requests
  BY <1>1 DEF PhaseInv, TypeOK
<1>3. CASE /\ CanRename(Source(c), Destination(c)) /\ Rename(Source(c), Destination(c))
           /\ pc' = [pc EXCEPT ![c] = IF had[c] THEN "dropping" ELSE "over"]
  <2>1. /\ Destination(c) \in Names
        /\ Destination(c) = call[c].name \/ (Migration(c) /\ Destination(c) = call[c].to)
    <3>1. CASE call[c].op = "migrate"
      BY <1>2, <3>1 DEF Destination, Requests, Migration
    <3>2. CASE call[c].op # "migrate"
      BY <1>2, <3>2 DEF Destination, Requests
    <3>. QED
      BY <3>1, <3>2
  <2>2. Source(c) \in {Stage(c), Copy(c)}
    BY DEF Source
  <2>3. ~IsBare(dir[Source(c)])
    BY <1>1, <1>3 DEF Source, FreshInv, CanRename
  <2>4. PICK q \in {"dropping", "over"} : pc' = [pc EXCEPT ![c] = q]
    BY <1>3
  <2>5. ~Exists(Copy(c))'
    <3>1. CASE call[c].op = "replace"
      <4>1. Source(c) = Copy(c) /\ Source(c) \in Places /\ Destination(c) \in Places
            /\ Source(c) # Destination(c)
        BY <2>1, <3>1, PlacesAreApart DEF Source
      <4>2. dir'[Copy(c)] = None
        BY <1>1, <1>3, <4>1, Renamed
      <4>. QED
        BY <4>2 DEF Exists
    <3>2. CASE call[c].op # "replace"
      <4>1. Source(c) = Stage(c) /\ Source(c) \in Places /\ Destination(c) \in Places
            /\ Source(c) # Destination(c)
            /\ Copy(c) \in Places \ {Source(c), Destination(c)}
        BY <2>1, <3>2, PlacesAreApart DEF Source
      <4>2. dir'[Copy(c)] = dir[Copy(c)]
        BY <1>1, <1>3, <4>1, Renamed
      <4>. QED
        BY <1>1, <3>2, <4>2 DEF CopyOwned, Exists
    <3>. QED
      BY <3>1, <3>2
  <2>6. CopyOwned(c)'
    BY <2>5 DEF CopyOwned
  <2>. QED
    BY <1>1, <1>3, <2>1, <2>2, <2>3, <2>4, <2>6, PlacingQuiet
<1>4. CASE /\ pc' = [pc EXCEPT ![c] = IF had[c] THEN "restoring" ELSE "undoing"]
           /\ UNCHANGED <<dir, made>>
  <2> DEFINE q == IF had[c] THEN "restoring" ELSE "undoing"
  <2>1. pc' = [pc EXCEPT ![c] = q] /\ q = (IF had[c] THEN "restoring" ELSE "undoing")
    BY <1>4
  <2> HIDE DEF q
  <2>. QED
    BY <1>1, <1>4, <2>1, SwappingQuiet
<1>. QED
  BY <1>3, <1>4 DEF Place, Goto

LEMMA PutBackQuiet ==
    ASSUME Inv, Inv', CopyInv, QuietInv, NEW c \in Calls, Leaves(c),
           Restore(c) \/ Recover(c)
    PROVE  QuietInv'
PROOF
<1>1. /\ TypeOK /\ PhaseInv(c) /\ CopyOwned(c) /\ UNCHANGED <<stored, call, seen, had, rd>>
      /\ \/ pc[c] = "restoring" /\ pc' = [pc EXCEPT ![c] = "undoing"]
         \/ pc[c] = "recovering" /\ pc' = [pc EXCEPT ![c] = "over"]
  BY DEF Inv, QuietInv, Restore, Recover, Goto
<1>2. call[c].name \in Names /\ call[c] # None
  BY <1>1 DEF PhaseInv, TypeOK, Requests
<1>3. CASE /\ CanRename(Backup(c), call[c].name) /\ Rename(Backup(c), call[c].name)
           /\ halted' = halted
  <2>1. Backup(c) \in Places /\ call[c].name \in Places /\ Backup(c) # call[c].name
        /\ Copy(c) \in Places \ {Backup(c), call[c].name}
    BY <1>2, PlacesAreApart
  <2>2. dir'[Copy(c)] = dir[Copy(c)]
    BY <1>1, <1>3, <2>1, Renamed
  <2>3. CopyOwned(c)'
    BY <1>1, <1>3, <2>2 DEF CopyOwned, Exists, TypeOK
  <2>4. pc[c] = "recovering" => ~Migration(c)
    BY DEF CopyInv, FreshInv
  <2>. QED
    BY <1>1, <1>2, <1>3, <2>3, <2>4, PlacingQuiet
<1>4. CASE /\ UNCHANGED <<dir, made>>
           /\ ~CanRename(Backup(c), call[c].name) \/ c \in halted'
  BY <1>1, <1>4, SwappingQuiet
<1>. QED
  BY <1>3, <1>4 DEF Restore, Recover, PutBack, GivesUp

LEMMA PublishImportQuiet ==
    ASSUME Inv, Inv', CopyInv, QuietInv, NEW c \in Calls, Leaves(c), PublishImport(c)
    PROVE  QuietInv'
PROOF
<1>1. /\ TypeOK /\ FreshInv(c) /\ PhaseInv(c) /\ pc[c] = "publishing" /\ CopyOwned(c)
      /\ UNCHANGED <<stored, call, seen, had, rd, halted>> /\ c \notin halted
  BY DEF Inv, CopyInv, QuietInv, Halts, PublishImport
<1>2. /\ call[c] # None /\ call[c] \in Requests /\ call[c].name \in Names
      /\ call[c].op \in {"import", "replace"} /\ ~Exists(Copy(c))
  BY <1>1 DEF PhaseInv, TypeOK, Requests, CopyOwned, Halts
<1>3. Stage(c) \in Places /\ Copy(c) \in Places /\ Stage(c) # Copy(c) /\ Copy(c) \notin Names
      /\ \A n \in Names : n \in Places /\ n # Stage(c) /\ n # Copy(c)
  BY PlacesAreApart
<1>4. CASE Remove(Stage(c)) /\ pc' = [pc EXCEPT ![c] = "over"]
  <2>1. /\ \A o \in Places \ {Stage(c)} : dir'[o] = dir[o]
        /\ made' = made
    BY <1>1, <1>3, <1>4, Removed DEF Remove
  <2>2. dir'[Copy(c)] = dir[Copy(c)] /\ \A n \in Names : dir'[n] = dir[n]
    BY <1>3, <2>1
  <2>3. CopyOwned(c)'
    BY <1>1, <2>2, NoCopy
  <2>. QED
    BY <1>1, <2>1, <2>2, <2>3, QuietElsewhere
<1>5. CASE /\ call[c].op = "import"
           /\ CanRename(Stage(c), call[c].name) /\ Rename(Stage(c), call[c].name)
           /\ pc' = [pc EXCEPT ![c] = "over"]
  <2>1. ~IsBare(dir[Stage(c)])
    BY <1>1, <1>5 DEF FreshInv, CanRename
  <2>2. call[c].name \in Places /\ Stage(c) # call[c].name
        /\ Copy(c) \in Places \ {Stage(c), call[c].name}
    BY <1>2, <1>3
  <2>3. dir'[Copy(c)] = dir[Copy(c)]
    BY <1>1, <1>3, <1>5, <2>2, Renamed
  <2>4. CopyOwned(c)'
    BY <1>1, <2>3, NoCopy
  <2>. QED
    BY <1>1, <1>2, <1>5, <2>1, <2>4, PlacingQuiet
<1>6. CASE /\ call[c].op = "replace"
           /\ CanRename(Stage(c), Copy(c)) /\ Rename(Stage(c), Copy(c))
           /\ pc' = [pc EXCEPT ![c] = "naming"]
  <2>1. made' = made /\ pc'[c] = "naming"
    BY <1>1, <1>3, <1>6 DEF Rename, TypeOK
  <2>2. \A o \in Places \ {Copy(c), Stage(c)} : dir'[o] = dir[o]
    BY <1>1, <1>3, <1>6, Renamed
  <2>3. \A n \in Names : dir'[n] = dir[n]
    BY <1>3, <2>2
  <2>4. CopyOwned(c)'
    BY <1>1, <1>6, <2>1 DEF CopyOwned
  <2>. QED
    BY <1>1, <2>1, <2>3, <2>4, QuietElsewhere
<1>7. call[c].op = "replace" => ImportPlace(c) = Copy(c)
  BY DEF ImportPlace
<1>8. call[c].op = "import" => ImportPlace(c) = call[c].name /\ call[c].op # "replace"
  BY DEF ImportPlace
<1>9. \/ Remove(Stage(c)) /\ pc' = [pc EXCEPT ![c] = "over"]
      \/ /\ CanRename(Stage(c), ImportPlace(c)) /\ Rename(Stage(c), ImportPlace(c))
         /\ pc' = [pc EXCEPT ![c] = IF call[c].op = "replace" THEN "naming" ELSE "over"]
  BY DEF PublishImport, Goto
<1>. QED
  BY <1>2, <1>4, <1>5, <1>6, <1>7, <1>8, <1>9

\* The catch of Revise and of Replace, and the look before the swap.
LEMMA CatchQuiet ==
    ASSUME Inv, Inv', CopyInv, QuietInv, NEW c \in Calls, Leaves(c),
           UndoRevise(c) \/ UndoReplace(c) \/ Probe(c)
    PROVE  QuietInv'
PROOF
<1>1. TypeOK /\ PhaseInv(c) /\ CopyOwned(c) /\ Halts(c)
  BY DEF Inv, QuietInv
<1>2. Stage(c) \in Places /\ Copy(c) \in Places /\ Backup(c) \in Places /\ Stage(c) # Copy(c)
      /\ Backup(c) # Copy(c) /\ Stage(c) # Backup(c)
      /\ \A n \in Names : n \in Places /\ n # Stage(c) /\ n # Copy(c)
  BY PlacesAreApart
<1>3. CASE UndoRevise(c)
  <2>1. /\ \A o \in Places \ {Stage(c)} : dir'[o] = dir[o]
        /\ made' = made /\ call' = call /\ ~Migration(c) /\ ~Exists(Copy(c))
        /\ pc[c] = "undoing" /\ pc' = [pc EXCEPT ![c] = "over"]
    BY <1>1, <1>2, <1>3 DEF UndoRevise, Remove, Goto, TypeOK, Migration, CopyOwned
  <2>2. /\ dir'[Copy(c)] = None /\ dir'[Backup(c)] = dir[Backup(c)]
        /\ \A n \in Names : dir'[n] = dir[n]
    BY <1>2, <2>1 DEF Exists
  <2>. QED
    BY <2>1, <2>2, SwappingQuiet
<1>4. CASE UndoReplace(c) /\ Remove(Copy(c)) /\ pc' = [pc EXCEPT ![c] = "recovering"]
  <2>1. /\ \A o \in Places \ {Copy(c)} : dir'[o] = dir[o]
        /\ made' = made /\ call' = call /\ ~Migration(c) /\ dir'[Copy(c)] = None
        /\ pc[c] = "undoing" /\ pc' = [pc EXCEPT ![c] = "recovering"]
    BY <1>1, <1>2, <1>4 DEF UndoReplace, Remove, Goto, TypeOK, Migration
  <2>2. dir'[Backup(c)] = dir[Backup(c)] /\ \A n \in Names : dir'[n] = dir[n]
    BY <1>2, <2>1
  <2>. QED
    BY <2>1, <2>2, SwappingQuiet
<1>6. CASE UndoReplace(c) /\ GivesUp(c) /\ pc' = [pc EXCEPT ![c] = "over"]
  <2>1. UNCHANGED <<dir, made, call>> /\ c \in halted' /\ pc[c] = "undoing"
    BY <1>6 DEF UndoReplace, GivesUp
  <2>. QED
    BY <1>6, <2>1, SwappingQuiet
<1>5. CASE Probe(c)
  <2> DEFINE q == IF Exists(call[c].name) THEN "retiring" ELSE "placing"
  <2>1. /\ pc' = [pc EXCEPT ![c] = q] /\ pc[c] = "probing"
        /\ q = (IF Exists(call[c].name) THEN "retiring" ELSE "placing")
        /\ UNCHANGED <<dir, made, call>> /\ c \notin halted'
    BY <1>1, <1>5 DEF Probe, Goto, Halts
  <2> HIDE DEF q
  <2>. QED
    BY <2>1, SwappingQuiet
<1>. QED
  BY <1>3, <1>4, <1>5, <1>6 DEF UndoReplace, Goto

\* While a migration has the tree it is at work.
LEMMA MoveTreeQuiet ==
    ASSUME Inv, Inv', CopyInv, QuietInv, NEW c \in Calls, Leaves(c), MoveTree(c)
    PROVE  QuietInv'
PROOF
<1>1. /\ TypeOK /\ PhaseInv(c) /\ CopyOwned(c) /\ pc[c] = "moving"
      /\ pc'[c] \in {"probing", "undoing"}
      /\ UNCHANGED <<call, made>> /\ c \notin halted /\ c \notin halted'
  BY DEF Inv, QuietInv, Halts, MoveTree, Goto, TypeOK
<1>2. call[c] # None /\ call[c] \in Requests /\ call[c].name \in Names /\ call[c].op = "migrate"
  BY <1>1 DEF PhaseInv, TypeOK, Requests
<1> SUFFICES ASSUME NEW n \in Names, n = call[c].name PROVE QuietInv'
  BY <1>2
<1>3. n \in Places /\ Stage(c) \in Places /\ n # Stage(c) /\ Copy(c) \in Places
      /\ Copy(c) # n /\ Copy(c) # Stage(c)
      /\ \A m \in Names : m \in Places /\ m # Stage(c)
  BY PlacesAreApart
<1>4. \A o \in Places \ {n, Stage(c)} : dir'[o] = dir[o]
  BY <1>1, <1>3 DEF MoveTree, TypeOK
<1>5. dir'[Copy(c)] = dir[Copy(c)] /\ \A m \in Names : m = n \/ dir'[m] = dir[m]
  BY <1>3, <1>4
<1>6. CopyOwned(c)'
  BY <1>1, <1>5, NoCopy
<1>7. Awaited(n)'
  BY <1>1, <1>2 DEF Awaited, Borrows, Migrates, Migration
<1>8. Exists(n) => Exists(n)'
  <2> SUFFICES ASSUME dir[n] # None, dir' # dir PROVE dir'[n] # None
    BY DEF Exists
  <2>1. dir'[n] = [dir[n] EXCEPT !.res = {}]
    BY <1>1, <1>3 DEF MoveTree, TypeOK
  <2>2. dir[n] \in Overlays
    BY <1>1, <1>3 DEF TypeOK
  <2>3. dir'[n] \in Overlays
    BY <2>1, <2>2 DEF Overlays
  <2>. QED
    BY <2>3, NoneIsApart
<1>9. \A m \in Names : dir'[m] = dir[m] \/ (Exists(m) => InPlace(m)')
  BY <1>5, <1>8, HeirOfItselfNext DEF InPlace
<1>10. ~Lent(c) /\ Halts(c)'
  BY <1>1 DEF Lent, Halts
<1>. QED
  BY <1>1, <1>5, <1>6, <1>7, <1>9, <1>10, QuietStep

\* The tree goes back to the overlay, if one of its own is there and has none.
LEMMA UndoMigrateQuiet ==
    ASSUME Inv, Inv', CopyInv, CopyInv', QuietInv, NEW c \in Calls, Leaves(c),
           UndoMigrate(c)
    PROVE  QuietInv'
PROOF
<1>1. /\ TypeOK /\ PhaseInv(c) /\ CopyOwned(c) /\ pc[c] = "undoing" /\ pc'[c] = "over"
      /\ UNCHANGED <<call, made>> /\ call[c].op = "migrate"
  BY DEF Inv, QuietInv, UndoMigrate, GivesUp, Goto, TypeOK
<1>2. /\ call[c] # None /\ call[c] \in Requests /\ call[c].name \in Names
      /\ Exists(Stage(c)) /\ ~Exists(Copy(c))
  BY <1>1 DEF PhaseInv, TypeOK, Requests, CopyOwned
<1> SUFFICES ASSUME NEW n \in Names, n = call[c].name PROVE QuietInv'
  BY <1>2
<1> DEFINE tree == dir[Stage(c)].res
<1>3. n \in Places /\ Stage(c) \in Places /\ n # Stage(c) /\ Copy(c) \in Places
      /\ Copy(c) # n /\ Copy(c) # Stage(c)
      /\ \A m \in Names : m \in Places /\ m # Stage(c)
  BY PlacesAreApart
<1>4. \A o \in Places \ {n, Stage(c)} : dir'[o] = dir[o]
  BY <1>1, <1>3 DEF UndoMigrate, GivesUp, TypeOK
<1>5. dir'[Copy(c)] = dir[Copy(c)] /\ \A m \in Names : m = n \/ dir'[m] = dir[m]
  BY <1>3, <1>4
<1>6. CopyOwned(c)'
  BY <1>2, <1>5 DEF CopyOwned, Exists
<1>7. Lent(c) => Lent(c)'
  <2>1. dir'[Backup(c)] = dir[Backup(c)]
    BY <1>4, PlacesAreApart
  <2>. QED
    BY <1>1, <2>1 DEF Lent, Leaves, Exists
<1>13. Halts(c)'
  BY <1>1 DEF Halts
<1>14. CASE GivesUp(c)
  <2>1. UNCHANGED <<dir, made, call>> /\ c \in halted' /\ pc' = [pc EXCEPT ![c] = "over"]
    BY <1>1, <1>14 DEF GivesUp, UndoMigrate, Goto
  <2>. QED
    BY <1>1, <2>1, SwappingQuiet
<1>8. Migrates(c, n)
  BY <1>1, <1>2 DEF Migrates, Migration
<1>9. MigratedTwice(n) => Awaited(n)'
  BY LeavesHeirs DEF MigratedTwice, MigratedBeside, Awaited
<1>10. CASE /\ tree # {} /\ Exists(n) /\ dir[n].res = {}
            /\ dir' = [dir EXCEPT ![n].res = tree, ![Stage(c)] = None]
  <2>1. dir'[n] = [dir[n] EXCEPT !.res = tree]
    BY <1>1, <1>3, <1>10 DEF TypeOK
  <2>2. dir[n] \in Overlays /\ tree \in SUBSET Payloads
    BY <1>1, <1>2, <1>3, <1>10 DEF TypeOK, Exists, Overlays
  <2>3. dir'[n] \in Overlays /\ dir'[n].res = tree
    BY <2>1, <2>2 DEF Overlays
  <2>4. Exists(n)'
    BY <2>3, NoneIsApart DEF Exists
  <2>5. IsBare(dir[n])' => Awaited(n)'
    <3> SUFFICES ASSUME IsBare(dir[n])' PROVE Awaited(n)'
      OBVIOUS
    <3>1. Excused(n, dir[n])'
      BY <2>4 DEF CopyInv, TreeInv
    <3>2. MigratedTwice(n)'
      BY <1>10, <2>3, <3>1 DEF Excused
    <3>. QED
      BY <3>2 DEF MigratedTwice, MigratedBeside, Awaited
  <2>6. \A m \in Names : dir'[m] = dir[m] \/ (Exists(m) => InPlace(m)')
    BY <1>5, <2>4, HeirOfItselfNext DEF InPlace
  <2>7. \A m \in Names : Migrates(c, m) => (Exists(m)' /\ IsBare(dir[m])' => Awaited(m)')
    BY <2>5 DEF Migrates
  <2>8. \A m \in Names : dir'[m] = dir[m] \/ (Exists(m)' /\ IsBare(dir[m])' => Awaited(m)')
    BY <1>5, <2>5
  <2>9. \A m \in Names : Lent(c) /\ call[c].name = m => InPlace(m)'
    BY <1>1, <1>7, HeirOfItselfNext DEF InPlace
  <2>. QED
    BY <1>1, <1>6, <1>13, <2>6, <2>7, <2>8, <2>9, QuietStep
<1>11. CASE /\ \A m \in Names : dir'[m] = dir[m]
            /\ \/ ~Exists(n)
               \/ tree = {}
               \/ dir[n].res # {}
  <2>1. Exists(n) /\ IsBare(dir[n]) => Awaited(n)'
    <3> SUFFICES ASSUME Exists(n), IsBare(dir[n]), ~MigratedTwice(n) PROVE FALSE
      BY <1>9
    <3>1. Excused(n, dir[n])
      BY DEF CopyInv, TreeInv
    <3>2. dir[n].res = {} /\ dir[n].index \subseteq tree
      BY <1>2, <1>8, <3>1, OneMigration
    <3>. QED
      BY <1>11, <3>2 DEF IsBare
  <2>2. \A m \in Names : Migrates(c, m) /\ Exists(m) /\ IsBare(dir[m]) => Awaited(m)'
    BY <2>1 DEF Migrates
  <2>. QED
    BY <1>1, <1>6, <1>7, <1>11, <1>13, <2>2, QuietHidden
<1>12. dir' = dir \/ dir' = [dir EXCEPT ![Stage(c)] = None] => \A m \in Names : dir'[m] = dir[m]
  BY <1>1, <1>3 DEF TypeOK
<1>. QED
  BY <1>10, <1>11, <1>12, <1>14 DEF UndoMigrate

\* A call that dies leaves what it has.
LEMMA CrashQuiet ==
    ASSUME Inv, Inv', CopyInv, QuietInv, NEW c \in Calls, Leaves(c), Crash(c)
    PROVE  QuietInv'
PROOF
<1>1. /\ UNCHANGED <<dir, call, made>> /\ c \in halted' /\ pc'[c] = "over" /\ CopyOwned(c)
  BY DEF Inv, TypeOK, QuietInv, Crash, Goto
<1>2. CopyOwned(c)' /\ Halts(c)' /\ Borrows(c)'
  BY <1>1 DEF CopyOwned, Halts, Borrows, Exists
<1>3. Lent(c) => Lent(c)'
  BY <1>1 DEF Lent, Exists
<1>. QED
  BY <1>1, <1>2, <1>3, QuietHidden

-------------------------------------------------------------------------------
(* Every step, and the theorem *)

LEMMA InitQuiet == ASSUME Init PROVE QuietInv
PROOF
<1>1. \A m \in made : InPlace(m)
  <2>1. \A m \in made : m \in Names /\ Exists(m)
    BY DEF Init
  <2>. QED
    BY <2>1, HeirOfItself DEF InPlace
<1>2. \A c \in Calls : CopyOwned(c)
  <2>1. \A c \in Calls : pc[c] = "idle"
    BY DEF Init
  <2>2. \A c \in Calls : PhaseInv(c)
    BY InitInv DEF Inv
  <2>. QED
    BY <2>1, <2>2 DEF PhaseInv, CopyOwned
<1>3. ASSUME NEW m \in Names, Exists(m) PROVE ~IsBare(dir[m])
  <2>1. \A c \in Calls : call[c] = None
    BY DEF Init
  <2>2. TreeInv
    BY InitCopies DEF CopyInv
  <2>3. IsBare(dir[m]) => Excused(m, dir[m])
    BY <1>3, <2>2 DEF TreeInv
  <2>4. ~MigratedTwice(m) /\ \A c \in Calls : ~Migrates(c, m)
    BY <2>1 DEF MigratedTwice, Migrates, Migration
  <2>. QED
    BY <2>3, <2>4 DEF Excused
<1>4. \A c \in Calls : Halts(c)
  BY DEF Init, Halts
<1>. QED
  BY <1>1, <1>2, <1>3, <1>4 DEF QuietInv

LEMMA StepQuiet ==
    ASSUME Inv, Inv', CopyInv, CopyInv', QuietInv, [Next]_vars PROVE QuietInv'
PROOF
<1>1. ASSUME UNCHANGED <<dir, pc, call, had, made, halted>> PROVE QuietInv'
  <2>1. \A n : InPlace(n) => InPlace(n)'
    BY <1>1 DEF InPlace, Heirs, Closed, Lent, Exists
  <2>2. \A n \in Names : Exists(n)' /\ IsBare(dir[n])' => Exists(n) /\ IsBare(dir[n])
    BY <1>1 DEF Exists, IsBare
  <2>3. \A n \in Names : Awaited(n) => Awaited(n)'
    BY <1>1 DEF Awaited, Borrows, MigratedBeside, Migrates, Migration
  <2>4. \A c \in Calls : (CopyOwned(c) => CopyOwned(c)') /\ (Halts(c) => Halts(c)')
    BY <1>1 DEF CopyOwned, Halts, Exists
  <2>. QED
    BY <1>1, <2>1, <2>2, <2>3, <2>4 DEF QuietInv
<1>2. ASSUME NEW r \in Readers, List(r) \/ OpenManifest(r) \/ OpenIndex(r) PROVE QuietInv'
  <2>1. UNCHANGED <<dir, pc, call, had, made, halted>>
    BY <1>2 DEF List, OpenManifest, OpenIndex, Fail, Reads, calls
  <2>. QED
    BY <1>1, <2>1
<1>3. ASSUME UNCHANGED vars PROVE QuietInv'
  BY <1>1, <1>3 DEF vars, calls
<1>4. ASSUME NEW c \in Calls,
             \/ Begin(c) \/ Importing(c) \/ Revising(c) \/ Replacing(c) \/ Migrating(c)
             \/ Swapping(c) \/ Crash(c)
      PROVE  QuietInv'
  <2>1. Leaves(c)
    BY <1>4, EachLeaves
  <2>2. CASE Begin(c) \/ Importing(c) \/ Revising(c) \/ Migrating(c)
    BY <2>1, <2>2, StartingQuiet, PublishImportQuiet, CatchQuiet, MoveTreeQuiet,
       UndoMigrateQuiet DEF Importing, Revising, Migrating
  <2>3. CASE Replacing(c) \/ Swapping(c) \/ Crash(c)
    BY <2>1, <2>3, StartingQuiet, NamingQuiet, CatchQuiet, PutBackQuiet, RetireQuiet,
       PlaceQuiet, CrashQuiet DEF Replacing, Swapping
  <2>. QED
    BY <1>4, <2>2, <2>3
<1>. QED
  BY <1>2, <1>3, <1>4 DEF Next

\* A store at rest has every overlay in place and complete under its own name, but for
\* the overlay of a call that ended half way, which is in its backup or lacks its tree:
\* for any number of calls, names and payloads, wherever they fail or die
\* (CjsToolIndexOverlayStore.js:858-893, :616-625, :940-967).
THEOREM QuietStoreStays == Spec => []QuietStoreOpens
PROOF
<1>1. Init => Inv /\ CopyInv /\ QuietInv
  BY InitInv, InitCopies, InitQuiet
<1>2. (Inv /\ CopyInv /\ QuietInv) /\ [Next]_vars => (Inv /\ CopyInv /\ QuietInv)'
  BY StepInv, StepCopies, StepQuiet
<1>3. Inv /\ CopyInv /\ QuietInv => QuietStoreOpens
  <2> SUFFICES ASSUME Inv, QuietInv, Quiet PROVE QuietStoreOpens
    BY DEF QuietStoreOpens
  <2>1. \A c \in Calls : pc[c] \in {"idle", "over"}
    BY DEF Quiet, AtWork
  <2>2. halted \subseteq Calls
    BY DEF Inv, TypeOK
  <2>3. ASSUME NEW n \in made
        PROVE  \/ \E m \in Heirs(n) : Exists(m)
               \/ \E c \in halted : call[c].name \in Heirs(n) /\ Exists(Backup(c))
    BY <2>1 DEF QuietInv, InPlace, Lent
  <2>4. ASSUME NEW p \in Visible, Exists(p), NEW c \in Calls, p = Copy(c) PROVE c \in halted
    BY <2>1, <2>4 DEF QuietInv, CopyOwned
  <2>5. ASSUME NEW p \in Names, Exists(p)
        PROVE  /\ dir[p].manifest # Torn /\ dir[p].manifest.name = p
               /\ \/ Whole(p) \/ MigratedBeside(p)
                  \/ \E c \in halted : call[c].op = "migrate" /\ call[c].name = p
    <3>1. p \in Places
      BY PlacesAreApart
    <3>2. Good(dir[p], p) /\ Kept(dir[p])
      BY <2>5 DEF Inv, NameInv
    <3>3. IsBare(dir[p]) => \/ MigratedBeside(p)
                            \/ \E c \in halted : call[c].op = "migrate" /\ call[c].name = p
      BY <2>1, <2>5 DEF QuietInv, Awaited, Borrows, Migrates, Migration
    <3>4. dir[p].manifest # Torn /\ dir[p].manifest.name = p
      BY <3>2, TornIsApart DEF Good
    <3>. QED
      BY <2>5, <3>1, <3>2, <3>3, <3>4, NotBareIsWhole
  <2>. QED
    BY <2>2, <2>3, <2>4, <2>5 DEF QuietStoreOpens, Visible
<1>. QED
  BY <1>1, <1>2, <1>3, PTL DEF Spec

===============================================================================
