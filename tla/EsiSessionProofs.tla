--------------------------- MODULE EsiSessionProofs ---------------------------
(***************************************************************************)
(* The live token is on disk, on its way there, or known to be lost, and   *)
(* the record never forgets whose it is: for any clients, callers, logins  *)
(* and rotations.                                                          *)
(***************************************************************************)
EXTENDS EsiSession, TLAPS

\* A file that w is filling holds no record, and is torn for nobody yet.
LEMMA Kinds ==
    ASSUME NEW w \in Writers
    PROVE  /\ [by |-> w] \notin Records /\ [by |-> w] # None /\ [by |-> w] # Torn
           /\ Torn \notin Records /\ None \notin Records
           /\ \A v \in Writers : [by |-> v] = [by |-> w] => v = w
<1>1. ASSUME NEW r \in Records PROVE r # [by |-> w]
  <2>1. PICK t \in Tokens, x \in Logins \cup {None} : r = [token |-> t, who |-> x]
    BY DEF Records
  <2>2. DOMAIN r = {"token", "who"} /\ DOMAIN [by |-> w] = {"by"}
    BY <2>1
  <2> QED BY <2>2
<1>2. [by |-> w] \in [by : Writers]
  OBVIOUS
<1>3. \A v \in Writers : [by |-> v].by = v
  OBVIOUS
<1> QED BY <1>1, <1>2, <1>3, ConstantsAssumption DEF Contents

\* A login's identity is a name or nothing.
LEMMA IdentityIsWho == \A l \in Logins : Identity(l) \in Logins \cup {None}
BY DEF Identity

LEMMA OwnerIsClient == \A w \in Writers : Owner(w) \in Clients
BY ConstantsAssumption DEF Owner, Writers

-------------------------------------------------------------------------------
(* Types and phases *)

\* What is in hand says how far its owner is.
CallerPhases == \A c \in Callers : snap[c] # None <=> pc[c] = "resuming"
ClientPhases == \A p \in Clients : /\ rtok[p] # None <=> rpc[p] # "none"
                                   /\ rec[p] # None <=> rpc[p] = "writing"
LoginPhases == \A l \in Logins : /\ rec[l] # None <=> lpc[l] = "writing"
                                 /\ lpc[l] \in {"none", "pending"} => live[l] = 0
WriterPhases == \A w \in Writers : rec[w] # None <=> wpc[w] # "none"

Phases == CallerPhases /\ ClientPhases /\ LoginPhases /\ WriterPhases

Sane == TypeOK /\ Phases

LEMMA FillType ==
    ASSUME TypeOK, NEW w \in Writers, NEW filled \in Contents, Fill(w, filled)
    PROVE  file' \in Contents \cup {None} /\ temp' \in [Clients -> Contents \cup {None}]
BY DEF TypeOK, Fill

LEMMA RefreshOverType ==
    ASSUME TypeOK, NEW p \in Clients, NEW outcome \in {"idle", "sending"}, RefreshOver(p, outcome)
    PROVE  /\ rpc' \in [Clients -> {"none", "spending", "rotated", "writing"}]
           /\ rtok' \in [Clients -> Tokens \cup {None}]
           /\ pc' \in [Callers -> {"idle", "reading", "resuming", "waiting", "sending"}]
           /\ forced' \in [Callers -> BOOLEAN]
<1>1. rpc' \in [Clients -> {"none", "spending", "rotated", "writing"}] /\ rtok' \in [Clients -> Tokens \cup {None}]
  BY DEF TypeOK, RefreshOver
<1>2. pc' \in [Callers -> {"idle", "reading", "resuming", "waiting", "sending"}]
  BY DEF TypeOK, RefreshOver, Settled
<1>3. forced' \in [Callers -> BOOLEAN]
  BY DEF TypeOK, RefreshOver
<1> QED BY <1>1, <1>2, <1>3

LEMMA WriteOverType ==
    ASSUME TypeOK, NEW w \in Writers, NEW outcome \in {"idle", "sending"}, WriteOver(w, outcome)
    PROVE  /\ rpc' \in [Clients -> {"none", "spending", "rotated", "writing"}]
           /\ rtok' \in [Clients -> Tokens \cup {None}]
           /\ pc' \in [Callers -> {"idle", "reading", "resuming", "waiting", "sending"}]
           /\ forced' \in [Callers -> BOOLEAN]
           /\ lpc' \in [Logins -> {"none", "pending", "writing", "over"}]
           /\ wpc' \in [Writers -> {"none", "opening", "filling", "renaming", "cleaning"}]
           /\ rec' \in [Writers -> Records \cup {None}]
<1>1. wpc' \in [Writers -> {"none", "opening", "filling", "renaming", "cleaning"}] /\ rec' \in [Writers -> Records \cup {None}]
  BY DEF TypeOK, WriteOver
<1>2. CASE w \in Clients
  BY <1>1, <1>2, RefreshOverType DEF WriteOver, TypeOK
<1>3. CASE w \notin Clients
  BY <1>1, <1>3 DEF WriteOver, TypeOK, Writers, refreshVars
<1> QED BY <1>2, <1>3

LEMMA DroppedType ==
    ASSUME TypeOK, NEW S \in SUBSET Tokens
    PROVE  Dropped(S) \in SUBSET Tokens
BY DEF Dropped, TypeOK

LEMMA TokenOfType ==
    ASSUME TypeOK, NEW content
    PROVE  TokenOf(content) \in SUBSET Tokens
<1>1. \A w \in Writers : rec[w] # None => rec[w] \in Records /\ rec[w].token \in Tokens
  BY DEF TypeOK, Records
<1>2. content \in Records => content.token \in Tokens
  BY DEF Records
<1>3. content \in [by : Writers] => content.by \in Writers
  OBVIOUS
<1> QED BY <1>1, <1>2, <1>3 DEF TokenOf

LEMMA TypeStep == Sane /\ [Next]_vars => TypeOK'
<1> SUFFICES ASSUME TypeOK, Phases, [Next]_vars PROVE TypeOK'
  BY DEF Sane
<1> USE DEF callerVars, refreshVars, writeVars
<1>0. CASE UNCHANGED vars
  BY <1>0 DEF TypeOK, vars
<1>1. ASSUME NEW c \in Callers, Get(c) \/ ReadAgain(c) PROVE TypeOK'
  <2>1. file \in Records => file.token \in Tokens
    BY DEF Records
  <2> QED BY <1>1, <2>1 DEF TypeOK, Get, ReadAgain, Read
<1>2. ASSUME NEW c \in Callers, UseStored(c) \/ Answered(c) PROVE TypeOK'
  BY <1>2 DEF TypeOK, UseStored, Answered
<1>3. ASSUME NEW c \in Callers, AwaitRefresh(c) PROVE TypeOK'
  BY <1>3, ConstantsAssumption DEF TypeOK, AwaitRefresh
<1>4. ASSUME NEW p \in Clients, Spend(p) PROVE TypeOK'
  <2>1. PICK v \in {live[rtok[p][1]] + 1} \cup (IF MayKeep THEN {live[rtok[p][1]]} ELSE {}) :
           /\ v <= MaxVersion
           /\ live' = [live EXCEPT ![rtok[p][1]] = v]
           /\ rtok' = [rtok EXCEPT ![p] = <<rtok[p][1], v>>]
           /\ rtok[p][2] = live[rtok[p][1]]
    BY <1>4 DEF Spend
  <2>2. rtok[p] \in Tokens /\ rpc' \in [Clients -> {"none", "spending", "rotated", "writing"}]
    BY <1>4 DEF TypeOK, Spend, Phases, CallerPhases, ClientPhases, LoginPhases, WriterPhases
  <2>3. live' \in [Logins -> 0..MaxVersion]
    <3>1. ASSUME NEW l \in Logins PROVE live'[l] \in 0..MaxVersion
      BY <2>1, ConstantsAssumption DEF TypeOK
    <3> QED BY <2>1, <3>1 DEF TypeOK
  <2>4. rtok' \in [Clients -> Tokens \cup {None}]
    BY <2>1, <2>2, ConstantsAssumption DEF TypeOK, Tokens
  <2> QED BY <1>4, <2>2, <2>3, <2>4 DEF TypeOK, Spend
<1>5. ASSUME NEW p \in Clients, Refused(p) PROVE TypeOK'
  BY <1>5, RefreshOverType DEF TypeOK, Refused
<1>6. ASSUME NEW p \in Clients, AnswerLost(p) PROVE TypeOK'
  BY <1>6, RefreshOverType DEF TypeOK, AnswerLost, Phases, CallerPhases, ClientPhases, LoginPhases, WriterPhases
<1>7. ASSUME NEW p \in Clients, ReadBack(p) PROVE TypeOK'
  <2>1. rtok[p] \in Tokens
    BY <1>7 DEF ReadBack, TypeOK, Phases, CallerPhases, ClientPhases, LoginPhases, WriterPhases
  <2>2. CASE file \in Records \cup {None}
    <3>1. (IF file = None THEN None ELSE file.who) \in Logins \cup {None}
      BY <2>2 DEF Records
    <3>2. [token |-> rtok[p], who |-> IF file = None THEN None ELSE file.who] \in Records
      BY <2>1, <3>1 DEF Records
    <3> QED BY <1>7, <2>1, <2>2, <3>2 DEF TypeOK, ReadBack
  <2>3. CASE file \notin Records \cup {None}
    BY <1>7, <2>1, <2>3, RefreshOverType DEF TypeOK, ReadBack
  <2> QED BY <2>2, <2>3
<1>8. ASSUME NEW p \in Clients, Crash(p) PROVE TypeOK'
  <2> DEFINE mine == {w \in Writers : Owner(w) = p}
             became(content) == IF content \in [by : mine] THEN Torn ELSE content
             S == {rec[w].token : w \in {v \in mine : rec[v] # None}}
                    \cup (IF rpc[p] = "rotated" THEN {rtok[p]} ELSE {})
  <2>1. S \in SUBSET Tokens
    <3>1. \A w \in mine : rec[w] # None => rec[w].token \in Tokens
      BY DEF TypeOK, Records
    <3>2. rpc[p] = "rotated" => rtok[p] \in Tokens
      BY DEF TypeOK, Phases, CallerPhases, ClientPhases, LoginPhases, WriterPhases
    <3> QED BY <3>1, <3>2
  <2>2. lost' \in SUBSET Tokens
    <3>1. lost' = Dropped(S)
      BY <1>8 DEF Crash
    <3> HIDE DEF S
    <3> QED BY <2>1, <3>1, DroppedType
  <2>3. \A content \in Contents \cup {None} : became(content) \in Contents \cup {None}
    BY DEF Contents
  <2>4. file' \in Contents \cup {None} /\ temp' \in [Clients -> Contents \cup {None}]
    <3>1. file' = became(file) /\ temp' \in {[temp EXCEPT ![p] = became(@)], [temp EXCEPT ![p] = None]}
      BY <1>8 DEF Crash
    <3> HIDE DEF became
    <3> QED BY <2>3, <3>1 DEF TypeOK
  <2>5. /\ pc' \in [Callers -> {"idle", "reading", "resuming", "waiting", "sending"}]
        /\ forced' \in [Callers -> BOOLEAN] /\ snap' \in [Callers -> Tokens \cup {None}]
    BY <1>8 DEF TypeOK, Crash
  <2>6. /\ rpc' \in [Clients -> {"none", "spending", "rotated", "writing"}]
        /\ rtok' \in [Clients -> Tokens \cup {None}]
        /\ lpc' \in [Logins -> {"none", "pending", "writing", "over"}]
    BY <1>8 DEF TypeOK, Crash
  <2>7. /\ wpc' \in [Writers -> {"none", "opening", "filling", "renaming", "cleaning"}]
        /\ rec' \in [Writers -> Records \cup {None}]
    BY <1>8 DEF TypeOK, Crash
  <2> QED BY <1>8, <2>2, <2>4, <2>5, <2>6, <2>7 DEF TypeOK, Crash
<1>9. ASSUME NEW w \in Writers, OpenTemp(w) PROVE TypeOK'
  BY <1>9, OwnerIsClient DEF TypeOK, OpenTemp, Contents
<1>10. ASSUME NEW w \in Writers, FillTemp(w) PROVE TypeOK'
  <2>1. rec[w] \in Contents /\ Torn \in Contents
    BY <1>10 DEF FillTemp, TypeOK, Phases, CallerPhases, ClientPhases, LoginPhases, WriterPhases, Contents
  <2>2. file' \in Contents \cup {None} /\ temp' \in [Clients -> Contents \cup {None}]
    BY <1>10, <2>1, FillType DEF FillTemp
  <2> QED BY <1>10, <2>2 DEF TypeOK, FillTemp
<1>11. ASSUME NEW w \in Writers, RenameTemp(w) PROVE TypeOK'
  BY <1>11, OwnerIsClient, WriteOverType DEF TypeOK, RenameTemp
<1>12. ASSUME NEW w \in Writers, CleanUp(w) PROVE TypeOK'
  <2>1. rec[w].token \in Tokens
    BY <1>12 DEF CleanUp, TypeOK, Phases, CallerPhases, ClientPhases, LoginPhases, WriterPhases, Records
  <2>2. lost' \in SUBSET Tokens
    BY <1>12, <2>1, TokenOfType, DroppedType DEF CleanUp
  <2>3. WriteOver(w, "idle") /\ temp' \in [Clients -> Contents \cup {None}]
    BY <1>12, OwnerIsClient DEF CleanUp, TypeOK
  <2>4. UNCHANGED <<file, live, snap>>
    BY <1>12 DEF CleanUp
  <2> QED BY <2>2, <2>3, <2>4, WriteOverType DEF TypeOK
<1>13. ASSUME NEW l \in Logins, BeginLogin(l) PROVE TypeOK'
  BY <1>13 DEF TypeOK, BeginLogin
<1>14. ASSUME NEW l \in Logins, Callback(l) PROVE TypeOK'
  <2>1. l \in Writers /\ [token |-> <<l, 1>>, who |-> Identity(l)] \in Records /\ 1 \in 0..MaxVersion
    BY IdentityIsWho, ConstantsAssumption DEF Records, Tokens, Writers
  <2> QED BY <1>14, <2>1 DEF TypeOK, Callback
<1> QED BY <1>0, <1>1, <1>2, <1>3, <1>4, <1>5, <1>6, <1>7, <1>8, <1>9, <1>10, <1>11, <1>12, <1>13, <1>14
        DEF Next

\* A refresh that ends leaves its client with nothing in hand.
LEMMA RefreshOverPhases ==
    ASSUME Sane, NEW p \in Clients, NEW outcome \in {"idle", "sending"}, RefreshOver(p, outcome), snap' = snap
    PROVE  /\ \A c \in Callers : snap'[c] # None <=> pc'[c] = "resuming"
           /\ \A q \in Clients : rtok'[q] # None <=> rpc'[q] # "none"
           /\ \A q \in Clients \ {p} : rpc'[q] = rpc[q]
           /\ rpc'[p] = "none"
<1>1. \A c \in Callers : snap'[c] # None <=> pc'[c] = "resuming"
  BY DEF Sane, Phases, CallerPhases, ClientPhases, LoginPhases, WriterPhases, RefreshOver, Settled, TypeOK
<1>2. /\ \A q \in Clients : rtok'[q] # None <=> rpc'[q] # "none"
      /\ \A q \in Clients \ {p} : rpc'[q] = rpc[q]
      /\ rpc'[p] = "none"
  BY DEF Sane, Phases, CallerPhases, ClientPhases, LoginPhases, WriterPhases, RefreshOver, TypeOK
<1> QED BY <1>1, <1>2

\* So does a write.
LEMMA WriteOverPhases ==
    ASSUME Sane, NEW w \in Writers, wpc[w] # "none", NEW outcome \in {"idle", "sending"}, WriteOver(w, outcome),
           live' = live, snap' = snap
    PROVE  Phases'
<1>1. \A v \in Writers : /\ v # w => rec'[v] = rec[v] /\ wpc'[v] = wpc[v]
                         /\ v = w => rec'[v] = None /\ wpc'[v] = "none"
  BY DEF WriteOver, Sane, TypeOK
<1>2. CASE w \in Clients
  <2>1. RefreshOver(w, outcome) /\ lpc' = lpc
    BY <1>2 DEF WriteOver
  <2>2. \A l \in Logins : l # w /\ l \in Writers
    BY <1>2, ConstantsAssumption DEF Writers
  <2>3. \A p \in Clients : p \in Writers
    BY DEF Writers
  <2>4. \A c \in Callers : snap'[c] # None <=> pc'[c] = "resuming"
    BY <1>2, <2>1, RefreshOverPhases
  <2>5. \A q \in Clients : rtok'[q] # None <=> rpc'[q] # "none"
    BY <1>2, <2>1, RefreshOverPhases
  <2>6. \A q \in Clients : rec'[q] # None <=> rpc'[q] = "writing"
    BY <1>1, <1>2, <2>1, <2>3, RefreshOverPhases DEF Sane, Phases, CallerPhases, ClientPhases, LoginPhases, WriterPhases
  <2>7. \A l \in Logins : /\ rec'[l] # None <=> lpc'[l] = "writing"
                          /\ lpc'[l] \in {"none", "pending"} => live'[l] = 0
    BY <1>1, <2>1, <2>2 DEF Sane, Phases, CallerPhases, ClientPhases, LoginPhases, WriterPhases
  <2>8. \A v \in Writers : rec'[v] # None <=> wpc'[v] # "none"
    BY <1>1 DEF Sane, Phases, CallerPhases, ClientPhases, LoginPhases, WriterPhases
  <2>9. CallerPhases' /\ ClientPhases'
    BY <2>4, <2>5, <2>6 DEF CallerPhases, ClientPhases
  <2>10. LoginPhases' /\ WriterPhases'
    BY <2>7, <2>8 DEF LoginPhases, WriterPhases
  <2> QED BY <2>9, <2>10 DEF Phases
<1>3. CASE w \notin Clients
  <2>1. w \in Logins /\ \A p \in Clients : p # w /\ p \in Writers
    BY <1>3 DEF Writers
  <2>2. lpc' = [lpc EXCEPT ![w] = "over"] /\ UNCHANGED <<pc, rpc, rtok>>
    BY <1>3 DEF WriteOver, refreshVars
  <2>3. \A l \in Logins : l \in Writers
    BY DEF Writers
  <2> QED BY <1>1, <2>1, <2>2, <2>3 DEF Phases, CallerPhases, ClientPhases, LoginPhases, WriterPhases, Sane, TypeOK
<1> QED BY <1>2, <1>3

LEMMA PhasesStep == Sane /\ [Next]_vars => Phases'
<1> SUFFICES ASSUME Sane, [Next]_vars PROVE Phases'
  OBVIOUS
<1> USE DEF callerVars, refreshVars, writeVars
<1>w. Clients \subseteq Writers /\ Logins \subseteq Writers /\ Clients \cap Logins = {}
  BY ConstantsAssumption DEF Writers
<1>t. TypeOK /\ Phases /\ None \notin Tokens /\ None \notin Records
  BY ConstantsAssumption DEF Sane, Contents
<1>0. CASE UNCHANGED vars
  BY <1>0, <1>t DEF Phases, CallerPhases, ClientPhases, LoginPhases, WriterPhases, vars
<1>1. ASSUME NEW c \in Callers, Get(c) \/ ReadAgain(c) PROVE Phases'
  <2>1. file \in Records => file.token \in Tokens
    BY DEF Records
  <2> QED BY <1>1, <1>t, <2>1 DEF Phases, CallerPhases, ClientPhases, LoginPhases, WriterPhases, TypeOK, Get, ReadAgain, Read
<1>2. ASSUME NEW c \in Callers, UseStored(c) \/ Answered(c) PROVE Phases'
  BY <1>2, <1>t DEF Phases, CallerPhases, ClientPhases, LoginPhases, WriterPhases, TypeOK, UseStored, Answered
<1>3. ASSUME NEW c \in Callers, AwaitRefresh(c) PROVE Phases'
  BY <1>3, <1>t, ConstantsAssumption DEF Phases, CallerPhases, ClientPhases, LoginPhases, WriterPhases, TypeOK, AwaitRefresh
<1>4. ASSUME NEW p \in Clients, Spend(p) PROVE Phases'
  <2>1. PICK v \in {live[rtok[p][1]] + 1} \cup (IF MayKeep THEN {live[rtok[p][1]]} ELSE {}) :
           /\ v <= MaxVersion
           /\ live' = [live EXCEPT ![rtok[p][1]] = v]
           /\ rtok' = [rtok EXCEPT ![p] = <<rtok[p][1], v>>]
           /\ rtok[p][2] = live[rtok[p][1]]
    BY <1>4 DEF Spend
  <2>2. rtok[p] \in Tokens
    BY <1>4, <1>t DEF TypeOK, Spend, Phases, CallerPhases, ClientPhases, LoginPhases, WriterPhases
  <2>3. \A l \in Logins : lpc[l] \in {"none", "pending"} => live'[l] = 0
    BY <1>t, <2>1, <2>2 DEF Tokens, Phases, CallerPhases, ClientPhases, LoginPhases, WriterPhases, TypeOK
  <2>4. <<rtok[p][1], v>> \in Tokens
    BY <1>t, <2>1, <2>2, ConstantsAssumption DEF Tokens, TypeOK
  <2>5. \A q \in Clients : rtok'[q] # None <=> rpc'[q] # "none"
    BY <1>4, <1>t, <2>1, <2>4 DEF TypeOK, Spend, Phases, CallerPhases, ClientPhases, LoginPhases, WriterPhases
  <2>6. \A q \in Clients : rec'[q] # None <=> rpc'[q] = "writing"
    BY <1>4, <1>t DEF TypeOK, Spend, Phases, CallerPhases, ClientPhases, LoginPhases, WriterPhases
  <2> QED BY <1>4, <1>t, <2>3, <2>5, <2>6 DEF Phases, CallerPhases, ClientPhases, LoginPhases, WriterPhases, Spend
<1>5. ASSUME NEW p \in Clients, Refused(p) \/ AnswerLost(p) PROVE Phases'
  <2>1. RefreshOver(p, "idle") /\ snap' = snap /\ UNCHANGED <<live, lpc, wpc, rec>> /\ rpc[p] \in {"spending", "rotated"}
    BY <1>5 DEF Refused, AnswerLost
  <2> QED BY <1>t, <2>1, RefreshOverPhases DEF Phases, CallerPhases, ClientPhases, LoginPhases, WriterPhases
<1>7. ASSUME NEW p \in Clients, ReadBack(p) PROVE Phases'
  <2>2. CASE file \in Records \cup {None}
    <3>1. rec' = [rec EXCEPT ![p] = [token |-> rtok[p], who |-> IF file = None THEN None ELSE file.who]]
      BY <1>7, <2>2 DEF ReadBack
    <3>2. (IF file = None THEN None ELSE file.who) \in Logins \cup {None} /\ rtok[p] \in Tokens
      BY <1>7, <1>t, <2>2 DEF Records, ReadBack, Phases, CallerPhases, ClientPhases, LoginPhases, WriterPhases, TypeOK
    <3>3. rec'[p] \in Records
      BY <1>t, <1>w, <3>1, <3>2 DEF Records, TypeOK
    <3>4. rec'[p] # None /\ \A w \in Writers \ {p} : rec'[w] = rec[w]
      BY <1>t, <3>1, <3>3 DEF TypeOK
    <3> QED BY <1>7, <1>t, <1>w, <2>2, <3>4 DEF TypeOK, ReadBack, Phases, CallerPhases, ClientPhases, LoginPhases, WriterPhases
  <2>3. CASE file \notin Records \cup {None}
    <3>1. /\ RefreshOver(p, "idle") /\ snap' = snap /\ UNCHANGED <<live, lpc, wpc, rec>>
          /\ rpc[p] \in {"spending", "rotated"}
      BY <1>7, <2>3 DEF ReadBack
    <3> QED BY <1>t, <3>1, RefreshOverPhases DEF Phases, CallerPhases, ClientPhases, LoginPhases, WriterPhases
  <2> QED BY <2>2, <2>3
<1>8. ASSUME NEW p \in Clients, Crash(p) PROVE Phases'
  <2>1. \A w \in Writers : /\ Owner(w) = p => rec'[w] = None /\ wpc'[w] = "none"
                           /\ Owner(w) # p => rec'[w] = rec[w] /\ wpc'[w] = wpc[w]
    BY <1>8 DEF Crash
  <2>2. \A q \in Clients : Owner(q) = q
    BY DEF Owner
  <2>3. \A l \in Logins : Owner(l) = Service
    BY <1>w DEF Owner
  <2>4. \A c \in Callers : snap'[c] # None <=> pc'[c] = "resuming"
    BY <1>8, <1>t DEF Crash, Phases, CallerPhases, ClientPhases, LoginPhases, WriterPhases
  <2>5. \A q \in Clients : /\ rtok'[q] # None <=> rpc'[q] # "none"
                           /\ rec'[q] # None <=> rpc'[q] = "writing"
    BY <1>8, <1>t, <1>w, <2>1, <2>2 DEF Crash, Phases, CallerPhases, ClientPhases, LoginPhases, WriterPhases, TypeOK
  <2>6. \A l \in Logins : /\ rec'[l] # None <=> lpc'[l] = "writing"
                          /\ lpc'[l] \in {"none", "pending"} => live'[l] = 0
    BY <1>8, <1>t, <1>w, <2>1, <2>3 DEF Crash, Phases, CallerPhases, ClientPhases, LoginPhases, WriterPhases, TypeOK
  <2>7. WriterPhases'
    BY <1>t, <2>1 DEF Phases, WriterPhases
  <2>8. CallerPhases' /\ ClientPhases'
    BY <2>4, <2>5 DEF CallerPhases, ClientPhases
  <2>9. LoginPhases'
    BY <2>6 DEF LoginPhases
  <2> QED BY <2>7, <2>8, <2>9 DEF Phases
<1>9. ASSUME NEW w \in Writers, OpenTemp(w) \/ FillTemp(w) PROVE Phases'
  BY <1>9, <1>t DEF TypeOK, OpenTemp, FillTemp, Phases, CallerPhases, ClientPhases, LoginPhases, WriterPhases
<1>11. ASSUME NEW w \in Writers, RenameTemp(w) PROVE Phases'
  <2>1. CASE temp[Owner(w)] # None
    BY <1>11, <2>1, WriteOverPhases DEF RenameTemp
  <2>2. CASE temp[Owner(w)] = None
    BY <1>11, <1>t, <2>2 DEF RenameTemp, Phases, CallerPhases, ClientPhases, LoginPhases, WriterPhases, TypeOK
  <2> QED BY <2>1, <2>2
<1>12. ASSUME NEW w \in Writers, CleanUp(w) PROVE Phases'
  <2>1. wpc[w] # "none" /\ WriteOver(w, "idle") /\ live' = live /\ snap' = snap
    BY <1>12 DEF CleanUp
  <2> QED BY <2>1, WriteOverPhases
<1>13. ASSUME NEW l \in Logins, BeginLogin(l) PROVE Phases'
  BY <1>13, <1>t, <1>w DEF TypeOK, BeginLogin, Phases, CallerPhases, ClientPhases, LoginPhases, WriterPhases
<1>14. ASSUME NEW l \in Logins, Callback(l) PROVE Phases'
  <2>1. <<l, 1>> \in Tokens
    BY ConstantsAssumption DEF Tokens
  <2>2. [token |-> <<l, 1>>, who |-> Identity(l)] \in Records
    BY <2>1, IdentityIsWho DEF Records
  <2>3. [token |-> <<l, 1>>, who |-> Identity(l)] # None
    BY <1>t, <2>2
  <2> QED BY <1>14, <1>t, <1>w, <2>3 DEF TypeOK, Callback, Phases, CallerPhases, ClientPhases, LoginPhases, WriterPhases
<1> QED BY <1>0, <1>1, <1>2, <1>3, <1>4, <1>5, <1>7, <1>8, <1>9, <1>11, <1>12, <1>13, <1>14 DEF Next

-------------------------------------------------------------------------------
(* Contents that are being written *)

\* What w is filling is in the file or in the temporary of its process, if at all.
Filling ==
    \A w \in Writers :
       /\ file = [by |-> w] => wpc[w] = "filling" /\ temp[Owner(w)] # [by |-> w]
       /\ \A p \in Clients : temp[p] = [by |-> w] => p = Owner(w) /\ wpc[w] = "filling"

\* A step that writes nothing leaves what is being filled alone.
LEMMA FillingKept ==
    ASSUME Filling, UNCHANGED <<file, temp>>, \A w \in Writers : wpc[w] = "filling" => wpc'[w] = "filling"
    PROVE  Filling'
BY DEF Filling

LEMMA FillingStep == Sane /\ Filling /\ [Next]_vars => Filling'
<1> SUFFICES ASSUME Sane, Filling, [Next]_vars PROVE Filling'
  OBVIOUS
<1> USE DEF callerVars, refreshVars, writeVars
<1>t. /\ TypeOK /\ Phases /\ WriterPhases
  BY DEF Sane, Phases
<1>o. \A w \in Writers : Owner(w) \in Clients
  BY OwnerIsClient
<1>0. CASE UNCHANGED vars
  BY <1>0, FillingKept DEF vars
<1>1. ASSUME NEW c \in Callers, Get(c) \/ ReadAgain(c) \/ UseStored(c) \/ AwaitRefresh(c) \/ Answered(c)
      PROVE  Filling'
  BY <1>1, FillingKept DEF Get, ReadAgain, Read, UseStored, AwaitRefresh, Answered
<1>2. ASSUME NEW p \in Clients, Spend(p) \/ Refused(p) \/ AnswerLost(p) PROVE Filling'
  BY <1>2, FillingKept DEF Spend, Refused, AnswerLost
<1>3. ASSUME NEW p \in Clients, ReadBack(p) PROVE Filling'
  <2>1. UNCHANGED <<file, temp>> /\ rpc[p] = "rotated" /\ wpc' \in {wpc, [wpc EXCEPT ![p] = "opening"]}
    BY <1>3 DEF ReadBack
  <2>2. rec[p] = None /\ p \in Writers
    BY <1>t, <2>1 DEF Phases, ClientPhases, Writers
  <2>3. wpc[p] # "filling"
    BY <1>t, <2>2 DEF WriterPhases
  <2> QED BY <1>t, <2>1, <2>3, FillingKept DEF TypeOK
<1>4. ASSUME NEW l \in Logins, BeginLogin(l) PROVE Filling'
  BY <1>4, FillingKept DEF BeginLogin
<1>5. ASSUME NEW l \in Logins, Callback(l) PROVE Filling'
  <2>1. UNCHANGED <<file, temp>> /\ lpc[l] = "pending" /\ wpc' \in {wpc, [wpc EXCEPT ![l] = "opening"]}
    BY <1>5 DEF Callback
  <2>2. rec[l] = None /\ l \in Writers
    BY <1>t, <2>1 DEF Phases, LoginPhases, Writers
  <2>3. wpc[l] # "filling"
    BY <1>t, <2>2 DEF WriterPhases
  <2> QED BY <1>t, <2>1, <2>3, FillingKept DEF TypeOK
<1>6. ASSUME NEW p \in Clients, Crash(p) PROVE Filling'
  <2> DEFINE mine == {w \in Writers : Owner(w) = p}
  <2>1. \A w \in Writers : file' = [by |-> w] => file = [by |-> w] /\ Owner(w) # p
    <3>1. file' = IF file \in [by : mine] THEN Torn ELSE file
      BY <1>6 DEF Crash
    <3>2. \A w \in Writers : Owner(w) = p => [by |-> w] \in [by : mine]
      OBVIOUS
    <3>3. \A w \in Writers : Torn # [by |-> w]
      BY Kinds
    <3> QED BY <3>1, <3>2, <3>3
  <2>2. \A w \in Writers, q \in Clients : temp'[q] = [by |-> w] => temp[q] = [by |-> w] /\ Owner(w) # p
    <3> SUFFICES ASSUME NEW w \in Writers, NEW q \in Clients, temp'[q] = [by |-> w]
                 PROVE  temp[q] = [by |-> w] /\ Owner(w) # p
      OBVIOUS
    <3>1. temp' \in {[temp EXCEPT ![p] = IF temp[p] \in [by : mine] THEN Torn ELSE temp[p]],
                     [temp EXCEPT ![p] = None]}
      BY <1>6 DEF Crash
    <3>2. [by |-> w] # Torn /\ [by |-> w] # None
      BY Kinds
    <3>3. CASE q = p
      <4>1. temp[p] = [by |-> w] /\ temp[p] \notin [by : mine]
        BY <1>t, <3>1, <3>2, <3>3 DEF TypeOK
      <4> QED BY <3>3, <4>1
    <3>4. CASE q # p
      BY <1>t, <3>1, <3>4 DEF TypeOK, Filling
    <3> QED BY <3>3, <3>4
  <2>3. \A w \in Writers : Owner(w) # p => wpc'[w] = wpc[w]
    BY <1>6 DEF Crash
  <2> QED BY <1>o, <2>1, <2>2, <2>3 DEF Filling
<1>7. ASSUME NEW w \in Writers, OpenTemp(w) PROVE Filling'
  <2>1. CASE temp[Owner(w)] = None
    <3>1. /\ temp' = [temp EXCEPT ![Owner(w)] = [by |-> w]] /\ wpc' = [wpc EXCEPT ![w] = "filling"]
          /\ file' = file /\ wpc[w] = "opening"
      BY <1>7, <2>1 DEF OpenTemp
    <3>2. \A v \in Writers : [by |-> v] = [by |-> w] => v = w
      BY Kinds
    <3>3. ASSUME NEW v \in Writers, v # w
          PROVE  /\ file' = [by |-> v] => wpc'[v] = "filling" /\ temp'[Owner(v)] # [by |-> v]
                 /\ \A p \in Clients : temp'[p] = [by |-> v] => p = Owner(v) /\ wpc'[v] = "filling"
      BY <1>t, <1>o, <3>1, <3>2, <3>3 DEF Filling, TypeOK
    <3>4. /\ file' # [by |-> w]
          /\ \A p \in Clients : temp'[p] = [by |-> w] => p = Owner(w) /\ wpc'[w] = "filling"
      BY <1>t, <1>o, <3>1 DEF Filling, TypeOK
    <3> QED BY <3>3, <3>4 DEF Filling
  <2>2. CASE temp[Owner(w)] # None
    BY <1>7, <1>t, <2>2, FillingKept DEF OpenTemp, TypeOK
  <2> QED BY <2>1, <2>2
<1>8. ASSUME NEW w \in Writers, FillTemp(w) PROVE Filling'
  <2>1. PICK filled \in {rec[w], Torn} : Fill(w, filled)
    BY <1>8 DEF FillTemp
  <2>2. filled \in Records \cup {Torn}
    BY <1>8, <1>t DEF FillTemp, WriterPhases, TypeOK
  <2>3. \A v \in Writers : filled # [by |-> v] /\ ([by |-> v] = [by |-> w] => v = w)
    BY <2>2, Kinds
  <2>4. \A v \in Writers : file' = [by |-> v] => file = [by |-> v] /\ v # w
    BY <2>1, <2>3 DEF Fill
  <2>5. \A v \in Writers, p \in Clients : temp'[p] = [by |-> v] => temp[p] = [by |-> v] /\ v # w
    BY <2>1, <2>3 DEF Fill
  <2>6. \A v \in Writers : v # w => wpc'[v] = wpc[v]
    BY <1>8, <1>t DEF FillTemp, TypeOK
  <2> QED BY <1>o, <2>4, <2>5, <2>6 DEF Filling
<1>9. ASSUME NEW w \in Writers, RenameTemp(w) \/ CleanUp(w) PROVE Filling'
  <2>1. CASE RenameTemp(w) /\ temp[Owner(w)] = None
    BY <1>t, <2>1, FillingKept DEF RenameTemp, TypeOK
  <2>2. CASE ~(RenameTemp(w) /\ temp[Owner(w)] = None)
    <3>1. /\ file' \in {file, temp[Owner(w)]} /\ temp' = [temp EXCEPT ![Owner(w)] = None]
          /\ wpc' = [wpc EXCEPT ![w] = "none"] /\ wpc[w] # "filling"
      BY <1>9, <2>2 DEF RenameTemp, CleanUp, WriteOver
    <3>2. \A v \in Writers : [by |-> v] # None
      BY Kinds
    <3>3. \A v \in Writers, p \in Clients : temp'[p] = [by |-> v] => temp[p] = [by |-> v] /\ p # Owner(w)
      BY <1>t, <1>o, <3>1, <3>2 DEF TypeOK
    <3>4. \A v \in Writers : wpc[v] = "filling" => wpc'[v] = "filling"
      BY <1>t, <3>1 DEF TypeOK
    <3>5. ASSUME NEW v \in Writers, file' = [by |-> v]
          PROVE  wpc'[v] = "filling" /\ temp'[Owner(v)] # [by |-> v]
      <4>1. CASE file' = file
        BY <1>o, <3>3, <3>4, <3>5, <4>1 DEF Filling
      <4>2. CASE file' = temp[Owner(w)]
        <5>1. Owner(v) = Owner(w) /\ wpc[v] = "filling"
          BY <1>o, <3>5, <4>2 DEF Filling
        <5> QED BY <1>o, <3>3, <3>4, <5>1
      <4> QED BY <3>1, <4>1, <4>2
    <3> QED BY <3>3, <3>4, <3>5 DEF Filling
  <2> QED BY <2>1, <2>2
<1> QED BY <1>0, <1>1, <1>2, <1>3, <1>4, <1>5, <1>6, <1>7, <1>8, <1>9 DEF Next

-------------------------------------------------------------------------------
(* Whose session it is *)

\* Some login has been made whose token named nobody.
Unnamed == \E l \in Nameless : live[l] # 0

\* Every record there is names its login, unless some login named nobody, and
\* before there is a file nobody has read a token.
WhoIsKnown ==
    /\ file \in Records => file.who # None \/ Unnamed
    /\ \A p \in Clients : temp[p] \in Records => temp[p].who # None \/ Unnamed
    /\ \A w \in Writers : rec[w] # None => rec[w].who # None \/ Unnamed
    /\ file = None => /\ \A c \in Callers : snap[c] = None
                      /\ \A p \in Clients : rtok[p] = None

\* What EVE has accepted once it never forgets: only a login or a rotation
\* changes the live version, and neither makes it 0.
LEMMA UnnamedStays == TypeOK /\ Unnamed /\ [Next]_vars => Unnamed'
<1> SUFFICES ASSUME TypeOK, Unnamed, [Next]_vars PROVE Unnamed'
  OBVIOUS
<1>1. PICK n \in Nameless : live[n] # 0
  BY DEF Unnamed
<1>2. n \in Logins /\ live \in [Logins -> 0..MaxVersion]
  BY ConstantsAssumption DEF TypeOK
<1>3. CASE live' = live
  BY <1>1, <1>3 DEF Unnamed
<1>4. ASSUME NEW p \in Clients, Spend(p) PROVE Unnamed'
  <2>1. PICK l, v : v \in {live[l] + 1, live[l]} /\ v <= MaxVersion /\ live' = [live EXCEPT ![l] = v]
    BY <1>4 DEF Spend
  <2>2. live'[n] # 0
    BY <1>1, <1>2, <2>1
  <2> QED BY <2>2 DEF Unnamed
<1>5. ASSUME NEW l \in Logins, Callback(l) PROVE Unnamed'
  <2>1. live' \in {live, [live EXCEPT ![l] = 1]}
    BY <1>5 DEF Callback
  <2>2. live'[n] # 0
    BY <1>1, <1>2, <2>1
  <2> QED BY <2>2 DEF Unnamed
<1>6. CASE UNCHANGED vars
  BY <1>3, <1>6 DEF vars
<1>7. ASSUME NEW c \in Callers, Get(c) \/ ReadAgain(c) \/ UseStored(c) \/ AwaitRefresh(c) \/ Answered(c)
      PROVE  Unnamed'
  BY <1>3, <1>7 DEF Get, ReadAgain, Read, UseStored, AwaitRefresh, Answered
<1>8. ASSUME NEW p \in Clients, Refused(p) \/ AnswerLost(p) \/ ReadBack(p) \/ Crash(p) PROVE Unnamed'
  BY <1>3, <1>8 DEF Refused, AnswerLost, ReadBack, Crash
<1>9. ASSUME NEW w \in Writers, OpenTemp(w) \/ FillTemp(w) \/ RenameTemp(w) \/ CleanUp(w) PROVE Unnamed'
  BY <1>3, <1>9 DEF OpenTemp, FillTemp, RenameTemp, CleanUp
<1>10. ASSUME NEW l \in Logins, BeginLogin(l) PROVE Unnamed'
  BY <1>3, <1>10 DEF BeginLogin
<1> QED BY <1>4, <1>5, <1>6, <1>7, <1>8, <1>9, <1>10 DEF Next

\* A step that makes no record, and reads no token that was not read, keeps it.
LEMMA WhoKept ==
    ASSUME WhoIsKnown, Unnamed => Unnamed',
           file' \in Records \cup {None} => file' = file,
           \A p \in Clients : temp'[p] \in Records => temp'[p] = temp[p],
           \A w \in Writers : rec'[w] # None => rec'[w] = rec[w],
           \A c \in Callers : file = None /\ snap[c] = None => snap'[c] = None,
           \A p \in Clients : file = None /\ rtok[p] = None /\ (\A c \in Callers : snap[c] = None) => rtok'[p] = None
    PROVE  WhoIsKnown'
BY DEF WhoIsKnown

LEMMA WhoStep == Sane /\ Filling /\ WhoIsKnown /\ [Next]_vars => WhoIsKnown'
<1> SUFFICES ASSUME Sane, Filling, WhoIsKnown, [Next]_vars PROVE WhoIsKnown'
  OBVIOUS
<1> USE DEF callerVars, refreshVars, writeVars
<1>t. /\ TypeOK /\ Phases /\ WriterPhases /\ ClientPhases
  BY DEF Sane, Phases
<1>k. Torn \notin Records /\ None \notin Records /\ Torn # None
  BY ConstantsAssumption DEF Contents
<1>o. \A w \in Writers : Owner(w) \in Clients
  BY OwnerIsClient
<1>u. Unnamed => Unnamed'
  BY <1>t, UnnamedStays
<1>0. CASE UNCHANGED vars
  BY <1>u, <1>0, WhoKept DEF vars
<1>1. ASSUME NEW c \in Callers, Get(c) \/ ReadAgain(c) PROVE WhoIsKnown'
  <2>1. UNCHANGED <<file, temp, rec, rtok>> /\ (file = None => snap' = snap)
    BY <1>1, <1>k DEF Get, ReadAgain, Read
  <2> QED BY <1>u, <2>1, WhoKept
<1>2. ASSUME NEW c \in Callers, UseStored(c) \/ Answered(c) PROVE WhoIsKnown'
  BY <1>u, <1>2, <1>t, WhoKept DEF UseStored, Answered, TypeOK
<1>3. ASSUME NEW c \in Callers, AwaitRefresh(c) PROVE WhoIsKnown'
  <2>1. UNCHANGED <<file, temp, rec>> /\ snap' = [snap EXCEPT ![c] = None]
    BY <1>3 DEF AwaitRefresh
  <2>2. rtok' \in {rtok, [rtok EXCEPT ![ClientOf[c]] = snap[c]]}
    BY <1>3 DEF AwaitRefresh
  <2>3. \A d \in Callers : snap[d] = None => snap'[d] = None
    BY <1>t, <2>1 DEF TypeOK
  <2>4. \A p \in Clients : rtok[p] = None /\ snap[c] = None => rtok'[p] = None
    BY <1>t, <2>2 DEF TypeOK
  <2> QED BY <1>u, <2>1, <2>3, <2>4, WhoKept
<1>4. ASSUME NEW p \in Clients, Spend(p) PROVE WhoIsKnown'
  <2>1. UNCHANGED <<file, temp, rec, snap>> /\ rtok[p] # None
    BY <1>4, <1>t DEF Spend, ClientPhases
  <2>2. file # None
    BY <2>1 DEF WhoIsKnown
  <2> QED BY <1>u, <2>1, <2>2, WhoKept
<1>5. ASSUME NEW p \in Clients, Refused(p) \/ AnswerLost(p) PROVE WhoIsKnown'
  <2>1. UNCHANGED <<file, temp, rec, snap>> /\ rtok' = [rtok EXCEPT ![p] = None]
    BY <1>5 DEF Refused, AnswerLost, RefreshOver
  <2>2. \A q \in Clients : rtok[q] = None => rtok'[q] = None
    BY <1>t, <2>1 DEF TypeOK
  <2> QED BY <1>u, <2>1, <2>2, WhoKept
<1>6. ASSUME NEW p \in Clients, ReadBack(p) PROVE WhoIsKnown'
  <2>1. UNCHANGED <<file, temp, snap>> /\ rpc[p] = "rotated"
    BY <1>6 DEF ReadBack
  <2>2. file # None
    BY <1>t, <2>1 DEF ClientPhases, WhoIsKnown
  <2>3. CASE file \in Records
    <3>1. rec' = [rec EXCEPT ![p] = [token |-> rtok[p], who |-> file.who]] /\ rtok' = rtok
      BY <1>6, <2>2, <2>3 DEF ReadBack
    <3>2. file.who # None \/ Unnamed
      BY <2>3 DEF WhoIsKnown
    <3>3. \A w \in Writers : rec'[w] # None => rec'[w].who # None \/ Unnamed
      BY <1>t, <3>1, <3>2 DEF TypeOK, WhoIsKnown
    <3> QED BY <1>u, <2>1, <2>2, <3>3 DEF WhoIsKnown
  <2>4. CASE file \notin Records
    <3>1. rec' = rec /\ RefreshOver(p, "idle")
      BY <1>6, <2>2, <2>4 DEF ReadBack
    <3> QED BY <1>u, <2>1, <2>2, <3>1, WhoKept
  <2> QED BY <2>3, <2>4
<1>7. ASSUME NEW p \in Clients, Crash(p) PROVE WhoIsKnown'
  <2> DEFINE mine == {w \in Writers : Owner(w) = p}
  <2>1. file' = IF file \in [by : mine] THEN Torn ELSE file
    BY <1>7 DEF Crash
  <2>2. temp' \in {[temp EXCEPT ![p] = IF temp[p] \in [by : mine] THEN Torn ELSE temp[p]],
                   [temp EXCEPT ![p] = None]}
    BY <1>7 DEF Crash
  <2>3. \A q \in Clients : temp'[q] \in Records => temp'[q] = temp[q]
    BY <1>t, <1>k, <2>2 DEF TypeOK
  <2>4. file' \in Records \cup {None} => file' = file
    BY <1>k, <2>1
  <2>5. /\ \A w \in Writers : rec'[w] # None => rec'[w] = rec[w]
        /\ \A c \in Callers : snap[c] = None => snap'[c] = None
        /\ \A q \in Clients : rtok[q] = None => rtok'[q] = None
    BY <1>7, <1>t DEF Crash, TypeOK
  <2> QED BY <1>u, <2>3, <2>4, <2>5, WhoKept
<1>8. ASSUME NEW w \in Writers, OpenTemp(w) PROVE WhoIsKnown'
  <2>1. UNCHANGED <<file, rec, snap, rtok>> /\ temp' \in {temp, [temp EXCEPT ![Owner(w)] = [by |-> w]]}
    BY <1>8 DEF OpenTemp
  <2>2. [by |-> w] \notin Records
    BY Kinds
  <2>3. \A q \in Clients : temp'[q] \in Records => temp'[q] = temp[q]
    BY <1>t, <2>1, <2>2 DEF TypeOK
  <2> QED BY <1>u, <2>1, <2>3, WhoKept
<1>9. ASSUME NEW w \in Writers, FillTemp(w) PROVE WhoIsKnown'
  <2>1. PICK filled \in {rec[w], Torn} : Fill(w, filled)
    BY <1>9 DEF FillTemp
  <2>2. rec[w] # None /\ rec[w] \in Records /\ (rec[w].who # None \/ Unnamed) /\ UNCHANGED <<rec, snap, rtok>>
    BY <1>9, <1>t DEF FillTemp, WriterPhases, TypeOK, WhoIsKnown
  <2>3. filled # None /\ (filled \in Records => filled.who # None \/ Unnamed)
    BY <1>k, <2>2
  <2>4. file' \in {file, filled} /\ (file = None => file' = None)
    BY <2>1, Kinds DEF Fill
  <2>5. \A p \in Clients : temp'[p] \in {temp[p], filled}
    BY <2>1 DEF Fill
  <2> QED BY <1>u, <2>2, <2>3, <2>4, <2>5 DEF WhoIsKnown
<1>10. ASSUME NEW w \in Writers, RenameTemp(w) \/ CleanUp(w) PROVE WhoIsKnown'
  <2>1. CASE RenameTemp(w) /\ temp[Owner(w)] = None
    BY <1>u, <2>1, WhoKept DEF RenameTemp
  <2>2. CASE ~(RenameTemp(w) /\ temp[Owner(w)] = None)
    <3>1. /\ \/ file' = file
             \/ file' = temp[Owner(w)] /\ temp[Owner(w)] # None
          /\ temp' = [temp EXCEPT ![Owner(w)] = None] /\ rec' = [rec EXCEPT ![w] = None]
          /\ snap' = snap /\ rtok' \in {rtok, [rtok EXCEPT ![w] = None]}
      BY <1>10, <2>2 DEF RenameTemp, CleanUp, WriteOver, RefreshOver
    <3>2. /\ \A v \in Writers : rec'[v] # None => rec'[v] = rec[v]
          /\ \A q \in Clients : temp'[q] \in Records => temp'[q] = temp[q]
          /\ \A q \in Clients : rtok[q] = None => rtok'[q] = None
      BY <1>t, <1>k, <1>o, <3>1 DEF TypeOK
    <3> QED BY <1>u, <1>o, <3>1, <3>2 DEF WhoIsKnown
  <2> QED BY <2>1, <2>2
<1>11. ASSUME NEW l \in Logins, BeginLogin(l) PROVE WhoIsKnown'
  BY <1>u, <1>11, WhoKept DEF BeginLogin
<1>12. ASSUME NEW l \in Logins, Callback(l) PROVE WhoIsKnown'
  <2>1. CASE rec' = rec
    <3>1. UNCHANGED <<file, temp, snap, rtok>>
      BY <1>12 DEF Callback
    <3> QED BY <1>u, <2>1, <3>1, WhoKept
  <2>2. CASE rec' # rec
    <3>1. /\ UNCHANGED <<file, temp, snap, rtok>> /\ live' = [live EXCEPT ![l] = 1]
          /\ rec' = [rec EXCEPT ![l] = [token |-> <<l, 1>>, who |-> Identity(l)]]
      BY <1>12, <2>2 DEF Callback
    <3>2. Identity(l) # None \/ Unnamed'
      <4>1. CASE l \in Nameless
        <5>1. live'[l] # 0
          BY <1>t, <3>1 DEF TypeOK
        <5> QED BY <4>1, <5>1 DEF Unnamed
      <4>2. CASE l \notin Nameless
        BY <4>2, ConstantsAssumption DEF Identity
      <4> QED BY <4>1, <4>2
    <3>3. \A w \in Writers : rec'[w] # None => rec'[w].who # None \/ Unnamed'
      BY <1>t, <1>u, <3>1, <3>2 DEF TypeOK, WhoIsKnown
    <3> QED BY <1>u, <3>1, <3>3 DEF WhoIsKnown
  <2> QED BY <2>1, <2>2
<1> QED BY <1>0, <1>1, <1>2, <1>3, <1>4, <1>5, <1>6, <1>7, <1>8, <1>9, <1>10, <1>11, <1>12 DEF Next

-------------------------------------------------------------------------------
(* Tokens nobody has read yet *)

\* They are in a temporary file, in the hand of who will fill one, or in an answer.
InTemp(p) == temp[p] \in Records
InHand(w) == wpc[w] \in {"opening", "filling"}
InAnswer(p) == rpc[p] = "rotated"

\* A token that is, or has been read from, the file.
Seen(t) ==
    \/ file \in Records /\ file.token = t
    \/ \E c \in Callers : snap[c] # None /\ snap[c] = t
    \/ \E p \in Clients : rpc[p] = "spending" /\ rtok[p] = t

IsLive(t) == t[2] = live[t[1]]
SeenIsKnown == \A t \in Tokens : Seen(t) => t[2] <= live[t[1]]

\* EVE accepts a new token, nobody can be spending it, ...
New(t) == IsLive(t) /\ ~Seen(t)
NewIsNew ==
    /\ \A p \in Clients : InTemp(p) => New(temp[p].token)
    /\ \A p \in Clients : InAnswer(p) => New(rtok[p])
    /\ \A w \in Writers : InHand(w) => New(rec[w].token)

\* ... and it is in one place.
NewIsOnce ==
    /\ \A p, q \in Clients : InTemp(p) /\ InTemp(q) /\ p # q => temp[p].token # temp[q].token
    /\ \A p, q \in Clients : InAnswer(p) /\ InAnswer(q) /\ p # q => rtok[p] # rtok[q]
    /\ \A p, q \in Clients : InTemp(p) /\ InAnswer(q) => temp[p].token # rtok[q]
    /\ \A w, v \in Writers : InHand(w) /\ InHand(v) /\ w # v => rec[w].token # rec[v].token
    /\ \A w \in Writers, p \in Clients : InHand(w) /\ InTemp(p) => rec[w].token # temp[p].token
    /\ \A w \in Writers, p \in Clients : InHand(w) /\ InAnswer(p) => rec[w].token # rtok[p]

TokenInv == SeenIsKnown /\ NewIsNew /\ NewIsOnce

\* What new tokens are: tokens.
LEMMA NewIsToken ==
    ASSUME Sane
    PROVE  /\ \A p \in Clients : /\ InTemp(p) => temp[p].token \in Tokens
                                 /\ rpc[p] # "none" => rtok[p] \in Tokens
           /\ \A w \in Writers : rec[w] # None => rec[w].token \in Tokens /\ rec[w] \in Records
           /\ \A w \in Writers : InHand(w) => rec[w] # None
           /\ \A c \in Callers : snap[c] # None => snap[c] \in Tokens
           /\ file \in Records => file.token \in Tokens
BY DEF Sane, TypeOK, Phases, ClientPhases, WriterPhases, InTemp, InHand, Records

LEMMA TokenParts ==
    \A t \in Tokens : t[1] \in Logins /\ t[2] \in 1..MaxVersion /\ t = <<t[1], t[2]>>
BY DEF Tokens

\* A step that makes no token new and shows none keeps the new ones new.
LEMMA TokensKept ==
    ASSUME TokenInv, live' = live, \A t : Seen(t)' => Seen(t),
           \A p \in Clients : InTemp(p)' => InTemp(p) /\ temp'[p] = temp[p],
           \A p \in Clients : InAnswer(p)' => InAnswer(p) /\ rtok'[p] = rtok[p],
           \A w \in Writers : InHand(w)' => InHand(w) /\ rec'[w] = rec[w]
    PROVE  TokenInv'
<1>1. SeenIsKnown'
  BY DEF TokenInv, SeenIsKnown
<1>2. NewIsNew'
  BY DEF TokenInv, NewIsNew, New, IsLive
<1>3. NewIsOnce'
  BY DEF TokenInv, NewIsOnce
<1> QED BY <1>1, <1>2, <1>3 DEF TokenInv

\* A step that only reads.
LEMMA TokensUntouched ==
    ASSUME TokenInv, UNCHANGED <<live, file, temp, wpc, rec>>,
           \A c \in Callers : snap'[c] # None => Seen(snap'[c]),
           \A p \in Clients : rpc'[p] = "spending" => Seen(rtok'[p]),
           \A p \in Clients : rpc'[p] = "rotated" => rpc[p] = "rotated" /\ rtok'[p] = rtok[p]
    PROVE  TokenInv'
<1>1. \A t : Seen(t)' => Seen(t)
  BY DEF Seen
<1>2. /\ \A p \in Clients : InTemp(p)' => InTemp(p) /\ temp'[p] = temp[p]
      /\ \A p \in Clients : InAnswer(p)' => InAnswer(p) /\ rtok'[p] = rtok[p]
      /\ \A w \in Writers : InHand(w)' => InHand(w) /\ rec'[w] = rec[w]
  BY DEF InTemp, InAnswer, InHand
<1> QED BY <1>1, <1>2, TokensKept

\* EVE rotates a token that was seen: no new one is of its login's last version.
LEMMA SpendStep ==
    ASSUME Sane, TokenInv, ~MayKeep, NEW p \in Clients, Spend(p)
    PROVE  TokenInv'
<1>0. PICK l, t : l = rtok[p][1] /\ t = <<l, live[l] + 1>>
  OBVIOUS
<1>1. /\ live' = [live EXCEPT ![l] = live[l] + 1] /\ rtok' = [rtok EXCEPT ![p] = t]
      /\ rtok[p][2] = live[l] /\ rpc[p] = "spending" /\ rpc' = [rpc EXCEPT ![p] = "rotated"]
      /\ UNCHANGED <<file, temp, snap, wpc, rec>> /\ live[l] + 1 <= MaxVersion
  BY <1>0 DEF Spend, callerVars, writeVars
<1>t. TypeOK
  BY DEF Sane
<1>2. rtok[p] \in Tokens /\ Seen(rtok[p]) /\ l \in Logins /\ live[l] \in Nat
  BY <1>0, <1>1, <1>t, NewIsToken, TokenParts DEF Seen, TypeOK
<1>3. t \in Tokens /\ t[1] = l /\ t[2] = live[l] + 1
  BY <1>0, <1>1, <1>2, ConstantsAssumption DEF Tokens
<1>4. \A k \in Logins : live'[k] = IF k = l THEN live[k] + 1 ELSE live[k]
  BY <1>1, <1>t DEF TypeOK
<1>5. ASSUME NEW u \in Tokens, New(u) PROVE u[1] # l
  <2>1. SUFFICES ASSUME u[1] = l PROVE u = rtok[p]
    BY <1>0, <1>2, <1>5 DEF New
  <2>2. u[2] = live[l]
    BY <1>5, <2>1 DEF New, IsLive
  <2> QED BY <1>0, <1>1, <1>2, <2>1, <2>2, TokenParts
<1>6. \A u : Seen(u)' => Seen(u)
  BY <1>1, <1>t DEF Seen, TypeOK
<1>7. ASSUME NEW u \in Tokens, New(u) PROVE New(u)' /\ u # t
  BY <1>3, <1>4, <1>5, <1>6, <1>7, TokenParts DEF New, IsLive
<1>8. ~Seen(t) /\ New(t)'
  <2>1. ~Seen(t)
    BY <1>2, <1>3 DEF TokenInv, SeenIsKnown
  <2> QED BY <1>2, <1>3, <1>4, <1>6, <2>1 DEF New, IsLive
<1>9. \A q \in Clients : InTemp(q)' => InTemp(q) /\ temp'[q] = temp[q] /\ temp[q].token \in Tokens
  BY <1>1, NewIsToken DEF InTemp
<1>h. \A w \in Writers : InHand(w)' => InHand(w) /\ rec'[w] = rec[w] /\ rec[w].token \in Tokens
  <2>1. \A w \in Writers : InHand(w)' = InHand(w)
    BY <1>1 DEF InHand
  <2> QED BY <1>1, <2>1, NewIsToken
<1>a. \A q \in Clients : InAnswer(q)' =>
            \/ q = p /\ rtok'[q] = t
            \/ q # p /\ InAnswer(q) /\ rtok'[q] = rtok[q] /\ rtok[q] \in Tokens
  <2>1. /\ \A q \in Clients \ {p} : rpc'[q] = rpc[q] /\ rtok'[q] = rtok[q]
        /\ rtok'[p] = t
    BY <1>1, <1>t DEF TypeOK
  <2>2. \A q \in Clients : InAnswer(q) => rtok[q] \in Tokens
    BY NewIsToken DEF InAnswer
  <2> QED BY <2>1, <2>2 DEF InAnswer
<1>10. SeenIsKnown'
  BY <1>4, <1>6, <1>t, TokenParts DEF TokenInv, SeenIsKnown, TypeOK
<1>11. NewIsNew'
  BY <1>7, <1>8, <1>9, <1>h, <1>a DEF TokenInv, NewIsNew
<1>12. NewIsOnce'
  BY <1>7, <1>9, <1>h, <1>a DEF TokenInv, NewIsNew, NewIsOnce
<1> QED BY <1>10, <1>11, <1>12 DEF TokenInv

\* The token of a new login is of a login nobody has a token of.
LEMMA CallbackStep ==
    ASSUME Sane, TokenInv, NEW l \in Logins, Callback(l)
    PROVE  TokenInv'
<1>t. TypeOK /\ l \in Writers
  BY DEF Sane, Writers
<1>0. lpc[l] = "pending" /\ live[l] = 0 /\ UNCHANGED <<file, temp, pc, forced, snap, rpc, rtok>>
  BY DEF Callback, Sane, Phases, LoginPhases, callerVars, refreshVars
<1>1. CASE UNCHANGED <<live, wpc, rec>>
  <2>1. \A t : Seen(t)' => Seen(t)
    BY <1>0 DEF Seen
  <2> QED BY <1>0, <1>1, <2>1, TokensKept DEF InTemp, InHand, InAnswer
<1>2. CASE /\ live' = [live EXCEPT ![l] = 1] /\ wpc' = [wpc EXCEPT ![l] = "opening"]
           /\ rec' = [rec EXCEPT ![l] = [token |-> <<l, 1>>, who |-> Identity(l)]]
  <2>0. PICK t : t = <<l, 1>>
    OBVIOUS
  <2>1. t \in Tokens /\ t[1] = l /\ t[2] = 1 /\ rec'[l].token = t
    BY <1>2, <1>t, <2>0, ConstantsAssumption DEF Tokens, TypeOK
  <2>2. \A k \in Logins : live'[k] = IF k = l THEN 1 ELSE live[k]
    BY <1>2, <1>t DEF TypeOK
  <2>3. \A u : Seen(u)' => Seen(u)
    BY <1>0 DEF Seen
  <2>4. ASSUME NEW u \in Tokens, New(u) PROVE New(u)' /\ u # t
    <3>1. u[1] # l
      BY <1>0, <2>4, TokenParts DEF New, IsLive
    <3> QED BY <2>1, <2>2, <2>3, <2>4, <3>1, TokenParts DEF New, IsLive
  <2>5. ~Seen(t) /\ New(t)'
    <3>1. ~Seen(t)
      BY <1>0, <2>1 DEF TokenInv, SeenIsKnown
    <3> QED BY <2>1, <2>2, <2>3, <3>1 DEF New, IsLive
  <2>6. \A q \in Clients : /\ InTemp(q)' => InTemp(q) /\ temp'[q] = temp[q] /\ temp[q].token \in Tokens
                           /\ InAnswer(q)' => InAnswer(q) /\ rtok'[q] = rtok[q] /\ rtok[q] \in Tokens
    <3>1. \A q \in Clients : InTemp(q)' = InTemp(q) /\ InAnswer(q)' = InAnswer(q)
      BY <1>0 DEF InTemp, InAnswer
    <3>2. \A q \in Clients : InAnswer(q) => rtok[q] \in Tokens
      BY NewIsToken DEF InAnswer
    <3> QED BY <1>0, <3>1, <3>2, NewIsToken
  <2>7. \A w \in Writers : InHand(w)' =>
            \/ w = l /\ rec'[w].token = t
            \/ w # l /\ InHand(w) /\ rec'[w] = rec[w] /\ rec[w].token \in Tokens
    <3>1. \A w \in Writers \ {l} : rec'[w] = rec[w] /\ wpc'[w] = wpc[w]
      BY <1>2, <1>t DEF TypeOK
    <3>2. \A w \in Writers \ {l} : InHand(w)' = InHand(w)
      BY <3>1 DEF InHand
    <3> QED BY <2>1, <3>1, <3>2, NewIsToken
  <2>8. SeenIsKnown'
    BY <1>0, <2>2, <2>3, <1>t, TokenParts DEF TokenInv, SeenIsKnown, TypeOK
  <2>9. NewIsNew'
    BY <2>4, <2>5, <2>6, <2>7 DEF TokenInv, NewIsNew
  <2>10. NewIsOnce'
    BY <2>4, <2>6, <2>7 DEF TokenInv, NewIsNew, NewIsOnce
  <2> QED BY <2>8, <2>9, <2>10 DEF TokenInv
<1> QED BY <1>1, <1>2 DEF Callback, writeVars

\* The token of an answer is in the hand of who writes it.
LEMMA ReadBackStep ==
    ASSUME Sane, TokenInv, NEW p \in Clients, ReadBack(p)
    PROVE  TokenInv'
<1>t. TypeOK /\ p \in Writers
  BY DEF Sane, Writers
<1>0. rpc[p] = "rotated" /\ InAnswer(p) /\ rtok[p] \in Tokens /\ UNCHANGED <<file, temp, live>>
  BY NewIsToken DEF ReadBack, InAnswer
<1>1. CASE file \in Records \cup {None}
  <2>1. /\ rec' = [rec EXCEPT ![p] = [token |-> rtok[p], who |-> IF file = None THEN None ELSE file.who]]
        /\ wpc' = [wpc EXCEPT ![p] = "opening"] /\ rpc' = [rpc EXCEPT ![p] = "writing"]
        /\ UNCHANGED <<pc, forced, snap, rtok>>
    BY <1>1 DEF ReadBack, callerVars
  <2>2. \A u : Seen(u)' => Seen(u)
    BY <1>0, <1>t, <2>1 DEF Seen, TypeOK
  <2>3. \A u : New(u) => New(u)'
    BY <1>0, <2>2 DEF New, IsLive
  <2>4. \A q \in Clients : /\ InTemp(q)' => InTemp(q) /\ temp'[q] = temp[q]
                           /\ InAnswer(q)' => q # p /\ InAnswer(q) /\ rtok'[q] = rtok[q]
    <3>1. \A q \in Clients : InTemp(q)' = InTemp(q)
      BY <1>0 DEF InTemp
    <3>2. rpc'[p] = "writing" /\ \A q \in Clients \ {p} : rpc'[q] = rpc[q]
      BY <1>t, <2>1 DEF TypeOK
    <3>3. \A q \in Clients : InAnswer(q)' => q # p /\ InAnswer(q)
      BY <3>2 DEF InAnswer
    <3> QED BY <1>0, <2>1, <3>1, <3>3
  <2>5. \A w \in Writers : InHand(w)' => \/ w = p /\ rec'[w].token = rtok[p]
                                         \/ w # p /\ InHand(w) /\ rec'[w] = rec[w]
    <3>1. /\ \A w \in Writers \ {p} : rec'[w] = rec[w] /\ wpc'[w] = wpc[w]
          /\ rec'[p].token = rtok[p]
      BY <2>1, <1>t DEF TypeOK
    <3>2. \A w \in Writers \ {p} : InHand(w)' = InHand(w)
      BY <3>1 DEF InHand
    <3> QED BY <3>1, <3>2
  <2>6. SeenIsKnown'
    BY <1>0, <2>2 DEF TokenInv, SeenIsKnown
  <2>7. NewIsNew'
    BY <1>0, <2>3, <2>4, <2>5 DEF TokenInv, NewIsNew
  <2>8. NewIsOnce'
    BY <1>0, <2>4, <2>5 DEF TokenInv, NewIsOnce
  <2> QED BY <2>6, <2>7, <2>8 DEF TokenInv
<1>2. CASE file \notin Records \cup {None}
  <2>1. /\ RefreshOver(p, "idle") /\ UNCHANGED <<snap, wpc, rec>>
    BY <1>2 DEF ReadBack, writeVars
  <2>2. /\ rpc' = [rpc EXCEPT ![p] = "none"] /\ rtok' = [rtok EXCEPT ![p] = None]
    BY <2>1 DEF RefreshOver
  <2>3. /\ \A c \in Callers : snap'[c] # None => Seen(snap'[c])
        /\ \A q \in Clients : rpc'[q] = "spending" => Seen(rtok'[q])
        /\ \A q \in Clients : rpc'[q] = "rotated" => rpc[q] = "rotated" /\ rtok'[q] = rtok[q]
    BY <1>t, <2>1, <2>2 DEF Seen, TypeOK
  <2> QED BY <1>0, <2>1, <2>3, TokensUntouched
<1> QED BY <1>1, <1>2

\* What is filled goes from the hand of its writer to one file at most.
LEMMA FillStep ==
    ASSUME Sane, Filling, TokenInv, NEW w \in Writers, FillTemp(w)
    PROVE  TokenInv'
<1>t. TypeOK
  BY DEF Sane
<1>0. PICK filled \in {rec[w], Torn} :
         /\ Fill(w, filled)
         /\ wpc' \in {[wpc EXCEPT ![w] = "renaming"], [wpc EXCEPT ![w] = "cleaning"]}
  BY DEF FillTemp
<1>1. /\ InHand(w) /\ rec[w] \in Records /\ rec[w].token \in Tokens /\ rec[w] # None
      /\ UNCHANGED <<live, snap, rpc, rtok, rec>>
  BY NewIsToken DEF FillTemp, InHand, callerVars, refreshVars
<1>2. /\ file' = IF file = [by |-> w] THEN filled ELSE file
      /\ \A p \in Clients : temp'[p] = IF temp[p] = [by |-> w] THEN filled ELSE temp[p]
  BY <1>0 DEF Fill
<1>3. Torn \notin Records /\ [by |-> w] \notin Records
  BY Kinds
<1>4. \A v \in Writers : InHand(v)' => v # w /\ InHand(v)
  <2>1. wpc'[w] \in {"renaming", "cleaning"} /\ \A v \in Writers \ {w} : wpc'[v] = wpc[v]
    BY <1>0, <1>t DEF TypeOK
  <2> QED BY <2>1 DEF InHand
<1>5. \A p \in Clients : InTemp(p)' => \/ InTemp(p) /\ temp'[p] = temp[p]
                                       \/ temp[p] = [by |-> w] /\ temp'[p] = rec[w]
  BY <1>0, <1>2, <1>3 DEF InTemp
<1>6. \A p \in Clients : InAnswer(p)' = InAnswer(p) /\ rtok'[p] = rtok[p]
  BY <1>1 DEF InAnswer
<1>7. \A p, q \in Clients : temp[p] = [by |-> w] /\ temp[q] = [by |-> w] => p = q
  BY DEF Filling
<1>8. \A u : Seen(u)' => Seen(u) \/ (file = [by |-> w] /\ u = rec[w].token)
  BY <1>0, <1>1, <1>2, <1>3 DEF Seen
<1>9. \A p \in Clients : file = [by |-> w] => temp[p] # [by |-> w]
  BY DEF Filling
<1>10. New(rec[w].token)
  BY <1>1 DEF TokenInv, NewIsNew
<1>11. \A u : New(u) /\ (file = [by |-> w] => u # rec[w].token) => New(u)'
  BY <1>1, <1>8 DEF New, IsLive
<1>12. SeenIsKnown'
  <2>1. rec[w].token[2] <= live[rec[w].token[1]]
    BY <1>1, <1>10, <1>t, TokenParts DEF New, IsLive, TypeOK
  <2> QED BY <1>1, <1>8, <2>1 DEF TokenInv, SeenIsKnown
<1>13. NewIsNew'
  <2>1. \A p \in Clients : InTemp(p)' => \A u : u = temp'[p].token => New(u)'
    BY <1>1, <1>5, <1>9, <1>10, <1>11 DEF TokenInv, NewIsNew, NewIsOnce
  <2>2. \A p \in Clients : InAnswer(p)' => \A u : u = rtok'[p] => New(u)'
    BY <1>1, <1>6, <1>11 DEF TokenInv, NewIsNew, NewIsOnce
  <2>3. \A v \in Writers : InHand(v)' => \A u : u = rec'[v].token => New(u)'
    BY <1>1, <1>4, <1>11 DEF TokenInv, NewIsNew, NewIsOnce
  <2> QED BY <2>1, <2>2, <2>3 DEF NewIsNew
<1>14. NewIsOnce'
  BY <1>1, <1>4, <1>5, <1>6, <1>7 DEF TokenInv, NewIsOnce
<1> QED BY <1>12, <1>13, <1>14 DEF TokenInv

\* What is renamed is new no more, and in no other place.
LEMMA RenameStep ==
    ASSUME Sane, TokenInv, NEW w \in Writers, RenameTemp(w) \/ CleanUp(w)
    PROVE  TokenInv' /\ (file' = temp[Owner(w)] /\ file' \in Records => IsLive(file.token)')
<1>t. TypeOK /\ Owner(w) \in Clients
  BY OwnerIsClient DEF Sane
<1>0. None \notin Records
  BY ConstantsAssumption DEF Contents
<1>1. CASE RenameTemp(w) /\ temp[Owner(w)] = None
  <2>1. /\ UNCHANGED <<live, snap, rpc, rtok, rec, file, temp>> /\ wpc' = [wpc EXCEPT ![w] = "cleaning"]
    BY <1>1 DEF RenameTemp, refreshVars
  <2>2. /\ \A u : Seen(u)' => Seen(u)
        /\ \A p \in Clients : InTemp(p)' = InTemp(p) /\ InAnswer(p)' = InAnswer(p)
    BY <2>1 DEF Seen, InTemp, InAnswer
  <2>3. \A v \in Writers : InHand(v)' => InHand(v)
    BY <1>t, <2>1 DEF InHand, TypeOK
  <2> QED BY <1>0, <1>1, <2>1, <2>2, <2>3, TokensKept
<1>2. CASE ~(RenameTemp(w) /\ temp[Owner(w)] = None)
  <2>1. /\ \/ file' = file
           \/ file' = temp[Owner(w)]
        /\ temp' = [temp EXCEPT ![Owner(w)] = None] /\ rec' = [rec EXCEPT ![w] = None]
        /\ wpc' = [wpc EXCEPT ![w] = "none"]
        /\ UNCHANGED <<live, snap>>
        /\ \/ UNCHANGED <<rpc, rtok>>
           \/ rpc' = [rpc EXCEPT ![w] = "none"] /\ rtok' = [rtok EXCEPT ![w] = None]
    BY <1>2 DEF RenameTemp, CleanUp, WriteOver, RefreshOver, refreshVars
  <2>2. \A p \in Clients : InTemp(p)' => p # Owner(w) /\ InTemp(p) /\ temp'[p] = temp[p]
    BY <1>t, <1>0, <2>1 DEF InTemp, TypeOK
  <2>3. \A v \in Writers : InHand(v)' => InHand(v) /\ rec'[v] = rec[v]
    BY <1>t, <2>1 DEF InHand, TypeOK
  <2>4. \A p \in Clients : rpc'[p] # "none" => rpc'[p] = rpc[p] /\ rtok'[p] = rtok[p]
    BY <1>t, <2>1 DEF TypeOK
  <2>5. \A p \in Clients : InAnswer(p)' => InAnswer(p) /\ rtok'[p] = rtok[p]
    BY <2>4 DEF InAnswer
  <2>6. CASE ~(file' = temp[Owner(w)] /\ file' \in Records)
    <3>1. \A u : Seen(u)' => Seen(u)
      BY <2>1, <2>4, <2>6 DEF Seen
    <3> QED BY <2>1, <2>2, <2>3, <2>5, <2>6, <3>1, TokensKept
  <2>7. CASE file' = temp[Owner(w)] /\ file' \in Records
    <3>0. PICK t : t = temp[Owner(w)].token
      OBVIOUS
    <3>1. InTemp(Owner(w)) /\ New(t) /\ t \in Tokens /\ t = file'.token
      BY <1>t, <2>7, <3>0, NewIsToken DEF InTemp, TokenInv, NewIsNew
    <3>2. \A u : Seen(u)' => Seen(u) \/ u = t
      BY <2>1, <2>4, <3>1 DEF Seen
    <3>3. \A u : New(u) /\ u # t => New(u)'
      BY <2>1, <3>2 DEF New, IsLive
    <3>4. \A p \in Clients : /\ InTemp(p)' => temp[p].token # t
                             /\ InAnswer(p)' => rtok[p] # t
      <4>1. \A p \in Clients : InTemp(p) /\ p # Owner(w) => temp[p].token # t
        BY <1>t, <3>0, <3>1 DEF TokenInv, NewIsOnce
      <4>2. \A p \in Clients : InAnswer(p) => rtok[p] # t
        BY <1>t, <3>0, <3>1 DEF TokenInv, NewIsOnce
      <4> QED BY <2>2, <2>5, <4>1, <4>2
    <3>5. \A v \in Writers : InHand(v)' => rec[v].token # t
      BY <1>t, <2>3, <3>0, <3>1 DEF TokenInv, NewIsOnce
    <3>6. SeenIsKnown'
      <4>1. t[2] <= live[t[1]]
        BY <3>1, <1>t, TokenParts DEF New, IsLive, TypeOK
      <4> QED BY <2>1, <3>2, <4>1 DEF TokenInv, SeenIsKnown
    <3>7. NewIsNew'
      BY <2>2, <2>3, <2>5, <3>3, <3>4, <3>5 DEF TokenInv, NewIsNew
    <3>8. NewIsOnce'
      BY <2>2, <2>3, <2>5 DEF TokenInv, NewIsOnce
    <3>9. IsLive(file.token)'
      BY <2>1, <3>1 DEF New, IsLive
    <3> QED BY <3>6, <3>7, <3>8, <3>9 DEF TokenInv
  <2> QED BY <2>6, <2>7
<1> QED BY <1>1, <1>2

\* Every step keeps the new tokens new.
LEMMA TokenStep == Sane /\ Filling /\ TokenInv /\ ~MayKeep /\ [Next]_vars => TokenInv'
<1> SUFFICES ASSUME Sane, Filling, TokenInv, ~MayKeep, [Next]_vars PROVE TokenInv'
  OBVIOUS
<1> USE DEF callerVars, refreshVars, writeVars
<1>t. TypeOK /\ Phases /\ CallerPhases
  BY DEF Sane, Phases
<1>s. /\ \A c \in Callers : snap[c] # None => Seen(snap[c])
      /\ \A p \in Clients : rpc[p] = "spending" => Seen(rtok[p])
  BY DEF Seen
<1>0. CASE UNCHANGED vars
  BY <1>0, <1>s, TokensUntouched DEF vars
<1>1. ASSUME NEW c \in Callers, Get(c) \/ ReadAgain(c) PROVE TokenInv'
  <2>1. /\ UNCHANGED <<live, file, temp, wpc, rec, rpc, rtok>>
        /\ \/ snap' = snap
           \/ file \in Records /\ snap' = [snap EXCEPT ![c] = file.token]
    BY <1>1 DEF Get, ReadAgain, Read
  <2>2. file \in Records => Seen(file.token)
    BY DEF Seen
  <2>3. \A d \in Callers : snap'[d] # None => Seen(snap'[d])
    BY <1>t, <1>s, <2>1, <2>2 DEF TypeOK
  <2> QED BY <1>s, <2>1, <2>3, TokensUntouched
<1>2. ASSUME NEW c \in Callers, UseStored(c) \/ Answered(c) \/ AwaitRefresh(c) PROVE TokenInv'
  <2>1. /\ UNCHANGED <<live, file, temp, wpc, rec>>
        /\ snap' \in {snap, [snap EXCEPT ![c] = None]}
        /\ \/ UNCHANGED <<rpc, rtok>>
           \/ /\ rpc' = [rpc EXCEPT ![ClientOf[c]] = "spending"] /\ rtok' = [rtok EXCEPT ![ClientOf[c]] = snap[c]]
              /\ pc[c] = "resuming"
    BY <1>2 DEF UseStored, Answered, AwaitRefresh
  <2>2. \A d \in Callers : snap'[d] # None => Seen(snap'[d])
    BY <1>t, <1>s, <2>1 DEF TypeOK
  <2>3. pc[c] = "resuming" => Seen(snap[c])
    BY <1>t, <1>s DEF CallerPhases
  <2>4. \A p \in Clients : /\ rpc'[p] = "spending" => Seen(rtok'[p])
                           /\ rpc'[p] = "rotated" => rpc[p] = "rotated" /\ rtok'[p] = rtok[p]
    BY <1>t, <1>s, <2>1, <2>3 DEF TypeOK
  <2> QED BY <2>1, <2>2, <2>4, TokensUntouched
<1>3. ASSUME NEW p \in Clients, Refused(p) \/ AnswerLost(p) PROVE TokenInv'
  <2>1. /\ UNCHANGED <<live, file, temp, wpc, rec, snap>>
        /\ rpc' = [rpc EXCEPT ![p] = "none"] /\ rtok' = [rtok EXCEPT ![p] = None]
    BY <1>3 DEF Refused, AnswerLost, RefreshOver
  <2>2. \A q \in Clients : rpc'[q] # "none" => rpc'[q] = rpc[q] /\ rtok'[q] = rtok[q]
    BY <1>t, <2>1 DEF TypeOK
  <2> QED BY <1>s, <2>1, <2>2, TokensUntouched
<1>4. ASSUME NEW p \in Clients, Crash(p) PROVE TokenInv'
  <2> DEFINE mine == {w \in Writers : Owner(w) = p}
  <2>1. Torn \notin Records /\ None \notin Records
    BY ConstantsAssumption DEF Contents
  <2>2. file' = (IF file \in [by : mine] THEN Torn ELSE file) /\ live' = live
    BY <1>4 DEF Crash
  <2>3. temp' \in {[temp EXCEPT ![p] = IF temp[p] \in [by : mine] THEN Torn ELSE temp[p]],
                   [temp EXCEPT ![p] = None]}
    BY <1>4 DEF Crash
  <2>4. \A q \in Clients : InTemp(q)' => InTemp(q) /\ temp'[q] = temp[q]
    BY <1>t, <2>1, <2>3 DEF TypeOK, InTemp
  <2>5. file' \in Records => file' = file
    BY <2>1, <2>2
  <2>6. \A q \in Clients : rpc'[q] # "none" => rpc'[q] = rpc[q] /\ rtok'[q] = rtok[q]
    BY <1>4, <1>t DEF Crash, TypeOK
  <2>7. \A c \in Callers : snap'[c] # None => snap'[c] = snap[c]
    BY <1>4 DEF Crash
  <2>8. \A w \in Writers : wpc'[w] # "none" => wpc'[w] = wpc[w] /\ rec'[w] = rec[w]
    BY <1>4 DEF Crash
  <2>9. \A u : Seen(u)' => Seen(u)
    BY <2>5, <2>6, <2>7 DEF Seen
  <2>10. \A w \in Writers : InHand(w)' => InHand(w) /\ rec'[w] = rec[w]
    BY <2>8 DEF InHand
  <2>11. \A q \in Clients : InAnswer(q)' => InAnswer(q) /\ rtok'[q] = rtok[q]
    BY <2>6 DEF InAnswer
  <2> QED BY <2>2, <2>4, <2>9, <2>10, <2>11, TokensKept
<1>5. ASSUME NEW w \in Writers, OpenTemp(w) PROVE TokenInv'
  <2>1. /\ UNCHANGED <<live, file, snap, rpc, rtok, rec>> /\ wpc[w] = "opening"
        /\ temp' \in {temp, [temp EXCEPT ![Owner(w)] = [by |-> w]]}
        /\ wpc' \in {[wpc EXCEPT ![w] = "filling"], [wpc EXCEPT ![w] = "cleaning"]}
    BY <1>5 DEF OpenTemp
  <2>2. [by |-> w] \notin Records
    BY Kinds
  <2>3. \A q \in Clients : /\ InTemp(q)' => InTemp(q) /\ temp'[q] = temp[q]
                           /\ InAnswer(q)' => InAnswer(q) /\ rtok'[q] = rtok[q]
    BY <1>t, <2>1, <2>2 DEF TypeOK, InTemp, InAnswer
  <2>4. \A v \in Writers : InHand(v)' => InHand(v) /\ rec'[v] = rec[v]
    BY <1>t, <2>1 DEF InHand, TypeOK
  <2>5. \A u : Seen(u)' => Seen(u)
    BY <2>1 DEF Seen
  <2> QED BY <2>1, <2>3, <2>4, <2>5, TokensKept
<1>6. ASSUME NEW l \in Logins, BeginLogin(l) PROVE TokenInv'
  BY <1>6, <1>s, TokensUntouched DEF BeginLogin
<1> QED BY <1>0, <1>1, <1>2, <1>3, <1>4, <1>5, <1>6, SpendStep, CallbackStep, ReadBackStep, FillStep, RenameStep
        DEF Next

-------------------------------------------------------------------------------
(* The live token *)

\* Where a token may be that is not in the file.
Elsewhere(t) ==
    \/ t \in lost
    \/ \E p \in Clients : InAnswer(p) /\ rtok[p] = t
    \/ \E w \in Writers : rec[w] # None /\ rec[w].token = t

LEMMA LiveIsKeptOr ==
    LiveTokenIsKept <=> (file \in Records => \/ file.token = <<file.token[1], live[file.token[1]]>>
                                             \/ Elsewhere(<<file.token[1], live[file.token[1]]>>))
BY DEF LiveTokenIsKept, Elsewhere, InAnswer

\* A step that forgets only what the file holds keeps the live token.
LEMMA LiveKept ==
    ASSUME LiveTokenIsKept, live' = live, file' \in Records => file' = file,
           \A u : Elsewhere(u) => Elsewhere(u)' \/ (file \in Records /\ u = file.token)
    PROVE  LiveTokenIsKept'
<1> SUFFICES ASSUME file' \in Records
             PROVE  \/ file'.token = <<file'.token[1], live'[file'.token[1]]>>
                    \/ \A u : u = <<file.token[1], live[file.token[1]]>> => Elsewhere(u)'
  BY DEF LiveTokenIsKept, Elsewhere, InAnswer
<1> QED BY LiveIsKeptOr

\* So does one after which the file holds a live token.
LEMMA LiveIsHere ==
    ASSUME Sane', file' \in Records => IsLive(file.token)'
    PROVE  LiveTokenIsKept'
<1>1. file' \in Records => file'.token \in Tokens
  BY DEF Records
<1> QED BY <1>1, TokenParts DEF LiveTokenIsKept, IsLive

LEMMA LiveStep ==
    Sane /\ Filling /\ TokenInv /\ LiveTokenIsKept /\ ~MayKeep /\ [Next]_vars => LiveTokenIsKept'
<1> SUFFICES ASSUME Sane, Filling, TokenInv, LiveTokenIsKept, ~MayKeep, [Next]_vars PROVE LiveTokenIsKept'
  OBVIOUS
<1> USE DEF callerVars, refreshVars, writeVars
<1>t. TypeOK /\ Phases /\ ClientPhases /\ LoginPhases /\ WriterPhases /\ Sane'
  BY TypeStep, PhasesStep DEF Sane, Phases
<1>w. Clients \subseteq Writers /\ Logins \subseteq Writers
  BY DEF Writers
<1>0. CASE UNCHANGED vars
  BY <1>0 DEF vars, LiveTokenIsKept
<1>1. ASSUME NEW c \in Callers, Get(c) \/ ReadAgain(c) \/ UseStored(c) \/ Answered(c) PROVE LiveTokenIsKept'
  BY <1>1 DEF Get, ReadAgain, Read, UseStored, Answered, LiveTokenIsKept
<1>2. ASSUME NEW c \in Callers, AwaitRefresh(c) PROVE LiveTokenIsKept'
  <2>1. UNCHANGED <<live, file, rec, lost>>
    BY <1>2 DEF AwaitRefresh
  <2>2. \A p \in Clients : InAnswer(p) => InAnswer(p)' /\ rtok'[p] = rtok[p]
    BY <1>2, <1>t DEF AwaitRefresh, InAnswer, TypeOK
  <2> QED BY <2>1, <2>2, LiveKept DEF Elsewhere
<1>3. ASSUME NEW p \in Clients, Spend(p) PROVE LiveTokenIsKept'
  <2>0. PICK l : l = rtok[p][1]
    OBVIOUS
  <2>1. /\ live' = [live EXCEPT ![l] = live[l] + 1] /\ rtok' = [rtok EXCEPT ![p] = <<l, live[l] + 1>>]
        /\ rpc[p] = "spending" /\ rpc' = [rpc EXCEPT ![p] = "rotated"] /\ UNCHANGED <<file, rec, lost>>
    BY <1>3, <2>0 DEF Spend
  <2>2. l \in Logins
    BY <1>t, <2>0, <2>1, NewIsToken, TokenParts
  <2>3. InAnswer(p)' /\ rtok'[p] = <<l, live'[l]>>
    BY <1>t, <2>1, <2>2 DEF InAnswer, TypeOK
  <2>4. \A u : Elsewhere(u) => Elsewhere(u)'
    <3>1. \A q \in Clients : InAnswer(q) => InAnswer(q)' /\ rtok'[q] = rtok[q]
      BY <1>t, <2>1 DEF InAnswer, TypeOK
    <3> QED BY <2>1, <3>1 DEF Elsewhere
  <2>5. CASE file \in Records /\ file.token[1] = l
    <3>1. \A u : u = <<l, live'[l]>> => Elsewhere(u)'
      BY <2>3 DEF Elsewhere
    <3> QED BY <2>1, <2>5, <3>1 DEF LiveTokenIsKept, Elsewhere, InAnswer
  <2>6. CASE ~(file \in Records /\ file.token[1] = l)
    <3>1. file \in Records => live'[file.token[1]] = live[file.token[1]]
      BY <1>t, <2>1, <2>6, NewIsToken, TokenParts DEF TypeOK
    <3>2. \A u : u = <<file.token[1], live[file.token[1]]>> /\ file \in Records /\ file.token # u => Elsewhere(u)'
      BY <2>4, LiveIsKeptOr
    <3> QED BY <2>1, <3>1, <3>2 DEF LiveTokenIsKept, Elsewhere, InAnswer
  <2> QED BY <2>5, <2>6
<1>4. ASSUME NEW p \in Clients, Refused(p) \/ AnswerLost(p) PROVE LiveTokenIsKept'
  <2>1. /\ UNCHANGED <<live, file, rec>> /\ lost \subseteq lost'
        /\ rpc' = [rpc EXCEPT ![p] = "none"] /\ rtok' = [rtok EXCEPT ![p] = None]
        /\ InAnswer(p) => rtok[p] \in lost'
    BY <1>4 DEF Refused, AnswerLost, RefreshOver, InAnswer
  <2>2. \A q \in Clients \ {p} : InAnswer(q) => InAnswer(q)' /\ rtok'[q] = rtok[q]
    BY <1>t, <2>1 DEF InAnswer, TypeOK
  <2> QED BY <2>1, <2>2, LiveKept DEF Elsewhere
<1>5. ASSUME NEW p \in Clients, ReadBack(p) PROVE LiveTokenIsKept'
  <2>0. UNCHANGED <<live, file>> /\ rpc[p] = "rotated" /\ rec[p] = None
    BY <1>5, <1>t DEF ReadBack, ClientPhases
  <2>1. CASE file \in Records \cup {None}
    <3>1. /\ rec' = [rec EXCEPT ![p] = [token |-> rtok[p], who |-> IF file = None THEN None ELSE file.who]]
          /\ rpc' = [rpc EXCEPT ![p] = "writing"] /\ UNCHANGED <<rtok, lost>>
      BY <1>5, <2>1 DEF ReadBack
    <3>2. rec'[p] # None /\ rec'[p].token = rtok[p]
      <4>1. rpc'[p] = "writing"
        BY <1>t, <3>1 DEF TypeOK
      <4>2. rec'[p] # None
        BY <1>t, <4>1 DEF Sane, Phases, ClientPhases
      <4> QED BY <1>t, <1>w, <3>1, <4>2 DEF TypeOK
    <3>3. \A w \in Writers : rec[w] # None => rec'[w] = rec[w]
      BY <1>t, <2>0, <3>1 DEF TypeOK
    <3>4. \A q \in Clients \ {p} : InAnswer(q) => InAnswer(q)' /\ rtok'[q] = rtok[q]
      BY <1>t, <3>1 DEF InAnswer, TypeOK
    <3>5. \A u : Elsewhere(u) => Elsewhere(u)'
      BY <1>w, <3>1, <3>2, <3>3, <3>4 DEF Elsewhere
    <3> QED BY <2>0, <3>5, LiveKept
  <2>2. CASE file \notin Records \cup {None}
    BY <2>0, <2>2 DEF LiveTokenIsKept
  <2> QED BY <2>1, <2>2
<1>6. ASSUME NEW p \in Clients, Crash(p) PROVE LiveTokenIsKept'
  <2> DEFINE mine == {w \in Writers : Owner(w) = p}
             S == {rec[w].token : w \in {v \in mine : rec[v] # None}}
                    \cup (IF rpc[p] = "rotated" THEN {rtok[p]} ELSE {})
  <2>1. Torn \notin Records
    BY ConstantsAssumption
  <2>2. file' = (IF file \in [by : mine] THEN Torn ELSE file) /\ live' = live /\ lost' = Dropped(S)
    BY <1>6 DEF Crash
  <2>3. file' \in Records => file' = file
    BY <2>1, <2>2
  <2>4. \A u \in S : u \in lost' \/ (file \in Records /\ u = file.token)
    BY <2>2 DEF Dropped
  <2>5. lost \subseteq lost'
    BY <2>2 DEF Dropped
  <2>6. \A w \in Writers : rec[w] # None => rec'[w] = rec[w] \/ rec[w].token \in S
    BY <1>6 DEF Crash
  <2>7. \A q \in Clients : InAnswer(q) => (InAnswer(q)' /\ rtok'[q] = rtok[q]) \/ rtok[q] \in S
    BY <1>6, <1>t DEF Crash, InAnswer, TypeOK
  <2> HIDE DEF S
  <2>8. \A u : Elsewhere(u) => Elsewhere(u)' \/ (file \in Records /\ u = file.token)
    BY <2>4, <2>5, <2>6, <2>7 DEF Elsewhere
  <2> QED BY <2>2, <2>3, <2>8, LiveKept
<1>7. ASSUME NEW w \in Writers, OpenTemp(w) PROVE LiveTokenIsKept'
  BY <1>7 DEF OpenTemp, LiveTokenIsKept
<1>8. ASSUME NEW w \in Writers, FillTemp(w) PROVE LiveTokenIsKept'
  <2>1. PICK filled \in {rec[w], Torn} : Fill(w, filled)
    BY <1>8 DEF FillTemp
  <2>2. UNCHANGED <<live, rpc, rtok, rec, lost>> /\ InHand(w)
    BY <1>8 DEF FillTemp, InHand
  <2>3. file' = IF file = [by |-> w] THEN filled ELSE file
    BY <2>1 DEF Fill
  <2>4. CASE file = [by |-> w]
    <3>1. file' \in Records => file' = rec[w]
      BY <2>1, <2>3, <2>4, ConstantsAssumption
    <3>2. IsLive(rec[w].token)
      BY <2>2 DEF TokenInv, NewIsNew, New
    <3> QED BY <1>t, <2>2, <3>1, <3>2, LiveIsHere DEF IsLive
  <2>5. CASE file # [by |-> w]
    BY <2>2, <2>3, <2>5, LiveKept DEF Elsewhere, InAnswer
  <2> QED BY <2>4, <2>5
<1>9. ASSUME NEW w \in Writers, RenameTemp(w) PROVE LiveTokenIsKept'
  <2>1. CASE temp[Owner(w)] # None
    <3>1. file' = temp[Owner(w)]
      BY <1>9, <2>1 DEF RenameTemp
    <3> QED BY <1>9, <1>t, <3>1, RenameStep, LiveIsHere
  <2>2. CASE temp[Owner(w)] = None
    BY <1>9, <2>2 DEF RenameTemp, LiveTokenIsKept
  <2> QED BY <2>1, <2>2
<1>10. ASSUME NEW w \in Writers, CleanUp(w) PROVE LiveTokenIsKept'
  <2>1. /\ UNCHANGED <<file, live>> /\ WriteOver(w, "idle") /\ wpc[w] = "cleaning"
        /\ lost' = Dropped({rec[w].token} \cup TokenOf(temp[Owner(w)]))
    BY <1>10 DEF CleanUp
  <2>2. lost \subseteq lost' /\ (rec[w].token \in lost' \/ (file \in Records /\ rec[w].token = file.token))
    BY <2>1 DEF Dropped
  <2>3. \A v \in Writers \ {w} : rec'[v] = rec[v]
    BY <1>t, <2>1 DEF WriteOver, TypeOK
  <2>4. \A q \in Clients : InAnswer(q) => InAnswer(q)' /\ rtok'[q] = rtok[q]
    <3>1. CASE w \in Clients
      <4>1. rpc[w] = "writing"
        BY <1>t, <2>1, <3>1 DEF ClientPhases, WriterPhases
      <4>2. rpc' = [rpc EXCEPT ![w] = "none"] /\ rtok' = [rtok EXCEPT ![w] = None]
        BY <2>1, <3>1 DEF WriteOver, RefreshOver
      <4> QED BY <1>t, <4>1, <4>2 DEF InAnswer, TypeOK
    <3>2. CASE w \notin Clients
      BY <2>1, <3>2 DEF WriteOver, InAnswer
    <3> QED BY <3>1, <3>2
  <2>5. \A u : Elsewhere(u) => Elsewhere(u)' \/ (file \in Records /\ u = file.token)
    BY <2>2, <2>3, <2>4 DEF Elsewhere
  <2> QED BY <2>1, <2>5, LiveKept
<1>11. ASSUME NEW l \in Logins, BeginLogin(l) PROVE LiveTokenIsKept'
  BY <1>11 DEF BeginLogin, LiveTokenIsKept
<1>12. ASSUME NEW l \in Logins, Callback(l) PROVE LiveTokenIsKept'
  <2>0. rec[l] = None /\ UNCHANGED <<file, rpc, rtok, lost>>
    BY <1>12, <1>t DEF Callback, LoginPhases
  <2>1. CASE UNCHANGED <<live, rec>>
    BY <2>0, <2>1 DEF LiveTokenIsKept
  <2>2. CASE /\ live' = [live EXCEPT ![l] = 1] /\ wpc' = [wpc EXCEPT ![l] = "opening"]
             /\ rec' = [rec EXCEPT ![l] = [token |-> <<l, 1>>, who |-> Identity(l)]]
    <3>1. rec'[l].token = <<l, 1>> /\ live'[l] = 1 /\ l \in Writers
      BY <1>t, <1>w, <2>2 DEF TypeOK
    <3>2. rec'[l] # None
      BY <1>t, <2>2, <3>1 DEF Sane, Phases, WriterPhases, TypeOK
    <3>3. \A w \in Writers : rec[w] # None => rec'[w] = rec[w]
      BY <1>t, <2>0, <2>2 DEF TypeOK
    <3>4. \A u : Elsewhere(u) => Elsewhere(u)'
      BY <2>0, <3>3 DEF Elsewhere, InAnswer
    <3>5. CASE file \in Records /\ file.token[1] = l
      <4>1. \A u : u = <<l, live'[l]>> => Elsewhere(u)'
        BY <3>1, <3>2 DEF Elsewhere
      <4> QED BY <2>0, <3>5, <4>1 DEF LiveTokenIsKept, Elsewhere, InAnswer
    <3>6. CASE ~(file \in Records /\ file.token[1] = l)
      <4>1. file \in Records => live'[file.token[1]] = live[file.token[1]]
        BY <1>t, <2>2, <3>6, NewIsToken, TokenParts DEF TypeOK
      <4>2. \A u : u = <<file.token[1], live[file.token[1]]>> /\ file \in Records /\ file.token # u => Elsewhere(u)'
        BY <3>4, LiveIsKeptOr
      <4> QED BY <2>0, <4>1, <4>2 DEF LiveTokenIsKept, Elsewhere, InAnswer
    <3> QED BY <3>5, <3>6
  <2> QED BY <1>12, <2>1, <2>2 DEF Callback
<1> QED BY <1>0, <1>1, <1>2, <1>3, <1>4, <1>5, <1>6, <1>7, <1>8, <1>9, <1>10, <1>11, <1>12 DEF Next

-------------------------------------------------------------------------------
(* The theorems *)

SessionInv == Sane /\ Filling /\ WhoIsKnown

LEMMA InitSession == Init => SessionInv /\ TokenInv /\ LiveTokenIsKept
<1> SUFFICES ASSUME Init PROVE SessionInv /\ TokenInv /\ LiveTokenIsKept
  OBVIOUS
<1>k. /\ First \in Logins /\ First # None /\ <<First, 1>> \in Tokens /\ 1 \in 0..MaxVersion /\ 0 \in 0..MaxVersion
      /\ None \notin Records
  BY ConstantsAssumption DEF Tokens, Contents
<1>1. [token |-> <<First, 1>>, who |-> Identity(First)] \in Records
  BY <1>k, IdentityIsWho DEF Records
<1>2. TypeOK
  BY <1>k, <1>1 DEF Init, TypeOK, Contents
<1>3. Phases
  BY <1>k DEF Init, Phases, CallerPhases, ClientPhases, LoginPhases, WriterPhases, Writers
<1>4. Filling
  <2>1. \A w \in Writers : file # [by |-> w] /\ None # [by |-> w]
    BY <1>1, Kinds DEF Init
  <2> QED BY <2>1 DEF Init, Filling
<1>5. WhoIsKnown
  <2>1. file \in Records => file.who = Identity(First) /\ live[First] # 0
    BY <1>k DEF Init
  <2>2. Identity(First) = None => First \in Nameless
    BY <1>k DEF Identity
  <2>3. file \in Records => file.who # None \/ Unnamed
    BY <2>1, <2>2 DEF Unnamed
  <2>4. /\ \A p \in Clients : temp[p] = None /\ rtok[p] = None
        /\ \A w \in Writers : rec[w] = None
        /\ \A c \in Callers : snap[c] = None
    BY DEF Init
  <2> QED BY <1>k, <2>3, <2>4 DEF WhoIsKnown
<1>6. file \in Records => file.token = <<First, 1>> /\ live[First] = 1
  BY <1>k DEF Init
<1>7. TokenInv
  <2>1. \A t : Seen(t) => t = <<First, 1>> /\ live[First] = 1
    BY <1>6 DEF Seen, Init
  <2>2. SeenIsKnown
    BY <2>1 DEF SeenIsKnown
  <2>3. /\ \A p \in Clients : ~InTemp(p) /\ ~InAnswer(p)
        /\ \A w \in Writers : ~InHand(w)
    BY <1>k DEF Init, InTemp, InAnswer, InHand
  <2> QED BY <2>2, <2>3 DEF TokenInv, NewIsNew, NewIsOnce
<1>8. LiveTokenIsKept
  BY <1>6 DEF LiveTokenIsKept
<1> QED BY <1>2, <1>3, <1>4, <1>5, <1>7, <1>8 DEF SessionInv, Sane

\* The session, its calls and its writes are always in a state the code knows,
\* and what is being written has one name at most (CjsToolTokenFile.js:59-80).
THEOREM SessionIsSane == Spec => []SessionInv
<1>1. SessionInv /\ [Next]_vars => SessionInv'
  BY TypeStep, PhasesStep, FillingStep, WhoStep DEF SessionInv, Sane
<1> QED BY <1>1, InitSession, PTL DEF Spec

\* The record never forgets whose the session is, whichever refreshes, logins and
\* crashes meet: it names nobody only after a login whose token named nobody
\* (CjsToolEsiClient.js:172-176).
THEOREM IdentityStays == Spec => []IdentityIsKept
<1>1. SessionInv => IdentityIsKept
  BY DEF SessionInv, WhoIsKnown, Unnamed, IdentityIsKept
<1> QED BY <1>1, SessionIsSane, PTL

\* When EVE rotates on every refresh, the live token is in the file, on its way
\* there, or went with an answer, a process or a write that failed
\* (CjsToolEsiClient.js:17).
THEOREM LiveTokenStays ==
    ASSUME ~MayKeep
    PROVE  Spec => []LiveTokenIsKept
<1> DEFINE Inv == SessionInv /\ TokenInv /\ LiveTokenIsKept
<1>1. Inv /\ [Next]_vars => Inv'
  BY TypeStep, PhasesStep, FillingStep, WhoStep, TokenStep, LiveStep DEF SessionInv, Sane
<1>2. Init => Inv
  BY InitSession
<1> QED BY <1>1, <1>2, PTL DEF Spec

===============================================================================
