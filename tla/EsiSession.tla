------------------------------ MODULE EsiSession ------------------------------
(***************************************************************************)
(* The one EVE session of an installation: the ESI clients that refresh it *)
(* (src/auth/CjsToolEsiClient.js), the file that keeps it                  *)
(* (src/auth/CjsToolTokenFile.js) and the logins that replace it           *)
(* (src/auth/CjsToolEveSso.js, #HandleEsiAuthRoute of                      *)
(* src/proxy/CjsToolHttpProxy.js).                                         *)
(*                                                                         *)
(* A client is a process: the service, and the SKINR harvest              *)
(* (bin/cjs-skinr-harvest.js), which keeps its session in the same file.   *)
(* EVE is external: it rotates a refresh token on use, so a token is a     *)
(* <<login, version>> pair of which only the last version is live.  Which  *)
(* access token is still fresh is a question of time, hence a choice.      *)
(*                                                                         *)
(* A definition named X_Bug, or X_ and what it forgets, stands before X    *)
(* and is X with a plausible bug; nothing here uses it.                    *)
(***************************************************************************)
EXTENDS Integers

CONSTANTS
    Clients,        \* processes with an ESI client
    Service,        \* the one that also serves logins
    Callers,        \* concurrent calls of Get
    ClientOf,       \* [Callers -> Clients]
    Logins,         \* logins that can happen
    First,          \* the login that may have happened before
    Nameless,       \* the logins whose access token describes no character
    MaxVersion,     \* bound: how often EVE rotates the token of a login
    MayKeep,        \* whether EVE may answer without a new refresh token
    Failures,       \* whether answers get lost, disks fail and processes crash
    None, Torn      \* no value; a file whose writer died before filling it

Tokens == Logins \X (1..MaxVersion)
Writers == Clients \cup Logins          \* a client's refresh, a login's callback
Records == [token : Tokens, who : Logins \cup {None}]
Contents == Records \cup [by : Writers] \cup {Torn}     \* [by |-> w]: w is filling it

ASSUME ConstantsAssumption ==
    /\ Service \in Clients /\ First \in Logins /\ Nameless \subseteq Logins
    /\ ClientOf \in [Callers -> Clients]
    /\ Clients \cap Logins = {}
    /\ MaxVersion \in Nat \ {0}
    /\ MayKeep \in BOOLEAN /\ Failures \in BOOLEAN
    /\ None \notin Logins \cup Tokens \cup Contents
    /\ Torn \notin Records \cup [by : Writers]

VARIABLES
    file,       \* Contents \cup {None}: the stored record
    temp,       \* [Clients -> Contents \cup {None}]: the temporary file of a process
    live,       \* [Logins -> 0..MaxVersion]: the version EVE accepts, 0 before the login
    pc,         \* [Callers -> "idle" | "reading" | "resuming" | "waiting" | "sending"]
    forced,     \* [Callers -> BOOLEAN]: Get is retrying after a 401
    snap,       \* [Callers -> Tokens \cup {None}]: the refresh token Read returned
    rpc,        \* [Clients -> "none" | "spending" | "rotated" | "writing"]:
                \* the promise #refreshing
    rtok,       \* [Clients -> Tokens \cup {None}]: the token the refresh presents, then
                \* the one it got
    lpc,        \* [Logins -> "none" | "pending" | "writing" | "over"]
    wpc,        \* [Writers -> "none" | "opening" | "filling" | "renaming" | "cleaning"]
    rec,        \* [Writers -> Records \cup {None}]: what Write is storing
    lost        \* SUBSET Tokens: tokens whose only copy went with an answer, a process
                \* or a temporary file (history)

callerVars == <<pc, forced, snap>>
refreshVars == <<rpc, rtok>>
writeVars == <<wpc, rec>>
vars == <<file, temp, live, callerVars, refreshVars, lpc, writeVars, lost>>

\* describeToken: a token that is no JWT, or has no character as its subject,
\* names nobody, and the login is stored without an identity.
Identity(l) == IF l \in Nameless THEN None ELSE l

Owner(w) == IF w \in Clients THEN w ELSE Service

\* What happens to the calls that share the refresh of p when it settles.
Settled(p, outcome) ==
    [c \in Callers |-> IF ClientOf[c] = p /\ pc[c] = "waiting" THEN outcome ELSE pc[c]]

-------------------------------------------------------------------------------
Init ==
    /\ \/ file = None /\ live = [l \in Logins |-> 0] /\ lpc = [l \in Logins |-> "none"]
       \/ /\ file = [token |-> <<First, 1>>, who |-> Identity(First)]
          /\ live = [l \in Logins |-> IF l = First THEN 1 ELSE 0]
          /\ lpc = [l \in Logins |-> IF l = First THEN "over" ELSE "none"]
    /\ temp = [p \in Clients |-> None]
    /\ pc = [c \in Callers |-> "idle"]
    /\ forced = [c \in Callers |-> FALSE]
    /\ snap = [c \in Callers |-> None]
    /\ rpc = [p \in Clients |-> "none"] /\ rtok = [p \in Clients |-> None]
    /\ wpc = [w \in Writers |-> "none"] /\ rec = [w \in Writers |-> None]
    /\ lost = {}

-------------------------------------------------------------------------------
(* Get: an access token, one request, and one more after a 401 *)

\* The disk answers #AccessToken's Read, and the caller resumes with it later.  A
\* missing file is nobody signed in; a torn one throws and is left alone.
Read(c) ==
    /\ IF file \in Records
       THEN pc' = [pc EXCEPT ![c] = "resuming"] /\ snap' = [snap EXCEPT ![c] = file.token]
            /\ UNCHANGED forced
       ELSE pc' = [pc EXCEPT ![c] = "idle"] /\ forced' = [forced EXCEPT ![c] = FALSE]
            /\ UNCHANGED snap
    /\ UNCHANGED <<file, temp, live, refreshVars, lpc, writeVars, lost>>

Get(c) == pc[c] = "idle" /\ Read(c)
ReadAgain(c) == pc[c] = "reading" /\ Read(c)

\* The access token read is still good for half a minute.
UseStored(c) ==
    /\ pc[c] = "resuming" /\ ~forced[c]
    /\ pc' = [pc EXCEPT ![c] = "sending"]
    /\ snap' = [snap EXCEPT ![c] = None]
    /\ UNCHANGED <<file, temp, live, forced, refreshVars, lpc, writeVars, lost>>

\* Every caller starts a refresh of its own.
AwaitRefresh_Unshared(c) ==
    /\ pc[c] = "resuming"
    /\ pc' = [pc EXCEPT ![c] = "waiting"]
    /\ snap' = [snap EXCEPT ![c] = None]
    /\ rpc' = [rpc EXCEPT ![ClientOf[c]] = "spending"]
    /\ rtok' = [rtok EXCEPT ![ClientOf[c]] = snap[c]]
    /\ UNCHANGED <<file, temp, live, forced, lpc, writeVars, lost>>

\* It is not: the caller shares the refresh in flight or starts one, with the
\* refresh token it read before it looked.
AwaitRefresh(c) ==
    LET p == ClientOf[c] IN
    /\ pc[c] = "resuming"
    /\ pc' = [pc EXCEPT ![c] = "waiting"]
    /\ snap' = [snap EXCEPT ![c] = None]
    /\ IF rpc[p] = "none"
       THEN rpc' = [rpc EXCEPT ![p] = "spending"] /\ rtok' = [rtok EXCEPT ![p] = snap[c]]
       ELSE UNCHANGED refreshVars
    /\ UNCHANGED <<file, temp, live, forced, lpc, writeVars, lost>>

\* ESI answers, or the bounded fetch gives up.
Answered(c) ==
    /\ pc[c] = "sending"
    /\ \/ pc' = [pc EXCEPT ![c] = "idle"] /\ forced' = [forced EXCEPT ![c] = FALSE]
       \/ /\ ~forced[c]         \* 401
          /\ pc' = [pc EXCEPT ![c] = "reading"] /\ forced' = [forced EXCEPT ![c] = TRUE]
    /\ UNCHANGED <<file, temp, live, snap, refreshVars, lpc, writeVars, lost>>

-------------------------------------------------------------------------------
(* #Refresh: spend the token, read the record back, store it with the new one. *)
(* Between EVE's answer and the read nothing is told apart, so they are one.   *)

\* #refreshing is cleared, and the calls that share it are left waiting.
RefreshOver_Strands(p, outcome) ==
    /\ rpc' = [rpc EXCEPT ![p] = "none"] /\ rtok' = [rtok EXCEPT ![p] = None]
    /\ UNCHANGED <<pc, forced>>

\* #refreshing is cleared and the calls that share it go on with `outcome`.
RefreshOver(p, outcome) ==
    /\ rpc' = [rpc EXCEPT ![p] = "none"] /\ rtok' = [rtok EXCEPT ![p] = None]
    /\ pc' = Settled(p, outcome)
    /\ forced' = [c \in Callers |-> IF pc'[c] = "idle" THEN FALSE ELSE forced[c]]

\* EVE accepts the live token and rotates it.
Spend(p) ==
    /\ rpc[p] = "spending"
    /\ LET l == rtok[p][1] IN
       /\ rtok[p][2] = live[l]
       /\ \E v \in {live[l] + 1} \cup (IF MayKeep THEN {live[l]} ELSE {}) :
            /\ v <= MaxVersion
            /\ live' = [live EXCEPT ![l] = v]
            /\ rtok' = [rtok EXCEPT ![p] = <<l, v>>]
    /\ rpc' = [rpc EXCEPT ![p] = "rotated"]
    /\ UNCHANGED <<file, temp, callerVars, lpc, writeVars, lost>>

\* EVE refuses, or cannot be reached: always a token that is not live.
Refused(p) ==
    /\ rpc[p] = "spending"
    /\ RefreshOver(p, "idle")
    /\ UNCHANGED <<file, temp, live, snap, lpc, writeVars, lost>>

AnswerLost(p) ==
    /\ Failures /\ rpc[p] = "rotated"
    /\ lost' = lost \cup {rtok[p]}
    /\ RefreshOver(p, "idle")
    /\ UNCHANGED <<file, temp, live, snap, lpc, writeVars>>

\* The identity is not restated.
ReadBack_DropsIdentity(p) ==
    /\ rpc[p] = "rotated"
    /\ rec' = [rec EXCEPT ![p] = [token |-> rtok[p], who |-> None]]
    /\ wpc' = [wpc EXCEPT ![p] = "opening"]
    /\ rpc' = [rpc EXCEPT ![p] = "writing"]
    /\ UNCHANGED <<file, temp, live, callerVars, rtok, lpc, lost>>

\* "Write() REPLACES the record, so anything not restated here is lost."
ReadBack(p) ==
    /\ rpc[p] = "rotated"
    /\ IF file \in Records \cup {None}
       THEN /\ rec' = [rec EXCEPT ![p] = [token |-> rtok[p],
                                          who |-> IF file = None THEN None ELSE file.who]]
            /\ wpc' = [wpc EXCEPT ![p] = "opening"]
            /\ rpc' = [rpc EXCEPT ![p] = "writing"]
            /\ UNCHANGED <<callerVars, rtok, lost>>
       ELSE /\ lost' = lost \cup {rtok[p]}
            /\ RefreshOver(p, "idle")
            /\ UNCHANGED <<snap, writeVars>>
    /\ UNCHANGED <<file, temp, live, lpc>>

-------------------------------------------------------------------------------
(* Write: a temporary file opened exclusively, filled, synced and renamed *)

\* The promise of Write settles: a client's refresh ends with it, or a callback.
WriteOver(w, outcome) ==
    /\ wpc' = [wpc EXCEPT ![w] = "none"] /\ rec' = [rec EXCEPT ![w] = None]
    /\ IF w \in Clients
       THEN RefreshOver(w, outcome) /\ UNCHANGED lpc
       ELSE lpc' = [lpc EXCEPT ![w] = "over"] /\ UNCHANGED <<pc, forced, refreshVars>>

\* Of the tokens in S, those the file does not hold are gone.
Dropped(S) == lost \cup (S \ IF file \in Records THEN {file.token} ELSE {})

\* The token in some content of a temporary file, if it has one.
TokenOf(content) == IF content \in Records THEN {content.token}
                    ELSE IF content \in [by : Writers] /\ rec[content.by] # None
                         THEN {rec[content.by].token} ELSE {}

\* Content that w was filling becomes `filled`, wherever it is by now.
Fill(w, filled) ==
    LET becomes(content) == IF content = [by |-> w] THEN filled ELSE content IN
    /\ file' = becomes(file)
    /\ temp' = [p \in Clients |-> becomes(temp[p])]

\* "wx: fail rather than adopt a stale temporary from a crashed run."  Writers
\* of one process use one name.
OpenTemp(w) ==
    /\ wpc[w] = "opening"
    /\ IF temp[Owner(w)] = None
       THEN /\ temp' = [temp EXCEPT ![Owner(w)] = [by |-> w]]
            /\ wpc' = [wpc EXCEPT ![w] = "filling"]
       ELSE /\ wpc' = [wpc EXCEPT ![w] = "cleaning"]
            /\ UNCHANGED temp
    /\ UNCHANGED <<file, live, callerVars, refreshVars, lpc, rec, lost>>

FillTemp(w) ==
    /\ wpc[w] = "filling"
    /\ \/ Fill(w, rec[w]) /\ wpc' = [wpc EXCEPT ![w] = "renaming"]
       \/ Failures /\ Fill(w, Torn) /\ wpc' = [wpc EXCEPT ![w] = "cleaning"]
    /\ UNCHANGED <<live, callerVars, refreshVars, lpc, rec, lost>>

\* Whatever has the temporary name by now is published.
RenameTemp(w) ==
    /\ wpc[w] = "renaming"
    /\ IF temp[Owner(w)] # None
       THEN /\ file' = temp[Owner(w)]
            /\ temp' = [temp EXCEPT ![Owner(w)] = None]
            /\ WriteOver(w, "sending")
       ELSE /\ wpc' = [wpc EXCEPT ![w] = "cleaning"]
            /\ UNCHANGED <<file, temp, pc, forced, refreshVars, lpc, rec>>
    /\ UNCHANGED <<live, snap, lost>>

\* catch: whatever has the temporary name is removed, and Write throws.
CleanUp(w) ==
    /\ wpc[w] = "cleaning"
    /\ lost' = Dropped({rec[w].token} \cup TokenOf(temp[Owner(w)]))
    /\ temp' = [temp EXCEPT ![Owner(w)] = None]
    /\ WriteOver(w, "idle")
    /\ UNCHANGED <<file, live, snap>>

-------------------------------------------------------------------------------
(* Logins, and the end of a process *)

BeginLogin(l) ==
    /\ lpc[l] = "none"
    /\ lpc' = [lpc EXCEPT ![l] = "pending"]
    /\ UNCHANGED <<file, temp, live, callerVars, refreshVars, writeVars, lost>>

\* The callback claims the pending login and exchanges its code for the first
\* token, unless EVE or the operator refuses, the login is too old, or the answer
\* has no refresh token, which Write refuses to store.
Callback(l) ==
    /\ lpc[l] = "pending"
    /\ \/ /\ live' = [live EXCEPT ![l] = 1]
          /\ rec' = [rec EXCEPT ![l] = [token |-> <<l, 1>>, who |-> Identity(l)]]
          /\ wpc' = [wpc EXCEPT ![l] = "opening"]
          /\ lpc' = [lpc EXCEPT ![l] = "writing"]
       \/ /\ lpc' = [lpc EXCEPT ![l] = "over"]
          /\ UNCHANGED <<live, writeVars>>
    /\ UNCHANGED <<file, temp, callerVars, refreshVars, lost>>

\* The process dies and is started again.  Its temporary file stays, and stays
\* in the way only if the new process has the old one's number.
Crash(p) ==
    LET mine == {w \in Writers : Owner(w) = p}
        became(content) == IF content \in [by : mine] THEN Torn ELSE content
    IN
    /\ Failures
    /\ lost' = Dropped({rec[w].token : w \in {v \in mine : rec[v] # None}}
                         \cup (IF rpc[p] = "rotated" THEN {rtok[p]} ELSE {}))
    /\ file' = became(file)
    /\ temp' \in {[temp EXCEPT ![p] = became(@)], [temp EXCEPT ![p] = None]}
    /\ pc' = [c \in Callers |-> IF ClientOf[c] = p THEN "idle" ELSE pc[c]]
    /\ forced' = [c \in Callers |-> ClientOf[c] # p /\ forced[c]]
    /\ snap' = [c \in Callers |-> IF ClientOf[c] = p THEN None ELSE snap[c]]
    /\ rpc' = [rpc EXCEPT ![p] = "none"] /\ rtok' = [rtok EXCEPT ![p] = None]
    /\ wpc' = [w \in Writers |-> IF w \in mine THEN "none" ELSE wpc[w]]
    /\ rec' = [w \in Writers |-> IF w \in mine THEN None ELSE rec[w]]
    /\ lpc' = IF p = Service
              THEN [l \in Logins |-> IF lpc[l] = "none" THEN "none" ELSE "over"] ELSE lpc
    /\ UNCHANGED live

-------------------------------------------------------------------------------
Next ==
    \/ \E c \in Callers : \/ Get(c) \/ ReadAgain(c) \/ UseStored(c)
                          \/ AwaitRefresh(c) \/ Answered(c)
    \/ \E p \in Clients : \/ Spend(p) \/ Refused(p) \/ AnswerLost(p)
                          \/ ReadBack(p) \/ Crash(p)
    \/ \E w \in Writers : OpenTemp(w) \/ FillTemp(w) \/ RenameTemp(w) \/ CleanUp(w)
    \/ \E l \in Logins : BeginLogin(l) \/ Callback(l)

Spec == Init /\ [][Next]_vars

\* The disk answers, and every request is bounded by a timeout.
Fairness ==
    /\ \A c \in Callers : /\ WF_vars(ReadAgain(c)) /\ WF_vars(Answered(c))
                          /\ WF_vars(UseStored(c) \/ AwaitRefresh(c))
    /\ \A p \in Clients : /\ WF_vars(Spend(p) \/ Refused(p))
                          /\ WF_vars(ReadBack(p) \/ AnswerLost(p))
    /\ \A w \in Writers : /\ WF_vars(OpenTemp(w)) /\ WF_vars(FillTemp(w))
                          /\ WF_vars(RenameTemp(w)) /\ WF_vars(CleanUp(w))

FairSpec == Spec /\ Fairness

-------------------------------------------------------------------------------
(* Properties *)

\* Every variable has the values its comment names: the record and the
\* temporaries on disk, the calls, the refresh and the writes in flight
\* (CjsToolEsiClient.js:22, CjsToolTokenFile.js:25).
TypeOK ==
    /\ file \in Contents \cup {None}
    /\ temp \in [Clients -> Contents \cup {None}]
    /\ live \in [Logins -> 0..MaxVersion]
    /\ pc \in [Callers -> {"idle", "reading", "resuming", "waiting", "sending"}]
    /\ forced \in [Callers -> BOOLEAN]
    /\ snap \in [Callers -> Tokens \cup {None}]
    /\ rpc \in [Clients -> {"none", "spending", "rotated", "writing"}]
    /\ rtok \in [Clients -> Tokens \cup {None}]
    /\ lpc \in [Logins -> {"none", "pending", "writing", "over"}]
    /\ wpc \in [Writers -> {"none", "opening", "filling", "renaming", "cleaning"}]
    /\ rec \in [Writers -> Records \cup {None}]
    /\ lost \in SUBSET Tokens

\* "EVE rotates on every refresh, so dropping the new token strands the session"
\* (CjsToolEsiClient.js:17): the live token of the session is in the file, or on
\* its way there, or it went with a lost answer, a dead process or a failed
\* write; no interleaving of calls, refreshes and logins forgets it otherwise.
LiveTokenIsKept ==
    file \in Records =>
        LET l == file.token[1]
            t == <<l, live[l]>>
        IN \/ file.token = t \/ t \in lost
           \/ \E p \in Clients : rtok[p] = t /\ rpc[p] = "rotated"
           \/ \E w \in Writers : rec[w] # None /\ rec[w].token = t

\* A refresh keeps the identity only a login knows ("dropping them on the first
\* refresh would leave a signed-in session that no longer knows whose it is",
\* CjsToolEsiClient.js:172-176): while every login's token named somebody, the
\* record does, whatever refreshes, logins, failed writes and crashes met.
IdentityIsKept ==
    file \in Records /\ file.who = None => \E l \in Nameless : live[l] # 0

\* Every Get ends, whatever EVE, the disk and the other callers do: it shares a
\* refresh that settles and retries once ("One retry", CjsToolEsiClient.js:82).
GetEnds == \A c \in Callers : pc[c] # "idle" ~> pc[c] = "idle"

===============================================================================
