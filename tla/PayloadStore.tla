------------------------------ MODULE PayloadStore ------------------------------
(***************************************************************************)
(* The shared store of content-addressed payloads                         *)
(* (src/cache/CjsToolCache.js) and everything that reads and writes it at  *)
(* once: fetches by logical path, which share downloads                    *)
(* (src/indexing/CjsToolIndexSource.js), generated payloads, the addressed *)
(* routes, whose compressed one migrates the store as it answers           *)
(* (src/indexing/CjsToolIndex.js, src/proxy/CjsToolHttpProxy.js), and the  *)
(* prune (bin/cjs-tools-cache-prune.js).                                   *)
(*                                                                         *)
(* A payload has two files: its bytes under the address, and the gzip of   *)
(* them under <address>.gz.  What a file holds is "whole" or "unproven":   *)
(* bytes proven to be those the address names, or any others.  Addresses   *)
(* that a persistent overlay answers never reach the store and are left    *)
(* out.                                                                    *)
(*                                                                         *)
(* A definition named X_ and what it forgets stands before X and is X with *)
(* a plausible bug; nothing here uses it.                                  *)
(***************************************************************************)
EXTENDS Naturals

CONSTANTS
    Calls,          \* slots for concurrent requests of the service
    Sources,        \* index sources: one per target and build
    Addresses,
    Generated,      \* those written by our own tools, which no remote has
    Kept,           \* those some kept build references, which no prune removes
    Unchecked,      \* pairs of a source and an address whose MD5 its row omits
    None

Contents == {"whole", "unproven"}
Downloads == [source : Sources, addr : Addresses \ Generated, refresh : BOOLEAN]

\* "gzip" is said to be gzip, "unsaid" is gzip that is not; "unavailable" is the
\* 503 of a generated payload, "missing" the 404 of an address.
Answers == {"payload", "gzip", "unsaid", "missing", "unavailable", "failed"}

ASSUME ConstantsAssumption ==
    /\ Generated \subseteq Addresses /\ Kept \subseteq Addresses
    /\ Unchecked \subseteq Sources \X (Addresses \ Generated)
    /\ None \notin Addresses \cup Downloads \cup Contents \cup Answers

VARIABLES
    raw,        \* [Addresses -> Contents \cup {None}]: the file <address>
    gz,         \* [Addresses -> Contents \cup {None}]: the file <address>.gz
    pc,         \* [Calls -> Steps]: where a request is
    addr,       \* [Calls -> Addresses \cup {None}]: the address it is about
    key,        \* [Calls -> Downloads \cup {None}]: the #inflight entry it awaits
    bytes,      \* [Calls -> Contents \cup {None}]: what it read, before encoding
    answer,     \* [Calls -> Answers \cup {None}]
    job,        \* [Downloads -> "none" | "cache" | "request" | "exists" | "write"]
    got,        \* [Downloads -> Contents \cup {None}]: what a download returned
    missed      \* [Calls -> BOOLEAN]: neither file was there at some moment of the
                \* request (history)

Steps == {"idle", "sharing", "generated", "raw", "copy",
          "gz", "source", "exists", "write", "unlink", "bare", "answered"}

fileVars == <<raw, gz>>
callVars == <<pc, addr, key, bytes, answer, missed>>
jobVars == <<job, got>>
vars == <<fileVars, callVars, jobVars>>

Missing(a) == raw[a] = None /\ gz[a] = None

\* Requests that are under way when a file goes.
Noticed == [c \in Calls |-> \/ missed[c]
                            \/ addr[c] # None /\ raw'[addr[c]] = None /\ gz'[addr[c]] = None]

-------------------------------------------------------------------------------
\* The addresses that nothing stores unchecked: every row that names one declares
\* the MD5 that is in it, or our own tools computed it.
Vouched == {a \in Addresses : \A s \in Sources : <<s, a>> \notin Unchecked}

\* What may be held of an address in any form.
Fine(a, content) == content \in Contents /\ (a \in Vouched => content = "whole")

\* The files of one form that an earlier run leaves: what it stored unchecked is
\* not known to be whole.
Left == {f \in [Addresses -> Contents \cup {None}] :
            \A a \in Addresses : f[a] # IF a \in Vouched THEN "unproven" ELSE "whole"}

\* A cache directory as any earlier run leaves it.
Init ==
    /\ raw \in Left /\ gz \in Left
    /\ pc = [c \in Calls |-> "idle"]
    /\ addr = [c \in Calls |-> None]
    /\ key = [c \in Calls |-> None]
    /\ bytes = [c \in Calls |-> None]
    /\ answer = [c \in Calls |-> None]
    /\ job = [k \in Downloads |-> "none"]
    /\ got = [k \in Downloads |-> None]
    /\ missed = [c \in Calls |-> FALSE]

-------------------------------------------------------------------------------
(* The steps of a request *)

Begin(c, a, step) ==
    /\ pc[c] = "idle"
    /\ pc' = [pc EXCEPT ![c] = step]
    /\ addr' = [addr EXCEPT ![c] = a]
    /\ missed' = [missed EXCEPT ![c] = Missing(a)]
    /\ UNCHANGED <<bytes, answer>>

Continue(c, to) ==
    /\ pc' = [pc EXCEPT ![c] = to]
    /\ UNCHANGED <<addr, key, answer, missed>>

Reply(c, content, result) ==
    /\ pc' = [pc EXCEPT ![c] = "answered"]
    /\ bytes' = [bytes EXCEPT ![c] = content]
    /\ answer' = [answer EXCEPT ![c] = result]
    /\ UNCHANGED <<addr, key, missed>>

End(c) ==
    /\ pc[c] = "answered"
    /\ pc' = [pc EXCEPT ![c] = "idle"]
    /\ addr' = [addr EXCEPT ![c] = None]
    /\ key' = [key EXCEPT ![c] = None]
    /\ bytes' = [bytes EXCEPT ![c] = None]
    /\ answer' = [answer EXCEPT ![c] = None]
    /\ missed' = [missed EXCEPT ![c] = FALSE]
    /\ UNCHANGED <<fileVars, jobVars>>

-------------------------------------------------------------------------------
(* Fetch by logical path: requests of one source for one payload share a job *)

Fetch(c, k) ==
    /\ Begin(c, k.addr, "sharing")
    /\ key' = [key EXCEPT ![c] = k]
    /\ job' = [job EXCEPT ![k] = IF @ # "none" THEN @
                                 ELSE IF k.refresh THEN "request" ELSE "cache"]
    /\ UNCHANGED <<fileVars, got>>

\* The entry goes, and only the request that made it is answered.
Settle_OnlyOne(k, content, result) ==
    LET c == CHOOSE d \in Calls : key[d] = k /\ pc[d] = "sharing" IN
    /\ job' = [job EXCEPT ![k] = "none"]
    /\ got' = [got EXCEPT ![k] = None]
    /\ pc' = [pc EXCEPT ![c] = "answered"]
    /\ bytes' = [bytes EXCEPT ![c] = content]
    /\ answer' = [answer EXCEPT ![c] = result]
    /\ UNCHANGED <<addr, key, missed>>

\* The shared promise settles: everyone who awaits it goes on, and the first of
\* them takes the entry out of #inflight.
Settle(k, content, result) ==
    LET shares(c) == pc[c] = "sharing" /\ key[c] = k IN
    /\ job' = [job EXCEPT ![k] = "none"]
    /\ got' = [got EXCEPT ![k] = None]
    /\ pc' = [c \in Calls |-> IF shares(c) THEN "answered" ELSE pc[c]]
    /\ bytes' = [c \in Calls |-> IF shares(c) THEN content ELSE bytes[c]]
    /\ answer' = [c \in Calls |-> IF shares(c) THEN result ELSE answer[c]]
    /\ UNCHANGED <<addr, key, missed>>

\* A cached payload "is trusted without re-hashing"; its gzip is not looked for.
ReadCache(k) ==
    /\ job[k] = "cache"
    /\ \/ /\ raw[k.addr] # None
          /\ Settle(k, raw[k.addr], "payload")
       \/ /\ raw[k.addr] = None
          /\ job' = [job EXCEPT ![k] = "request"]
          /\ UNCHANGED <<got, callVars>>
    /\ UNCHANGED fileVars

\* The length and the MD5, of which only what the index row declares is checked.
Passes(k, content) ==
    content = IF <<k.source, k.addr>> \in Unchecked THEN "unproven" ELSE "whole"

\* Whatever comes is checked once, here.
Download(k) ==
    /\ job[k] = "request"
    /\ \E content \in Contents : Passes(k, content) /\ got' = [got EXCEPT ![k] = content]
    /\ job' = [job EXCEPT ![k] = "exists"]
    /\ UNCHANGED <<fileVars, callVars>>

\* No answer in time, too long, not OK, or not what the row says; or no write.
DownloadFails(k) ==
    /\ job[k] \in {"request", "write"}
    /\ Settle(k, None, "failed")
    /\ UNCHANGED fileVars

\* WriteRemote keeps what is there ...
CheckStored(k) ==
    /\ job[k] = "exists"
    /\ \/ /\ raw[k.addr] # None
          /\ Settle(k, got[k], "payload")
       \/ /\ raw[k.addr] = None
          /\ job' = [job EXCEPT ![k] = "write"]
          /\ UNCHANGED <<got, callVars>>
    /\ UNCHANGED fileVars

\* The file is written under its own name, and may be seen or left half done.
StoreRaw_InPlace(k) ==
    /\ job[k] = "write"
    /\ \E content \in Contents : raw' = [raw EXCEPT ![k.addr] = content]
    /\ Settle(k, got[k], "payload")
    /\ UNCHANGED gz

\* ... and renames a complete temporary of a random name otherwise.
StoreRaw(k) ==
    /\ job[k] = "write"
    /\ raw' = [raw EXCEPT ![k.addr] = got[k]]
    /\ Settle(k, got[k], "payload")
    /\ UNCHANGED gz

\* FetchCachedResolution: the raw file or nothing.
FetchGenerated(c, a) ==
    /\ a \in Generated
    /\ Begin(c, a, "generated")
    /\ UNCHANGED <<fileVars, key, jobVars>>

ReadGenerated(c) ==
    /\ pc[c] = "generated"
    /\ \/ raw[addr[c]] # None /\ Reply(c, raw[addr[c]], "payload")
       \/ raw[addr[c]] = None /\ Reply(c, None, "unavailable")
    /\ UNCHANGED <<fileVars, jobVars>>

-------------------------------------------------------------------------------
(* The route /resfiles/<address>: the raw file, or else the gzip unpacked *)

AskPlain(c, a) == Begin(c, a, "raw") /\ UNCHANGED <<fileVars, key, jobVars>>

ReadRaw(c) ==
    /\ pc[c] = "raw"
    /\ \/ raw[addr[c]] # None /\ Reply(c, raw[addr[c]], "payload")
       \/ raw[addr[c]] = None /\ Continue(c, "copy") /\ UNCHANGED bytes
    /\ UNCHANGED <<fileVars, jobVars>>

ReadCopy(c) ==
    /\ pc[c] = "copy"
    /\ \/ gz[addr[c]] # None /\ Reply(c, gz[addr[c]], "payload")
       \/ gz[addr[c]] = None /\ Reply(c, None, "missing")
    /\ UNCHANGED <<fileVars, jobVars>>

-------------------------------------------------------------------------------
(* The route /resfiles/<address>.gz: the gzip, or else one made from the raw *)
(* file, which it replaces                                                   *)

AskCompressed(c, a) == Begin(c, a, "gz") /\ UNCHANGED <<fileVars, key, jobVars>>

ReadGz(c) ==
    /\ pc[c] = "gz"
    /\ \/ gz[addr[c]] # None /\ Reply(c, gz[addr[c]], "gzip")
       \/ gz[addr[c]] = None /\ Continue(c, "source") /\ UNCHANGED bytes
    /\ UNCHANGED <<fileVars, jobVars>>

\* The raw file is removed as soon as it has been read.
ReadSource_AndUnlink(c) ==
    /\ pc[c] = "source"
    /\ \/ /\ raw[addr[c]] # None
          /\ Continue(c, "exists")
          /\ bytes' = [bytes EXCEPT ![c] = raw[addr[c]]]
          /\ raw' = [raw EXCEPT ![addr[c]] = None]
       \/ /\ raw[addr[c]] = None
          /\ Continue(c, "bare")
          /\ UNCHANGED <<raw, bytes>>
    /\ UNCHANGED <<gz, jobVars>>

\* Compressed, and confirmed to decompress to what was read.
ReadSource(c) ==
    /\ pc[c] = "source"
    /\ \/ /\ raw[addr[c]] # None
          /\ Continue(c, "exists")
          /\ bytes' = [bytes EXCEPT ![c] = raw[addr[c]]]
       \/ /\ raw[addr[c]] = None
          /\ Continue(c, "bare")
          /\ UNCHANGED bytes
    /\ UNCHANGED <<fileVars, jobVars>>

CheckCopy(c) ==
    /\ pc[c] = "exists"
    /\ Continue(c, IF gz[addr[c]] # None THEN "unlink" ELSE "write")
    /\ UNCHANGED <<fileVars, bytes, jobVars>>

StoreCopy(c) ==
    /\ pc[c] = "write"
    /\ \/ Continue(c, "unlink") /\ UNCHANGED bytes
            /\ gz' = [gz EXCEPT ![addr[c]] = bytes[c]]
       \/ Reply(c, None, "failed") /\ UNCHANGED gz
    /\ UNCHANGED <<raw, jobVars>>

\* "Already gone, or held open by another reader on Windows" is not an error; any
\* other reason fails the request, with both files there.
Unlink(c) ==
    /\ pc[c] = "unlink"
    /\ UNCHANGED <<gz, jobVars>>
    /\ \/ /\ raw' \in {raw, [raw EXCEPT ![addr[c]] = None]}
          /\ pc' = [pc EXCEPT ![c] = "answered"]
          /\ answer' = [answer EXCEPT ![c] = "gzip"]
          /\ missed' = Noticed
          /\ UNCHANGED <<addr, key, bytes>>
       \/ Reply(c, None, "failed") /\ UNCHANGED raw

\* The address is unknown as soon as it has no raw file.
ReadBare_GivesUp(c) ==
    /\ pc[c] = "bare"
    /\ Reply(c, None, "missing")
    /\ UNCHANGED <<fileVars, jobVars>>

\* "A stored payload may legitimately be named .gz": the route asks for
\* <address>.gz as an address of its own, and sends that file as it is.
ReadBare(c) ==
    /\ pc[c] = "bare"
    /\ \/ gz[addr[c]] # None /\ Reply(c, gz[addr[c]], "unsaid")
       \/ gz[addr[c]] = None /\ Reply(c, None, "missing")
    /\ UNCHANGED <<fileVars, jobVars>>

-------------------------------------------------------------------------------
(* Another process builds into or prunes the directory, or this one ends *)

\* The audio builder stores a payload under the MD5 it just computed; what it
\* found there, and when it looked, makes no difference.
Publish(a) ==
    /\ a \in Generated
    /\ raw' = [raw EXCEPT ![a] = "whole"]
    /\ UNCHANGED <<gz, callVars, jobVars>>

\* isKept: a file with an extension is kept with the address before it.
Spared(a) == a \in Kept

Prune(a) ==
    /\ ~Spared(a)
    /\ \/ raw' = [raw EXCEPT ![a] = None] /\ UNCHANGED gz
       \/ gz' = [gz EXCEPT ![a] = None] /\ UNCHANGED raw
    /\ missed' = Noticed
    /\ UNCHANGED <<pc, addr, key, bytes, answer, jobVars>>

\* The service stops and is started again: only the files stay.
Restart ==
    /\ pc' = [c \in Calls |-> "idle"]
    /\ addr' = [c \in Calls |-> None] /\ key' = [c \in Calls |-> None]
    /\ bytes' = [c \in Calls |-> None] /\ answer' = [c \in Calls |-> None]
    /\ missed' = [c \in Calls |-> FALSE]
    /\ job' = [k \in Downloads |-> "none"] /\ got' = [k \in Downloads |-> None]
    /\ UNCHANGED fileVars

-------------------------------------------------------------------------------
Job(k) == ReadCache(k) \/ Download(k) \/ DownloadFails(k) \/ CheckStored(k) \/ StoreRaw(k)

Request(c) ==
    \/ ReadGenerated(c) \/ ReadRaw(c) \/ ReadCopy(c) \/ ReadGz(c) \/ ReadSource(c)
    \/ CheckCopy(c) \/ StoreCopy(c) \/ Unlink(c) \/ ReadBare(c) \/ End(c)

Next ==
    \/ \E c \in Calls : \/ \E k \in Downloads : Fetch(c, k)
                        \/ \E a \in Addresses : \/ FetchGenerated(c, a)
                                                \/ AskPlain(c, a) \/ AskCompressed(c, a)
                        \/ Request(c)
    \/ \E k \in Downloads : Job(k)
    \/ \E a \in Addresses : Publish(a) \/ Prune(a)
    \/ Restart

Spec == Init /\ [][Next]_vars

\* The disk answers, and a download is bounded by its timeout.
Fairness == /\ \A c \in Calls : WF_vars(Request(c))
            /\ \A k \in Downloads : WF_vars(Job(k))

FairSpec == Spec /\ Fairness

-------------------------------------------------------------------------------
(* Properties *)

\* Every variable has the values its comment names, and a request that shares a
\* download awaits one that is under way (CjsToolCache.js:105-138,
\* CjsToolIndexSource.js:209-239).
TypeOK ==
    /\ raw \in [Addresses -> Contents \cup {None}]
    /\ gz \in [Addresses -> Contents \cup {None}]
    /\ pc \in [Calls -> Steps]
    /\ addr \in [Calls -> Addresses \cup {None}]
    /\ key \in [Calls -> Downloads \cup {None}]
    /\ bytes \in [Calls -> Contents \cup {None}]
    /\ answer \in [Calls -> Answers \cup {None}]
    /\ job \in [Downloads -> {"none", "cache", "request", "exists", "write"}]
    /\ got \in [Downloads -> Contents \cup {None}]
    /\ missed \in [Calls -> BOOLEAN]
    /\ \A c \in Calls : pc[c] = "sharing" => key[c] \in Downloads /\ job[key[c]] # "none"

\* "A cached payload is either complete or missing" (CjsToolCache.js:107-109),
\* which is why nobody checks one again: through downloads, migrations and
\* restarts no file of an address that every row vouches for, and no answer about
\* it that is labelled as what it is, ever holds other bytes than the address
\* says.  Of two addresses it says nothing: one that a row names without an MD5
\* (CjsToolPayloadCheck.js:56-65), and one answered with its gzip unlabelled,
\* which is not what docs/reference/http-routes.md:163-169 promises.
OnlyProvenBytes ==
    /\ \A a \in Vouched : raw[a] # "unproven" /\ gz[a] # "unproven"
    /\ \A c \in Calls :
          addr[c] \in Vouched /\ answer[c] \in {"payload", "gzip"} => bytes[c] = "whole"

\* "An interruption leaves either the raw file or both ... It never leaves
\* neither" (CjsToolIndex.js:402-405): a kept payload, once stored, stays stored
\* in one of its two forms, whatever migrations, downloads and prunes overlap.
KeptIsNeverLost == [][\A a \in Kept : Missing(a)' => Missing(a)]_vars

\* "null when nothing holds it" (CjsToolIndex.js:415): a kept payload is not
\* found only if at some moment of the request it really had no file, although
\* the two files are looked for one after the other while a migration moves the
\* payload from one to the other.
NotFoundIsHonest ==
    \A c \in Calls : answer[c] = "missing" /\ addr[c] \in Kept => missed[c]

\* Every request is answered, the one that shares another's download too
\* (CjsToolIndexSource.js:209-239).
RequestsEnd == \A c \in Calls : pc[c] # "idle" ~> pc[c] = "idle"

-------------------------------------------------------------------------------
(* What the proofs need besides *)

\* A request that has missed nothing finds one of the files; one that did not
\* find the first finds the second, and the raw file goes after its copy came.
FoundLater ==
    \A c \in Calls : addr[c] \in Kept =>
        /\ ~missed[c] => ~Missing(addr[c])
        /\ pc[c] \in {"copy", "bare"} /\ ~missed[c] => gz[addr[c]] # None
        /\ pc[c] = "unlink" => gz[addr[c]] # None

\* What is on its way to a file or an answer has been checked, where a check is
\* made; a request that holds nothing yet has read nothing.
CallsAreClean ==
    \A c \in Calls : /\ addr[c] \in Vouched => bytes[c] # "unproven"
                     /\ pc[c] = "idle" => bytes[c] = None
                     /\ pc[c] \in {"exists", "write", "unlink"} => Fine(addr[c], bytes[c])
                     /\ pc[c] # "answered" => answer[c] = None

DownloadsAreClean ==
    \A k \in Downloads : /\ k.addr \in Vouched => got[k] # "unproven"
                         /\ job[k] \in {"exists", "write"} => Fine(k.addr, got[k])

HandsAreClean == CallsAreClean /\ DownloadsAreClean

\* Every request under way has an address: its download's, if it shares one.
RequestsHaveAddress ==
    \A c \in Calls : /\ pc[c] # "idle" => addr[c] # None
                     /\ pc[c] = "sharing" => key[c] # None /\ addr[c] = key[c].addr

IInv == /\ TypeOK /\ OnlyProvenBytes /\ NotFoundIsHonest
        /\ FoundLater /\ HandsAreClean /\ RequestsHaveAddress
===============================================================================
