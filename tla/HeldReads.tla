------------------------------- MODULE HeldReads -------------------------------
(***************************************************************************)
(* The caches that hold what was read upstream and let the callers who     *)
(* come meanwhile share one read:                                          *)
(*   "orders"    CjsToolMarketEsi.#Held, until the answer's own expiry     *)
(*   "identity"  CjsToolPublicIdentity.Character, for a time               *)
(*   "names"     CjsToolPublicIdentity.Resolve, for a time, also the null  *)
(*               it makes of a question that failed                        *)
(*   "latest"    CjsToolIndexBuildResolver.#ResolveCached and              *)
(*               CjsToolSdeArchive.ResolveLatest, from the read's start    *)
(*   "rate"      CjsToolPlexRate.Read, which keeps its last good value     *)
(* A behaviour is of one of the five.  A read is one answer, all pages and *)
(* names of it; a value is the moment it was observed.                     *)
(*                                                                         *)
(* A definition named X_ and what it forgets stands before X and is X with *)
(* a plausible bug; nothing here uses it.                                  *)
(***************************************************************************)
EXTENDS Naturals, Sequences, SequencesExt

CONSTANTS
    Callers,        \* calls, each for one key
    Keys,
    MaxEntries,     \* MAX_ENTRIES, for the two caches that have a limit
    Lifetime,       \* how long an answer holds
    MaxTime,        \* bound: the clock stops
    Unknown,        \* the null held for a question that failed
    None

ASSUME LimitsArePositive == {MaxEntries, Lifetime} \subseteq Nat \ {0} /\ MaxTime \in Nat
ASSUME NoneIsNobody == None \notin Callers
ASSUME SomeKey == Keys # {}
ASSUME UnknownIsNoTime == Unknown \notin Nat \cup {None}

Caches == {"orders", "identity", "names", "latest", "rate"}

VARIABLES
    cache,      \* which of the five
    now,
    entries,    \* a Map: the keys it has, in the order they were first set
    held,       \* of each key: the read under way, and the value with its expiry
    pc,         \* where each caller is
    call,       \* its key, when it asked, whose read it awaits
    got,        \* what its own read observed, then what it was answered
    crowded     \* the keys that lost a read under way to the limit

vars == <<cache, now, entries, held, pc, call, got, crowded>>

Absent == [read |-> None, value |-> None, until |-> 0]

Init ==
    /\ cache \in Caches
    /\ now = 0 /\ entries = <<>> /\ crowded = {}
    /\ held = [k \in Keys |-> Absent]
    /\ pc = [c \in Callers |-> "idle"]
    /\ call = [c \in Callers |-> None]
    /\ got = [c \in Callers |-> None]

Limited == cache \in {"orders", "identity", "names"}
Key(c) == call[c].key
Reading(c) == pc[c] \in {"asking", "observed"}

Goto(c, where) == pc' = [pc EXCEPT ![c] = where]

-------------------------------------------------------------------------------
(* The Map *)

Has(k) == \E i \in DOMAIN entries : entries[i] = k

\* set: a key that is there keeps its place.  The rate is in no Map.
Put(k) == IF Has(k) \/ cache = "rate" THEN entries ELSE Append(entries, k)

\* #Trim: the keys first set go, whatever they hold.
Trimmed(seq) ==
    IF Limited /\ Len(seq) > MaxEntries
    THEN SubSeq(seq, Len(seq) - MaxEntries + 1, Len(seq)) ELSE seq

-------------------------------------------------------------------------------
(* A call *)

\* What was observed or, failing, kept is answered without a question.
Fresh(k) == held[k].value # None /\ now < held[k].until

\* A read under way is shared; the latest build's is for as long as its answer
\* would be.
Shared(k) == held[k].read # None /\ (cache = "latest" => now < held[k].until)

Asked(c, k, whose) == [call EXCEPT ![c] = [key |-> k, at |-> now, whose |-> whose]]

AskHeld(c, k) ==
    /\ pc[c] = "idle" /\ Fresh(k)
    /\ call' = Asked(c, k, None)
    /\ got' = [got EXCEPT ![c] = [seen |-> held[k].value, until |-> held[k].until]]
    /\ Goto(c, "answered")
    /\ UNCHANGED <<cache, now, entries, held, crowded>>

AskShared(c, k) ==
    /\ pc[c] = "idle" /\ ~Fresh(k) /\ Shared(k)
    /\ call' = Asked(c, k, held[k].read)
    /\ Goto(c, "waiting")
    /\ UNCHANGED <<cache, now, entries, held, got, crowded>>

\* The rate keeps its last value beside the read; the others replace the entry.
AskUpstream(c, k) ==
    /\ pc[c] = "idle" /\ ~Fresh(k) /\ ~Shared(k)
    /\ call' = Asked(c, k, c)
    /\ entries' = Put(k)
    /\ held' = [held EXCEPT ![k] =
                  IF cache = "rate" THEN [@ EXCEPT !.read = c]
                  ELSE [read |-> c, value |-> None, until |-> now + Lifetime]]
    /\ Goto(c, "asking")
    /\ UNCHANGED <<cache, now, got, crowded>>

\* Upstream answers; its answer says itself how long it holds.
Observe(c) ==
    /\ pc[c] = "asking"
    /\ \E life \in 1..Lifetime :
         /\ cache # "orders" => life = Lifetime
         /\ got' = [got EXCEPT ![c] = [seen |-> now, until |-> now + life]]
    /\ Goto(c, "observed")
    /\ UNCHANGED <<cache, now, entries, held, call, crowded>>

\* #IdentifyName and #PostNames catch what their POST throws: the answer is that
\* nobody has the name.
Swallow(c) ==
    /\ pc[c] = "asking" /\ cache = "names"
    /\ got' = [got EXCEPT ![c] = [seen |-> Unknown, until |-> now]]
    /\ Goto(c, "observed")
    /\ UNCHANGED <<cache, now, entries, held, call, crowded>>

\* Every answer is held for a time from now.
Until_FromNow(c) == now + Lifetime

\* Until when an answer is held: its own expiry, or so long after the read's start,
\* or after its end.
Until(c) ==
    CASE cache = "orders" -> got[c].until
      [] cache = "latest" -> call[c].at + Lifetime
      [] OTHER -> now + Lifetime

\* The value is set under its key, whether or not the entry is still there or
\* still this read's; the latest build's entry is what it was, a promise.
Keep(c) ==
    /\ pc[c] = "observed"
    /\ LET k == Key(c)
           mine == cache # "latest" \/ held[k].read = c
           seq == IF mine THEN Put(k) ELSE entries
           gone == ToSet(seq) \ ToSet(Trimmed(seq))
       IN /\ held' = [key \in Keys |->
                IF key \in gone THEN Absent
                ELSE IF key = k /\ mine
                     THEN [read |-> None, value |-> got[c].seen, until |-> Until(c)]
                     ELSE held[key]]
          /\ entries' = Trimmed(seq)
          /\ crowded' = crowded \cup {key \in gone \ {k} : held[key].read # None}
    /\ got' = [got EXCEPT ![c].until = Until(c)]
    /\ Goto(c, "answered")
    /\ UNCHANGED <<cache, now, call>>

Delete(k) ==
    /\ entries' = Remove(entries, k)
    /\ held' = [held EXCEPT ![k] = Absent]

\* A failed read stays, and whoever comes shares its failure.
Fail_Kept(c) ==
    /\ Reading(c) /\ cache # "rate"
    /\ Goto(c, "failed")
    /\ UNCHANGED <<cache, now, entries, held, call, got, crowded>>

\* Nobody looks whose entry it is.
Fail_DropsAny(c) ==
    /\ Reading(c) /\ cache # "rate"
    /\ Delete(Key(c))
    /\ Goto(c, "failed")
    /\ UNCHANGED <<cache, now, call, got, crowded>>

\* Whatever the key has is dropped: not cached, "the next caller should get a real
\* attempt", but for what Swallow hid.  The latest build's caches look whose entry
\* it is.
Fail(c) ==
    /\ Reading(c) /\ cache # "rate"
    /\ IF cache = "latest" /\ held[Key(c)].read # c
       THEN UNCHANGED <<entries, held>> ELSE Delete(Key(c))
    /\ Goto(c, "failed")
    /\ UNCHANGED <<cache, now, call, got, crowded>>

\* The rate answers with what it had.
FailRate(c) ==
    /\ Reading(c) /\ cache = "rate"
    /\ held' = [held EXCEPT ![Key(c)].read = None]
    /\ got' = [got EXCEPT ![c] = [seen |-> held[Key(c)].value, until |-> held[Key(c)].until]]
    /\ Goto(c, "answered")
    /\ UNCHANGED <<cache, now, entries, call, crowded>>

\* Those who waited get what the read's owner got.
Wake(c) ==
    /\ pc[c] = "waiting" /\ pc[call[c].whose] \in {"answered", "failed"}
    /\ got' = [got EXCEPT ![c] = got[call[c].whose]]
    /\ Goto(c, pc[call[c].whose])
    /\ UNCHANGED <<cache, now, entries, held, call, crowded>>

Tick ==
    /\ now < MaxTime
    /\ now' = now + 1
    /\ UNCHANGED <<cache, entries, held, pc, call, got, crowded>>
-------------------------------------------------------------------------------
\* The rate is one value.
Served == IF cache = "rate" THEN {CHOOSE k \in Keys : TRUE} ELSE Keys

Ask(c) == \E k \in Served : AskHeld(c, k) \/ AskShared(c, k) \/ AskUpstream(c, k)
Settle(c) == Keep(c) \/ Fail(c) \/ FailRate(c)

Next == (\E c \in Callers : Ask(c) \/ Observe(c) \/ Swallow(c) \/ Settle(c) \/ Wake(c)) \/ Tick

Spec == Init /\ [][Next]_vars

-------------------------------------------------------------------------------
(* Properties *)

\* What is answered without a question is no older than an answer may be: the time
\* a read takes, however long, does not prolong it ("Freshness is ESI's to decide",
\* CjsToolMarketEsi.js:46).  An identity's counts from the read's end, and the
\* rate may be any age.
AnswersAreYoung ==
    \A c \in Callers : pc[c] = "answered" /\ call[c].whose = None /\ cache \in {"orders", "latest"} =>
        call[c].at < got[c].seen + Lifetime

\* "Concurrent callers share one in-flight" read (CjsToolPublicIdentity.js:88,
\* CjsToolMarketEsi.js:282, CjsToolPlexRate.js:93), except where the limit has
\* dropped one that was under way, or the latest build's outlived its answer.
SharedWhileItFits ==
    \A c, d \in Callers : c # d /\ Reading(c) /\ Reading(d) /\ Key(c) = Key(d) =>
        \/ Limited /\ Key(c) \in crowded
        \/ cache = "latest" /\ \E e \in {c, d} : call[e].at + Lifetime <= now

\* A failure is not inherited: what a new caller would wait for is a read still
\* under way, for its key ("the next caller should get a real attempt",
\* CjsToolMarketEsi.js:305, CjsToolPublicIdentity.js:129).  The exception are the
\* names: the null of a question that failed is answered to all who ask in the
\* lifetime that follows, and to nobody after it.
NextCallerGetsAnAttempt ==
    \A k \in Keys :
        /\ held[k].read # None => Reading(held[k].read) /\ Key(held[k].read) = k
        /\ held[k].value = Unknown => cache = "names" /\ held[k].until <= now + Lifetime
===============================================================================
