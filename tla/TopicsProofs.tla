----------------------------- MODULE TopicsProofs -----------------------------
(***************************************************************************)
(* The topic services for any callers, keys, limits, types, prerequisites  *)
(* and fits.  A behaviour of the topics is one of each of them, as a topic *)
(* that is not served stands still; so each has an invariant of its own.   *)
(*                                                                         *)
(* ReadsInv: who reads a key is the one its entry names, unless the limit  *)
(* or the clock has taken the entry from it (Owns), and an entry that      *)
(* names a reader holds until a lifetime after it asked (HeldFor), so that *)
(* another asks only once that is over.                                    *)
(*                                                                         *)
(* SkillInv: what a walk has found is justified by what asked for it, and  *)
(* what it has visited is answered for.  A walk that is over has thus just *)
(* the types a chain of prerequisites reaches, each with its shortest      *)
(* depth and the highest level that is asked; for the depth we use that a  *)
(* set of numbers has a least one (LeastNumber).                           *)
(*                                                                         *)
(* FitInv: a record has the entries of the first and a slot for whatever    *)
(* is fitted, and a text is one written of the record.  A text has each    *)
(* place of the record once (Arranges), each group in the order of the     *)
(* record; so what is read of it has the amounts, and, as each type goes   *)
(* back to its slot, the groups of the record.                             *)
(***************************************************************************)
EXTENDS Topics, FiniteSetTheorems, WellFoundedInduction, TLAPS

-------------------------------------------------------------------------------
(* The reads *)

Entry == [read : Callers \cup {None}, value : Nat \cup {None, Unknown}, until : Nat]
Asks == [key : Keys, at : Nat, whose : Callers \cup {None}]
Answer == [seen : Nat \cup {None, Unknown}, until : Nat]

\* Every variable has the values its comment names, and a call has what it needs
\* where it is.
ReadsTypeOK ==
    /\ cache \in Caches /\ now \in Nat
    /\ held \in [Keys -> Entry]
    /\ pc \in [Callers -> {"idle", "waiting", "asking", "observed", "answered", "failed"}]
    /\ call \in [Callers -> Asks \cup {None}]
    /\ got \in [Callers -> Answer \cup {None}]

\* A caller that asked; one that waits for another; one that reads.
CallInv(c) ==
    /\ pc[c] # "idle" => call[c] \in Asks
    /\ pc[c] = "waiting" => call[c].whose \in Callers
    /\ Reading(c) => call[c].whose = c /\ call[c].at <= now
    /\ pc[c] = "observed" => /\ got[c] \in Answer
                             /\ \/ got[c].seen \in Nat /\ call[c].at <= got[c].seen
                                \/ got[c].seen = Unknown /\ cache = "names"
                             /\ cache = "orders" => got[c].until <= got[c].seen + Lifetime
    /\ pc[c] = "answered" /\ call[c].whose = None /\ cache \in {"orders", "latest"} =>
         call[c].at < got[c].seen + Lifetime

\* An entry holds no longer than it may, and names who reads for it.
HeldFor(k) ==
    /\ held[k].value # None /\ cache \in {"orders", "latest"} =>
         held[k].until <= held[k].value + Lifetime
    /\ held[k].value = Unknown => cache = "names" /\ held[k].until <= now + Lifetime
    /\ held[k].read # None =>
         /\ Reading(held[k].read) /\ Key(held[k].read) = k
         /\ cache = "latest" => held[k].until = call[held[k].read].at + Lifetime

\* The entry of a key names who reads it, or was taken from it.
Owns(c) == Reading(c) =>
    \/ held[Key(c)].read = c
    \/ Limited /\ Key(c) \in crowded
    \/ cache = "latest" /\ call[c].at + Lifetime <= now

ReadsInv ==
    /\ ReadsTypeOK
    /\ \A c \in Callers : CallInv(c) /\ Owns(c)
    /\ \A k \in Keys : HeldFor(k)

LEMMA InitReads == ASSUME Init PROVE ReadsInv
PROOF
<1>1. held = [k \in Keys |-> Absent] /\ Absent \in Entry
  BY DEF Init, Absent, Entry
<1>2. held \in [Keys -> Entry]
  BY <1>1
<1>3. pc = [c \in Callers |-> "idle"]
  BY DEF Init
<1>4. ReadsTypeOK
  BY <1>2, <1>3 DEF Init, ReadsTypeOK
<1>5. ASSUME NEW c \in Callers PROVE CallInv(c) /\ Owns(c)
  BY <1>3 DEF CallInv, Owns, Reading
<1>6. ASSUME NEW k \in Keys PROVE HeldFor(k)
  BY <1>1, UnknownIsNoTime DEF HeldFor, Absent
<1>. QED
  BY <1>4, <1>5, <1>6 DEF ReadsInv

\* The key a call is for is a key.
LEMMA ServedKeys == ASSUME NEW k \in Served PROVE k \in Keys
PROOF
  BY SomeKey DEF Served

-------------------------------------------------------------------------------
(* A step changes one caller and the entry of its key.  What stays. *)

\* Another caller stays as it is if what its entry says of it does.
LEMMA OthersStay ==
    ASSUME ReadsInv, NEW d \in Callers, pc'[d] = pc[d], call'[d] = call[d], got'[d] = got[d],
           cache' = cache, now' \in Nat, now <= now'
    PROVE  CallInv(d)'
PROOF
<1>1. CallInv(d) /\ ReadsTypeOK
  BY DEF ReadsInv
<1>2. now \in Nat
  BY <1>1 DEF ReadsTypeOK
<1>3. Reading(d) => call[d].at \in Nat
  BY <1>1 DEF CallInv, Asks, Reading
<1>. QED
  BY <1>1, <1>2, <1>3 DEF CallInv, Reading

LEMMA OwnsStay ==
    ASSUME ReadsInv, NEW d \in Callers, pc'[d] = pc[d], call'[d] = call[d], cache' = cache,
           now' \in Nat, now <= now', crowded \subseteq crowded',
           Reading(d) /\ held[Key(d)].read = d =>
             held'[Key(d)].read = d \/ (Limited /\ Key(d) \in crowded')
    PROVE  Owns(d)'
PROOF
<1>1. Owns(d) /\ CallInv(d) /\ ReadsTypeOK
  BY DEF ReadsInv
<1>2. now \in Nat
  BY <1>1 DEF ReadsTypeOK
<1>3. Reading(d) => call[d].at \in Nat
  BY <1>1 DEF CallInv, Asks, Reading
<1>4. call[d].at \in Nat /\ call[d].at + Lifetime <= now => call[d].at + Lifetime <= now'
  BY <1>2, LimitsArePositive
<1>. QED
  BY <1>1, <1>3, <1>4 DEF Owns, Reading, Key, Limited

\* An entry that is not written, of which the reader stays.
LEMMA EntryStays ==
    ASSUME ReadsInv, NEW k \in Keys, held'[k] = held[k], cache' = cache, now' = now,
           held[k].read # None =>
             pc'[held[k].read] \in {"asking", "observed"} /\ call'[held[k].read] = call[held[k].read]
    PROVE  HeldFor(k)'
PROOF
<1>1. HeldFor(k)
  BY DEF ReadsInv
<1>. QED
  BY <1>1 DEF HeldFor, Reading, Key

\* A step in which no entry changes and only c moves, which reads before and after or
\* at neither time.
LEMMA EntriesStay ==
    ASSUME ReadsInv, NEW c \in Callers, ReadsTypeOK', CallInv(c)', Owns(c)',
           UNCHANGED <<cache, now, held, crowded>>,
           \A d \in Callers \ {c} :
             pc'[d] = pc[d] /\ call'[d] = call[d] /\ got'[d] = got[d],
           Reading(c) => pc'[c] \in {"asking", "observed"} /\ call'[c] = call[c]
    PROVE  ReadsInv'
PROOF
<1>1. ReadsTypeOK /\ now \in Nat
  BY DEF ReadsInv, ReadsTypeOK
<1>2. ASSUME NEW d \in Callers \ {c} PROVE CallInv(d)' /\ Owns(d)'
  BY <1>1, OthersStay, OwnsStay
<1>3. ASSUME NEW k \in Keys PROVE HeldFor(k)'
  <2>1. HeldFor(k) /\ held[k].read \in Callers \cup {None}
    BY <1>1 DEF ReadsInv, ReadsTypeOK, Entry
  <2>2. held[k].read # None =>
          pc'[held[k].read] \in {"asking", "observed"} /\ call'[held[k].read] = call[held[k].read]
    BY <2>1 DEF HeldFor, Reading
  <2>. QED
    BY <2>2, EntryStays
<1>. QED
  BY <1>2, <1>3 DEF ReadsInv
\* A step in which c moves and the entry of its key k is written; of other entries
\* some may go to the limit.  Left to show: that who else reads k owns it or lost it.
LEMMA EntryWritten ==
    ASSUME ReadsInv, NEW c \in Callers, NEW k \in Keys,
           ReadsTypeOK', CallInv(c)', Owns(c)', HeldFor(k)',
           UNCHANGED <<cache, now>>, crowded \subseteq crowded',
           \A d \in Callers \ {c} :
             pc'[d] = pc[d] /\ call'[d] = call[d] /\ got'[d] = got[d],
           Reading(c) => Key(c) = k,
           \A key \in Keys \ {k} :
             \/ held'[key] = held[key]
             \/ held'[key] = Absent /\ Limited /\ (held[key].read # None => key \in crowded'),
           \A d \in Callers \ {c} : Reading(d) /\ Key(d) = k /\ held[k].read = d => Owns(d)'
    PROVE  ReadsInv'
PROOF
<1>1. ReadsTypeOK /\ now \in Nat
  BY DEF ReadsInv, ReadsTypeOK
<1>2. ASSUME NEW d \in Callers \ {c} PROVE CallInv(d)' /\ Owns(d)'
  <2>1. CallInv(d)'
    BY <1>1, OthersStay
  <2>2. CASE Reading(d) /\ Key(d) = k /\ held[k].read = d
    BY <2>1, <2>2
  <2>3. CASE ~(Reading(d) /\ held[Key(d)].read = d)
    BY <1>1, <2>1, <2>3, OwnsStay
  <2>4. CASE Reading(d) /\ held[Key(d)].read = d /\ Key(d) # k
    <3>1. call[d] \in Asks
      BY <2>4 DEF ReadsInv, CallInv, Reading
    <3>2. Key(d) \in Keys \ {k} /\ d # None
      BY <2>4, <3>1, NoneIsNobody DEF Key, Asks
    <3>3. held'[Key(d)].read = d \/ (Limited /\ Key(d) \in crowded')
      BY <2>4, <3>2
    <3>. QED
      BY <1>1, <2>1, <3>3, OwnsStay
  <2>. QED
    BY <2>1, <2>2, <2>3, <2>4
<1>3. ASSUME NEW key \in Keys \ {k} PROVE HeldFor(key)'
  <2>1. CASE held'[key] = Absent
    BY <2>1, UnknownIsNoTime DEF HeldFor, Absent
  <2>2. CASE held'[key] = held[key]
    <3>1. HeldFor(key) /\ held[key].read \in Callers \cup {None}
      BY <1>1 DEF ReadsInv, ReadsTypeOK, Entry
    <3>2. held[key].read # c
      BY <3>1, NoneIsNobody DEF HeldFor
    <3>3. held[key].read # None =>
            pc'[held[key].read] \in {"asking", "observed"} /\ call'[held[key].read] = call[held[key].read]
      BY <3>1, <3>2 DEF HeldFor, Reading
    <3>. QED
      BY <2>2, <3>3, EntryStays
  <2>. QED
    BY <2>1, <2>2
<1>. QED
  BY <1>2, <1>3 DEF ReadsInv

-------------------------------------------------------------------------------
(* Every action preserves the invariant. *)

\* What is answered at once is of an entry that holds now.
LEMMA StepAskHeld ==
    ASSUME ReadsInv, NEW c \in Callers, NEW k \in Keys, AskHeld(c, k)
    PROVE  ReadsInv'
PROOF
<1>1. ReadsTypeOK /\ HeldFor(k) /\ held[k] \in Entry
  BY DEF ReadsInv, ReadsTypeOK
<1>2. /\ call' = [call EXCEPT ![c] = [key |-> k, at |-> now, whose |-> None]]
      /\ got' = [got EXCEPT ![c] = [seen |-> held[k].value, until |-> held[k].until]]
      /\ pc' = [pc EXCEPT ![c] = "answered"]
      /\ UNCHANGED <<cache, now, held, crowded>>
  BY DEF AskHeld, Asked, Goto
<1>3. [key |-> k, at |-> now, whose |-> None] \in Asks
  BY <1>1 DEF ReadsTypeOK, Asks
<1>4. [seen |-> held[k].value, until |-> held[k].until] \in Answer
  BY <1>1 DEF Entry, Answer
<1>5. ReadsTypeOK'
  BY <1>1, <1>2, <1>3, <1>4 DEF ReadsTypeOK
<1>6. /\ pc'[c] = "answered"
      /\ call'[c] = [key |-> k, at |-> now, whose |-> None]
      /\ got'[c] = [seen |-> held[k].value, until |-> held[k].until]
  BY <1>1, <1>2 DEF ReadsTypeOK
<1>7. cache \in {"orders", "latest"} => now < held[k].value + Lifetime
  <2>1. cache \in {"orders", "latest"} => held[k].value \in Nat
    BY <1>1 DEF AskHeld, Fresh, Entry, HeldFor
  <2>. now \in Nat /\ held[k].until \in Nat
    BY <1>1 DEF Entry, ReadsTypeOK
  <2>2. now < held[k].until
    BY DEF AskHeld, Fresh
  <2>. QED
    BY <1>1, <2>1, <2>2, LimitsArePositive DEF HeldFor, AskHeld, Fresh
<1>8. CallInv(c)' /\ Owns(c)'
  BY <1>2, <1>3, <1>6, <1>7 DEF CallInv, Owns, Reading
<1>9. ~Reading(c)
  BY DEF AskHeld, Reading
<1>. QED
  BY <1>1, <1>2, <1>5, <1>8, <1>9, EntriesStay DEF ReadsTypeOK

\* Who shares a read waits for who reads.
LEMMA StepAskShared ==
    ASSUME ReadsInv, NEW c \in Callers, NEW k \in Keys, AskShared(c, k)
    PROVE  ReadsInv'
PROOF
<1>1. ReadsTypeOK /\ held[k] \in Entry
  BY DEF ReadsInv, ReadsTypeOK
<1>2. /\ call' = [call EXCEPT ![c] = [key |-> k, at |-> now, whose |-> held[k].read]]
      /\ pc' = [pc EXCEPT ![c] = "waiting"]
      /\ UNCHANGED <<cache, now, held, crowded, got>>
  BY DEF AskShared, Asked, Goto
<1>3. held[k].read \in Callers
  BY <1>1 DEF AskShared, Shared, Entry
<1>4. [key |-> k, at |-> now, whose |-> held[k].read] \in Asks
  BY <1>1, <1>3 DEF ReadsTypeOK, Asks
<1>5. ReadsTypeOK'
  BY <1>1, <1>2, <1>4 DEF ReadsTypeOK
<1>6. /\ pc'[c] = "waiting"
      /\ call'[c] = [key |-> k, at |-> now, whose |-> held[k].read]
  BY <1>1, <1>2 DEF ReadsTypeOK
<1>7. CallInv(c)' /\ Owns(c)'
  BY <1>3, <1>4, <1>6 DEF CallInv, Owns, Reading
<1>8. ~Reading(c)
  BY DEF AskShared, Reading
<1>. QED
  BY <1>1, <1>2, <1>5, <1>7, <1>8, EntriesStay DEF ReadsTypeOK

\* A read is observed while it is under way: no earlier than it was asked for.
LEMMA StepObserve ==
    ASSUME ReadsInv, NEW c \in Callers, Observe(c)
    PROVE  ReadsInv'
PROOF
<1>1. ReadsTypeOK /\ CallInv(c) /\ Owns(c) /\ now \in Nat
  BY DEF ReadsInv, ReadsTypeOK
<1>2. PICK life \in 1..Lifetime : got' = [got EXCEPT ![c] = [seen |-> now, until |-> now + life]]
  BY DEF Observe
<1>3. /\ pc' = [pc EXCEPT ![c] = "observed"]
      /\ pc[c] = "asking"
      /\ UNCHANGED <<cache, now, held, call, crowded>>
  BY DEF Observe, Goto
<1>4. life \in Nat /\ now + life \in Nat /\ now + life <= now + Lifetime
  BY <1>1, LimitsArePositive
<1>5. [seen |-> now, until |-> now + life] \in Answer
  BY <1>1, <1>4 DEF Answer
<1>6. ReadsTypeOK'
  BY <1>1, <1>2, <1>3, <1>5 DEF ReadsTypeOK
<1>7. pc'[c] = "observed" /\ got'[c] = [seen |-> now, until |-> now + life]
  BY <1>1, <1>2, <1>3 DEF ReadsTypeOK
<1>8. CallInv(c)' /\ Owns(c)'
  BY <1>1, <1>3, <1>4, <1>5, <1>7 DEF CallInv, Owns, Reading, Key, Limited
<1>9. \A d \in Callers \ {c} : pc'[d] = pc[d] /\ call'[d] = call[d] /\ got'[d] = got[d]
  BY <1>1, <1>2, <1>3 DEF ReadsTypeOK
<1>. QED
  BY <1>3, <1>6, <1>7, <1>8, <1>9, EntriesStay

\* A question of a name that failed is an answer like any other.
LEMMA StepSwallow ==
    ASSUME ReadsInv, NEW c \in Callers, Swallow(c)
    PROVE  ReadsInv'
PROOF
<1>1. ReadsTypeOK /\ CallInv(c) /\ Owns(c) /\ now \in Nat /\ cache = "names"
  BY DEF ReadsInv, ReadsTypeOK, Swallow
<1>2. /\ got' = [got EXCEPT ![c] = [seen |-> Unknown, until |-> now]]
      /\ pc' = [pc EXCEPT ![c] = "observed"]
      /\ pc[c] = "asking"
      /\ UNCHANGED <<cache, now, held, call, crowded>>
  BY DEF Swallow, Goto
<1>3. [seen |-> Unknown, until |-> now] \in Answer
  BY <1>1 DEF Answer
<1>4. ReadsTypeOK'
  BY <1>1, <1>2, <1>3 DEF ReadsTypeOK
<1>5. pc'[c] = "observed" /\ got'[c] = [seen |-> Unknown, until |-> now]
  BY <1>1, <1>2 DEF ReadsTypeOK
<1>6. CallInv(c)' /\ Owns(c)'
  BY <1>1, <1>2, <1>3, <1>5 DEF CallInv, Owns, Reading, Key, Limited
<1>7. \A d \in Callers \ {c} : pc'[d] = pc[d] /\ call'[d] = call[d] /\ got'[d] = got[d]
  BY <1>1, <1>2 DEF ReadsTypeOK
<1>. QED
  BY <1>2, <1>4, <1>5, <1>6, <1>7, EntriesStay

\* Who waited gets what its owner got.
LEMMA StepWake ==
    ASSUME ReadsInv, NEW c \in Callers, Wake(c)
    PROVE  ReadsInv'
PROOF
<1>1. ReadsTypeOK /\ CallInv(c)
  BY DEF ReadsInv
<1>2. /\ pc[c] = "waiting" /\ pc[call[c].whose] \in {"answered", "failed"}
      /\ got' = [got EXCEPT ![c] = got[call[c].whose]]
      /\ pc' = [pc EXCEPT ![c] = pc[call[c].whose]]
      /\ UNCHANGED <<cache, now, held, call, crowded>>
  BY DEF Wake, Goto
<1>3. call[c] \in Asks /\ call[c].whose \in Callers /\ call[c].whose # None
  BY <1>1, <1>2, NoneIsNobody DEF CallInv
<1>4. ReadsTypeOK'
  BY <1>1, <1>2, <1>3 DEF ReadsTypeOK
<1>5. pc'[c] \in {"answered", "failed"}
  BY <1>1, <1>2 DEF ReadsTypeOK
<1>6. CallInv(c)' /\ Owns(c)'
  BY <1>2, <1>3, <1>5 DEF CallInv, Owns, Reading
<1>7. ~Reading(c)
  BY <1>2 DEF Reading
<1>8. \A d \in Callers \ {c} : pc'[d] = pc[d] /\ call'[d] = call[d] /\ got'[d] = got[d]
  BY <1>1, <1>2 DEF ReadsTypeOK
<1>. QED
  BY <1>2, <1>4, <1>6, <1>7, <1>8, EntriesStay

\* Time takes nothing away but the sharing of an outlived read.
LEMMA StepTick ==
    ASSUME ReadsInv, Tick
    PROVE  ReadsInv'
PROOF
<1>1. ReadsTypeOK /\ now \in Nat /\ now' = now + 1
  BY DEF ReadsInv, ReadsTypeOK, Tick
<1>2. now' \in Nat /\ now <= now' /\ UNCHANGED <<cache, held, pc, call, got, crowded>>
  BY <1>1 DEF Tick
<1>3. ReadsTypeOK'
  BY <1>1, <1>2 DEF ReadsTypeOK
<1>4. ASSUME NEW d \in Callers PROVE CallInv(d)' /\ Owns(d)'
  BY <1>2, OthersStay, OwnsStay
<1>5. ASSUME NEW k \in Keys PROVE HeldFor(k)'
  <2>1. HeldFor(k) /\ held[k].until \in Nat
    BY <1>1 DEF ReadsInv, ReadsTypeOK, Entry
  <2>2. held[k].until <= now + Lifetime => held[k].until <= now' + Lifetime
    BY <1>1, <2>1, LimitsArePositive
  <2>. QED
    BY <1>2, <2>1, <2>2 DEF HeldFor, Reading, Key
<1>. QED
  BY <1>3, <1>4, <1>5 DEF ReadsInv

\* Who asks upstream writes an entry of its own; only the read of a latest build that
\* outlived its answer loses its place to it.
LEMMA StepAskUpstream ==
    ASSUME ReadsInv, NEW c \in Callers, NEW k \in Keys, AskUpstream(c, k)
    PROVE  ReadsInv'
PROOF
<1>. DEFINE entry == IF cache = "rate" THEN [held[k] EXCEPT !.read = c]
                     ELSE [read |-> c, value |-> None, until |-> now + Lifetime]
<1>1. ReadsTypeOK /\ HeldFor(k) /\ held[k] \in Entry /\ now \in Nat /\ now + Lifetime \in Nat
  BY LimitsArePositive DEF ReadsInv, ReadsTypeOK
<1>2. /\ call' = [call EXCEPT ![c] = [key |-> k, at |-> now, whose |-> c]]
      /\ pc' = [pc EXCEPT ![c] = "asking"]
      /\ held' = [held EXCEPT ![k] = entry]
      /\ UNCHANGED <<cache, now, got, crowded>>
  BY DEF AskUpstream, Asked, Goto
<1>3. [key |-> k, at |-> now, whose |-> c] \in Asks
  BY <1>1 DEF Asks
<1>4. /\ entry \in Entry /\ entry.read = c
      /\ cache # "rate" => entry.value = None /\ entry.until = now + Lifetime
  BY <1>1 DEF Entry
<1>. HIDE DEF entry
<1>5. ReadsTypeOK'
  BY <1>1, <1>2, <1>3, <1>4 DEF ReadsTypeOK
<1>6. /\ pc'[c] = "asking"
      /\ call'[c] = [key |-> k, at |-> now, whose |-> c]
      /\ held'[k] = entry
  BY <1>1, <1>2 DEF ReadsTypeOK
<1>7. CallInv(c)' /\ Owns(c)'
  BY <1>1, <1>2, <1>3, <1>4, <1>6 DEF CallInv, Owns, Reading, Key
<1>8. HeldFor(k)'
  <2>1. entry.value = Unknown => FALSE
    BY <1>1, <1>4, UnknownIsNoTime DEF HeldFor, entry
  <2>. QED
    BY <1>2, <1>4, <1>6, <2>1 DEF HeldFor, Reading, Key
<1>9. ASSUME NEW d \in Callers \ {c}, Reading(d), Key(d) = k, held[k].read = d PROVE Owns(d)'
  <2>1. cache = "latest" /\ ~(now < held[k].until)
    BY <1>9, NoneIsNobody DEF AskUpstream, Shared
  <2>2. held[k].until = call[d].at + Lifetime /\ held[k].until \in Nat
    BY <1>1, <1>9, <2>1, NoneIsNobody DEF HeldFor, Entry
  <2>3. call'[d] = call[d]
    BY <1>1, <1>2 DEF ReadsTypeOK
  <2>. QED
    BY <1>1, <1>2, <2>1, <2>2, <2>3 DEF Owns
<1>10. ~Reading(c)
  BY DEF AskUpstream, Reading
<1>11. /\ \A d \in Callers \ {c} : pc'[d] = pc[d] /\ call'[d] = call[d] /\ got'[d] = got[d]
       /\ \A key \in Keys \ {k} : held'[key] = held[key]
  BY <1>1, <1>2 DEF ReadsTypeOK
<1>. QED
  BY <1>2, <1>5, <1>7, <1>8, <1>9, <1>10, <1>11, EntryWritten

\* A read that fails at the rate leaves the value there was.
LEMMA StepFailRate ==
    ASSUME ReadsInv, NEW c \in Callers, NEW k \in Keys, k = Key(c), FailRate(c)
    PROVE  ReadsInv'
PROOF
<1>. DEFINE entry == [held[k] EXCEPT !.read = None]
            answer == [seen |-> held[k].value, until |-> held[k].until]
<1>1. ReadsTypeOK /\ CallInv(c) /\ Owns(c) /\ Reading(c) /\ cache = "rate"
  BY DEF ReadsInv, FailRate
<1>2. call[c] \in Asks /\ k \in Keys /\ call[c].whose = c /\ c # None
  BY <1>1, NoneIsNobody DEF CallInv, Reading, Key, Asks
<1>3. /\ held' = [held EXCEPT ![k] = entry]
      /\ got' = [got EXCEPT ![c] = answer]
      /\ pc' = [pc EXCEPT ![c] = "answered"]
      /\ UNCHANGED <<cache, now, call, crowded>>
  BY DEF FailRate, Goto
<1>4. held[k] \in Entry
  BY <1>1, <1>2 DEF ReadsTypeOK
<1>5. entry \in Entry /\ entry.read = None /\ answer \in Answer
  BY <1>4 DEF Entry, Answer
<1>. HIDE DEF entry, answer
<1>6. ReadsTypeOK'
  BY <1>1, <1>2, <1>3, <1>5 DEF ReadsTypeOK
<1>7. pc'[c] = "answered" /\ held'[k] = entry
  BY <1>1, <1>2, <1>3 DEF ReadsTypeOK
<1>8. CallInv(c)' /\ Owns(c)' /\ HeldFor(k)'
  <2>1. entry.value # Unknown
    BY <1>1, <1>2, <1>4 DEF ReadsInv, HeldFor, entry, Entry
  <2>. QED
    BY <1>1, <1>2, <1>3, <1>5, <1>7, <2>1 DEF CallInv, Owns, Reading, HeldFor
<1>9. Reading(c) => Key(c) = k
  OBVIOUS
<1>10. held[k].read = c
  BY <1>1 DEF Owns, Limited
<1>11. /\ \A d \in Callers \ {c} : pc'[d] = pc[d] /\ call'[d] = call[d] /\ got'[d] = got[d]
       /\ \A key \in Keys \ {k} : held'[key] = held[key]
  BY <1>1, <1>2, <1>3 DEF ReadsTypeOK
<1>. QED
  BY <1>2, <1>3, <1>6, <1>8, <1>9, <1>10, <1>11, EntryWritten

\* Who else reads a key that c reads has lost its entry to the limit already, unless
\* the cache is the latest build's.
LEMMA TakenFrom ==
    ASSUME ReadsInv, NEW c \in Callers, Reading(c), held[Key(c)].read # c, cache # "latest"
    PROVE  Limited /\ Key(c) \in crowded
PROOF
  BY DEF ReadsInv, Owns

\* A failed read takes the entry of its key with it.
LEMMA StepFail ==
    ASSUME ReadsInv, NEW c \in Callers, NEW k \in Keys, k = Key(c), Fail(c)
    PROVE  ReadsInv'
PROOF
<1>1. ReadsTypeOK /\ CallInv(c) /\ Owns(c) /\ Reading(c) /\ now \in Nat
  BY DEF ReadsInv, Fail, ReadsTypeOK
<1>2. call[c] \in Asks /\ k \in Keys
  BY <1>1 DEF CallInv, Reading, Key, Asks
<1>3. /\ pc' = [pc EXCEPT ![c] = "failed"]
      /\ UNCHANGED <<cache, now, call, got, crowded>>
      /\ \/ cache = "latest" /\ held[k].read # c /\ held' = held
         \/ ~(cache = "latest" /\ held[k].read # c) /\ held' = [held EXCEPT ![k] = Absent]
  BY DEF Fail, Goto, Delete
<1>4. Absent \in Entry
  BY DEF Absent, Entry
<1>5. ReadsTypeOK'
  BY <1>1, <1>2, <1>3, <1>4 DEF ReadsTypeOK
<1>6. pc'[c] = "failed"
  BY <1>1, <1>3 DEF ReadsTypeOK
<1>7. CallInv(c)' /\ Owns(c)'
  BY <1>2, <1>3, <1>6 DEF CallInv, Owns, Reading
<1>8. /\ \A d \in Callers \ {c} : pc'[d] = pc[d] /\ call'[d] = call[d] /\ got'[d] = got[d]
      /\ \A key \in Keys \ {k} : held'[key] = held[key]
  BY <1>1, <1>3 DEF ReadsTypeOK
<1>9. Key(c) = k
  OBVIOUS
<1>10. CASE cache = "latest" /\ held[k].read # c /\ held' = held
  <2>1. HeldFor(k) /\ held[k].read \in Callers \cup {None}
    BY <1>1, <1>2 DEF ReadsInv, ReadsTypeOK, Entry
  <2>2. held[k].read # None =>
          pc'[held[k].read] \in {"asking", "observed"} /\ call'[held[k].read] = call[held[k].read]
    BY <1>8, <1>10, <2>1 DEF HeldFor, Reading
  <2>3. HeldFor(k)'
    BY <1>2, <1>3, <1>10, <2>2, EntryStays
  <2>4. ASSUME NEW d \in Callers \ {c}, Reading(d), Key(d) = k, held[k].read = d PROVE Owns(d)'
    BY <1>3, <1>10, <2>4 DEF Owns, Key
  <2>. QED
    BY <1>2, <1>3, <1>5, <1>7, <1>8, <1>9, <2>3, <2>4, EntryWritten
<1>11. CASE ~(cache = "latest" /\ held[k].read # c) /\ held' = [held EXCEPT ![k] = Absent]
  <2>1. held'[k] = Absent
    BY <1>1, <1>2, <1>11 DEF ReadsTypeOK
  <2>2. HeldFor(k)'
    BY <2>1, UnknownIsNoTime DEF HeldFor, Absent
  <2>3. ASSUME NEW d \in Callers \ {c}, Reading(d), Key(d) = k, held[k].read = d PROVE Owns(d)'
    <3>1. Limited /\ k \in crowded
      BY <1>1, <1>9, <1>11, <2>3, TakenFrom
    <3>2. Key(d)' = k
      BY <1>3, <2>3 DEF Key
    <3>. QED
      BY <1>3, <3>1, <3>2 DEF Owns, Limited
  <2>. QED
    BY <1>2, <1>3, <1>5, <1>7, <1>8, <1>9, <2>2, <2>3, EntryWritten
<1>. QED
  BY <1>3, <1>10, <1>11

\* What an answer is held until is a time, and for those that count from it within a
\* lifetime of what was observed.
LEMMA UntilIsATime ==
    ASSUME ReadsInv, NEW c \in Callers, pc[c] = "observed"
    PROVE  /\ Until(c) \in Nat
           /\ cache \in {"orders", "latest"} => Until(c) <= got[c].seen + Lifetime
PROOF
<1>1. CallInv(c) /\ call[c] \in Asks /\ got[c] \in Answer /\ now \in Nat /\ cache \in Caches
  BY DEF ReadsInv, CallInv, ReadsTypeOK
<1>2. /\ call[c].at \in Nat /\ got[c].until \in Nat /\ Lifetime \in Nat
      /\ cache \in {"orders", "latest"} => got[c].seen \in Nat /\ call[c].at <= got[c].seen
      /\ cache = "orders" => got[c].until <= got[c].seen + Lifetime
  BY <1>1, LimitsArePositive DEF CallInv, Asks, Answer
<1>. QED
  BY <1>1, <1>2 DEF Until, Caches

\* An answer is set under its key; in the two caches with a limit others give way.
LEMMA StepKeep ==
    ASSUME ReadsInv, NEW c \in Callers, NEW k \in Keys, k = Key(c), Keep(c)
    PROVE  ReadsInv'
PROOF
<1>. DEFINE mine == cache # "latest" \/ held[k].read = c
            seq == IF mine THEN Put(k) ELSE entries
            gone == ToSet(seq) \ ToSet(Trimmed(seq))
            entry == [read |-> None, value |-> got[c].seen, until |-> Until(c)]
<1>1. /\ ReadsTypeOK /\ CallInv(c) /\ Owns(c) /\ pc[c] = "observed" /\ Reading(c)
      /\ now \in Nat /\ Until(c) \in Nat
  BY UntilIsATime DEF ReadsInv, Keep, ReadsTypeOK, Reading
<1>2. /\ call[c] \in Asks /\ k \in Keys /\ got[c] \in Answer /\ call[c].whose = c
      /\ got[c].seen = Unknown => cache = "names"
  BY <1>1, UnknownIsNoTime DEF CallInv, Key, Asks
<1>3. /\ pc' = [pc EXCEPT ![c] = "answered"]
      /\ got' = [got EXCEPT ![c].until = Until(c)]
      /\ UNCHANGED <<cache, now, call>>
      /\ held' = [key \in Keys |-> IF key \in gone THEN Absent
                                      ELSE IF key = k /\ mine THEN entry ELSE held[key]]
      /\ crowded' = crowded \cup {key \in gone \ {k} : held[key].read # None}
  BY DEF Keep, Goto
<1>4. gone # {} => Limited
  BY DEF Trimmed
<1>5. Absent \in Entry /\ entry \in Entry
  <2>1. Absent \in Entry
    BY DEF Absent, Entry
  <2>2. got[c].seen \in Nat \cup {None, Unknown}
    BY <1>2 DEF Answer
  <2>3. entry \in Entry
    BY ONLY <1>1, <2>2 DEF Entry, entry
  <2>. QED
    BY <2>1, <2>3
<1>. HIDE DEF gone, seq
<1>6. \A key \in Keys :
        /\ key \in gone => held'[key] = Absent
        /\ key \notin gone /\ key = k /\ mine => held'[key] = entry
        /\ key \notin gone /\ ~(key = k /\ mine) => held'[key] = held[key]
  BY <1>3
<1>7. held' \in [Keys -> Entry]
  <2>1. \A key \in Keys : held'[key] \in Entry
    BY <1>1, <1>5, <1>6 DEF ReadsTypeOK
  <2>2. held' = [key \in Keys |-> held'[key]]
    BY <1>3
  <2>. QED
    BY <2>1, <2>2
<1>8. got' \in [Callers -> Answer \cup {None}]
  <2>1. [got[c] EXCEPT !.until = Until(c)] \in Answer
    BY <1>1, <1>2 DEF Answer
  <2>2. got' = [got EXCEPT ![c] = [got[c] EXCEPT !.until = Until(c)]]
    BY <1>3
  <2>. QED
    BY <1>1, <2>1, <2>2 DEF ReadsTypeOK
<1>9. ReadsTypeOK'
  BY <1>1, <1>3, <1>7, <1>8 DEF ReadsTypeOK
<1>10. pc'[c] = "answered"
  BY <1>1, <1>3 DEF ReadsTypeOK
<1>11. CallInv(c)' /\ Owns(c)'
  BY <1>2, <1>3, <1>10, NoneIsNobody DEF CallInv, Owns, Reading
<1>12. \A d \in Callers \ {c} : pc'[d] = pc[d] /\ call'[d] = call[d] /\ got'[d] = got[d]
  BY <1>1, <1>3 DEF ReadsTypeOK
<1>13. \A key \in Keys \ {k} :
         \/ held'[key] = held[key]
         \/ held'[key] = Absent /\ Limited /\ (held[key].read # None => key \in crowded')
  BY <1>3, <1>4, <1>6
<1>14. HeldFor(k)'
  <2>1. CASE k \in gone
    BY <1>2, <1>6, <2>1, UnknownIsNoTime DEF HeldFor, Absent
  <2>2. CASE k \notin gone /\ mine
    <3>1. held'[k] = entry
      BY <1>2, <1>6, <2>2
    <3>2. cache \in {"orders", "latest"} => Until(c) <= got[c].seen + Lifetime
      BY <1>1, UntilIsATime
    <3>3. cache = "names" => Until(c) = now + Lifetime
      BY DEF Until
    <3>4. now + Lifetime <= now + Lifetime
      BY <1>1, LimitsArePositive
    <3>. QED
      BY <1>2, <1>3, <3>1, <3>2, <3>3, <3>4 DEF HeldFor
  <2>3. CASE k \notin gone /\ ~mine
    <3>1. held'[k] = held[k] /\ held[k].read # c
      BY <1>2, <1>6, <2>3
    <3>2. HeldFor(k) /\ held[k].read \in Callers \cup {None}
      BY <1>1, <1>2 DEF ReadsInv, ReadsTypeOK, Entry
    <3>3. held[k].read # None =>
            pc'[held[k].read] \in {"asking", "observed"} /\ call'[held[k].read] = call[held[k].read]
      BY <1>12, <3>1, <3>2 DEF HeldFor, Reading
    <3>. QED
      BY <1>2, <1>3, <3>1, <3>3, EntryStays
  <2>. QED
    BY <2>1, <2>2, <2>3
<1>15. ASSUME NEW d \in Callers \ {c}, Reading(d), Key(d) = k, held[k].read = d PROVE Owns(d)'
  <2>1. Key(d)' = k
    BY <1>3, <1>15 DEF Key
  <2>2. CASE k \in gone \/ mine
    <3>1. cache # "latest"
      BY <1>4, <1>15, <2>2 DEF Limited
    <3>2. Limited /\ k \in crowded
      BY <1>1, <1>15, <3>1, TakenFrom
    <3>. QED
      BY <1>3, <2>1, <3>2 DEF Owns, Limited
  <2>3. CASE k \notin gone /\ ~mine
    BY <1>2, <1>6, <1>15, <2>1, <2>3 DEF Owns
  <2>. QED
    BY <2>2, <2>3
<1>16. crowded \subseteq crowded' /\ (Reading(c) => Key(c) = k)
  BY <1>3
<1>. HIDE DEF mine, entry
<1>. QED
  BY <1>2, <1>3, <1>9, <1>11, <1>12, <1>13, <1>14, <1>15, <1>16, EntryWritten

-------------------------------------------------------------------------------
LEMMA StepReads == ASSUME ReadsInv, [Next]_vars PROVE ReadsInv'
PROOF
<1>1. CASE UNCHANGED vars
  BY <1>1 DEF vars, ReadsInv, ReadsTypeOK, CallInv, Owns, HeldFor, Reading, Key, Limited
<1>2. ASSUME NEW c \in Callers, NEW k \in Served, AskHeld(c, k) \/ AskShared(c, k) \/ AskUpstream(c, k)
      PROVE  ReadsInv'
  BY <1>2, ServedKeys, StepAskHeld, StepAskShared, StepAskUpstream
<1>3. ASSUME NEW c \in Callers, Observe(c) \/ Swallow(c) PROVE ReadsInv'
  BY <1>3, StepObserve, StepSwallow
<1>4. ASSUME NEW c \in Callers, Settle(c) PROVE ReadsInv'
  <2>1. PICK k \in Keys : k = Key(c)
    BY <1>4 DEF Settle, Keep, Fail, FailRate, ReadsInv, CallInv, Reading, Key, Asks
  <2>. QED
    BY <1>4, <2>1, StepKeep, StepFail, StepFailRate DEF Settle
<1>5. ASSUME NEW c \in Callers, Wake(c) PROVE ReadsInv'
  BY <1>5, StepWake
<1>6. CASE Tick
  BY <1>6, StepTick
<1>. QED
  BY <1>1, <1>2, <1>3, <1>4, <1>5, <1>6 DEF Next, Ask

-------------------------------------------------------------------------------
(* Numbers *)

\* A set of numbers that is not empty has a least one.
LEMMA LeastNumber ==
    ASSUME NEW S \in SUBSET Nat, S # {}
    PROVE  \E k \in S : \A j \in S : k <= j
PROOF
<1> DEFINE R == OpToRel(<, Nat)
<1>1. IsWellFoundedOn(R, Nat)
  BY NatLessThanWellFounded
<1> HIDE DEF R
<1>2. PICK x \in S : \A y \in S : <<y, x>> \notin R
  BY <1>1, WFMin
<1>3. \A y \in S : y < x => <<y, x>> \in R
  BY DEF R, OpToRel
<1>4. ASSUME NEW y \in S PROVE x <= y
  <2>1. x \in Nat /\ y \in Nat /\ ~(y < x)
    BY <1>2, <1>3
  <2>. QED
    BY <2>1
<1>. QED
  BY <1>4

\* A greatest element is the Max, a least one the Min.
LEMMA GreatestIsMax ==
    ASSUME NEW S \in SUBSET Nat, NEW x \in S, \A y \in S : x >= y
    PROVE  Max(S) = x
PROOF
<1>1. Max(S) \in S /\ \A y \in S : Max(S) >= y
  BY DEF Max
<1>2. Max(S) >= x /\ x >= Max(S) /\ Max(S) \in Nat /\ x \in Nat
  BY <1>1
<1>. QED
  BY <1>2

LEMMA LeastIsMin ==
    ASSUME NEW S \in SUBSET Nat, NEW x \in S, \A y \in S : x <= y
    PROVE  Min(S) = x
PROOF
<1>1. Min(S) \in S /\ \A y \in S : Min(S) <= y
  BY DEF Min
<1>2. Min(S) <= x /\ x <= Min(S) /\ Min(S) \in Nat /\ x \in Nat
  BY <1>1
<1>. QED
  BY <1>2

LEMMA MaxOfTwo ==
    ASSUME NEW a \in Nat, NEW b \in Nat
    PROVE  Max({a, b}) = IF a >= b THEN a ELSE b
PROOF
<1>1. CASE a >= b
  BY <1>1, GreatestIsMax, {a, b} \in SUBSET Nat
<1>2. CASE ~(a >= b)
  <2>1. b >= a /\ b >= b
    BY <1>2
  <2>. QED
    BY <1>2, <2>1, GreatestIsMax, {a, b} \in SUBSET Nat
<1>. QED
  BY <1>1, <1>2

LEMMA MinOfTwo ==
    ASSUME NEW a \in Nat, NEW b \in Nat, a <= b
    PROVE  Min({a, b}) = a
PROOF
  BY LeastIsMin, {a, b} \in SUBSET Nat

-------------------------------------------------------------------------------
(* The inductive invariant *)

Wants(u, s) == \E n \in Direct(u) : n.skill = s
WantsAt(u, s, l) == \E n \in Direct(u) : n.skill = s /\ n.level = l

\* Whose requirements the walk of t has at depth k.
Above(t, map, k) ==
    {u \in Types : (u = t /\ k = 0) \/ (u \in DOMAIN map /\ k = map[u].depth + 1)}

Holds(map, n, k) ==
    n.skill \in DOMAIN map /\ map[n.skill].level >= n.level /\ map[n.skill].depth <= k

\* What a walk has found is demanded, at its depth and at its level.
Justified(t, map) ==
    /\ DOMAIN map \subseteq Types
    /\ map \in [DOMAIN map -> [level : Levels, depth : 0..(MaxDepth - 1)]]
    /\ \A s \in DOMAIN map :
         /\ \E u \in Above(t, map, map[s].depth) : Wants(u, s)
         /\ \E k \in 0..(MaxDepth - 1) : \E u \in Above(t, map, k) : WantsAt(u, s, map[s].level)

\* The answer has whatever is demanded within the cap.
Answered(t, map) ==
    /\ Justified(t, map)
    /\ \A k \in 0..(MaxDepth - 1) : \A u \in Above(t, map, k) : \A n \in Direct(u) : Holds(map, n, k)

Pending == frontier \cup next

At(n, k) == [skill |-> n.skill, level |-> n.level, depth |-> k]
By(n, u) == [skill |-> n.skill, level |-> n.level, by |-> u]

\* A walk by breadth: a round is of one depth, and what is demanded by what was
\* found is found itself or still to be visited.
ClosureInv ==
    /\ whose \in targets /\ Justified(whose, found)
    /\ \A s \in DOMAIN found : found[s].depth <= depth
    /\ \A e \in frontier : e.depth = depth
    /\ \A e \in next : e.depth = depth + 1
    /\ \A e \in Pending : \E u \in Above(whose, found, e.depth) : \E n \in Direct(u) :
         e = At(n, e.depth)
    /\ \A k \in Nat : \A u \in Above(whose, found, k) : \A n \in Direct(u) :
         At(n, k) \in Pending \/ Holds(found, n, k)

PlanEntry == [level : Levels \cup {NoLevel}, depth : Nat, requested : BOOLEAN,
              requiredBy : SUBSET Types]

\* The same of the plan, where the targets are found from the start and each reason
\* is remembered.
PlanInv ==
    /\ DOMAIN closures = targets
    /\ DOMAIN found \subseteq Types /\ found \in [DOMAIN found -> PlanEntry]
    /\ \A t \in targets : t \in DOMAIN found /\ found[t].depth = 0
    /\ \A s \in DOMAIN found :
         /\ found[s].depth <= depth + 1 /\ found[s].depth <= MaxDepth
         /\ \/ s \in targets /\ found[s].depth = 0
            \/ \E u \in DOMAIN found : found[s].depth = found[u].depth + 1 /\ Wants(u, s)
         /\ \/ found[s].level = NoLevel
            \/ \E u \in DOMAIN found : found[u].depth < MaxDepth /\ WantsAt(u, s, found[s].level)
         /\ \A u \in found[s].requiredBy :
              u \in DOMAIN found /\ found[u].depth < MaxDepth /\ Wants(u, s)
    /\ \A e \in Pending : e.by \in DOMAIN found /\ \E n \in Direct(e.by) : e = By(n, e.by)
    /\ \A e \in frontier : found[e.by].depth = depth
    /\ \A e \in next : found[e.by].depth = depth + 1
    /\ \A u \in DOMAIN found : \A n \in Direct(u) :
         \/ By(n, u) \in Pending
         \/ Holds(found, n, found[u].depth + 1) /\ u \in found[n.skill].requiredBy

SkillTypeOK ==
    /\ requires \in [Types -> SUBSET Needs] /\ targets \subseteq Types
    /\ walk \in {"idle", "closure", "plan", "planned"}
    /\ depth \in 0..MaxDepth
    /\ depth = MaxDepth => next = {}
    /\ DOMAIN closures \subseteq targets

SkillInv ==
    /\ SkillTypeOK
    /\ \A t \in DOMAIN closures : Answered(t, closures[t])
    /\ walk = "idle" => found = <<>> /\ frontier = {} /\ next = {} /\ depth = 0
    /\ walk = "closure" => ClosureInv
    /\ walk \in {"plan", "planned"} => PlanInv
    /\ walk = "planned" => Over

-------------------------------------------------------------------------------
(* The rounds *)

\* What a type requires are needs.
LEMMA DirectNeeds ==
    ASSUME SkillTypeOK, NEW u \in Types, NEW n \in Direct(u)
    PROVE  /\ n \in Needs /\ n.skill \in Types /\ n.level \in Levels /\ n.level \in Nat
           /\ n = [skill |-> n.skill, level |-> n.level]
PROOF
<1>1. n \in Needs
  BY DEF SkillTypeOK, Direct
<1>. QED
  BY <1>1, LevelsArePositive DEF Needs

LEMMA InitSkill == ASSUME PlanInit \/ PlanIdle PROVE SkillInv
PROOF
<1>1. requires \in [Types -> SUBSET Needs]
  BY DEF PlanInit, PlanIdle
<1>2. targets \subseteq Types
  BY DEF PlanInit, PlanIdle
<1>3. Rest /\ closures = <<>>
  BY DEF PlanInit, PlanIdle
<1>4. DOMAIN closures = {}
  BY <1>3
<1>. QED
  BY <1>1, <1>2, <1>3, <1>4, LevelsArePositive DEF Rest, SkillInv, SkillTypeOK

\* A walk starts with what its target requires.
LEMMA AskClosureStep == ASSUME SkillInv, AskClosure PROVE SkillInv'
PROOF
<1>1. PICK t \in Left : whose' = t /\ frontier' = Deeper(t, 0)
  BY DEF AskClosure
<1>2. /\ walk' = "closure" /\ UNCHANGED <<requires, targets, found, next, depth, closures>>
      /\ found = <<>> /\ next = {} /\ depth = 0 /\ DOMAIN found = {}
  BY DEF AskClosure, SkillInv
<1>3. SkillTypeOK' /\ \A u : Direct(u)' = Direct(u)
  BY <1>2 DEF SkillInv, SkillTypeOK, Direct
<1>4. ASSUME NEW u \in DOMAIN closures PROVE Answered(u, closures[u])'
  BY <1>2, <1>3 DEF SkillInv, Answered, Justified, Wants, WantsAt
<1>5. t \in targets /\ t \in Types
  BY DEF Left, SkillInv, SkillTypeOK
<1>6. Pending' = {At(n, 0) : n \in Direct(t)}
  BY <1>1, <1>2 DEF Pending, Deeper, At
<1>7. \A k \in Nat : Above(t, found', k) = IF k = 0 THEN {t} ELSE {}
  BY <1>2, <1>5 DEF Above
<1>8. Justified(whose, found)'
  BY <1>1, <1>2 DEF Justified
<1>9. ClosureInv'
  <2>1. \A e \in Pending' : e.depth = 0 /\ \E n \in Direct(t) : e = At(n, 0)
    BY <1>6 DEF At
  <2>2. \A e \in frontier' : e.depth = 0
    BY <2>1 DEF Pending
  <2>3. \A e \in Pending' : \E u \in Above(t, found', e.depth) : \E n \in Direct(u) : e = At(n, e.depth)
    BY <2>1, <1>7
  <2>4. \A k \in Nat : \A u \in Above(t, found', k) : \A n \in Direct(u) : At(n, k) \in Pending'
    BY <1>6, <1>7
  <2>. QED
    BY <1>1, <1>2, <1>3, <1>5, <1>8, <2>2, <2>3, <2>4 DEF ClosureInv
<1>. QED
  BY <1>2, <1>3, <1>4, <1>9 DEF SkillInv

\* A round begins where the last one ended.
LEMMA NextRoundStep == ASSUME SkillInv, NextRound PROVE SkillInv'
PROOF
<1>1. /\ walk \in {"closure", "plan"} /\ depth < MaxDepth /\ frontier = {}
      /\ frontier' = next /\ next' = {} /\ depth' = depth + 1
      /\ UNCHANGED <<requires, targets, walk, whose, found, closures>>
      /\ depth \in Nat /\ MaxDepth \in Nat
  BY LevelsArePositive DEF NextRound, SkillInv, SkillTypeOK
<1>2. SkillTypeOK' /\ \A u : Direct(u)' = Direct(u)
  BY <1>1 DEF SkillInv, SkillTypeOK, Direct
<1>3. ASSUME NEW u \in DOMAIN closures PROVE Answered(u, closures[u])'
  BY <1>1, <1>2 DEF SkillInv, Answered, Justified, Wants, WantsAt
<1>4. Pending' = Pending
  BY <1>1 DEF Pending
<1>5. CASE walk = "closure"
  <2>1. ClosureInv
    BY <1>5 DEF SkillInv
  <2>2. Justified(whose, found)'
    BY <1>1, <1>2, <2>1 DEF ClosureInv, Justified, Wants, WantsAt
  <2>3. \A s \in DOMAIN found : found[s].depth <= depth'
    <3>1. \A s \in DOMAIN found : found[s].depth \in Nat /\ found[s].depth <= depth
      BY <2>1 DEF ClosureInv, Justified
    <3>. QED
      BY <1>1, <3>1
  <2>4. ClosureInv'
    BY <1>1, <1>2, <1>4, <2>1, <2>2, <2>3 DEF ClosureInv
  <2>. QED
    BY <1>1, <1>2, <1>3, <1>5, <2>4 DEF SkillInv
<1>6. CASE walk = "plan"
  <2>1. PlanInv
    BY <1>6 DEF SkillInv
  <2>2. \A s \in DOMAIN found : found[s].depth <= depth' + 1
    <3>1. \A s \in DOMAIN found : found[s].depth \in Nat /\ found[s].depth <= depth + 1
      BY <2>1 DEF PlanInv, PlanEntry
    <3>. QED
      BY <1>1, <3>1
  <2>3. PlanInv'
    BY <1>1, <1>2, <1>4, <2>1, <2>2 DEF PlanInv, Wants, WantsAt
  <2>. QED
    BY <1>1, <1>2, <1>3, <1>6, <2>3 DEF SkillInv
<1>. QED
  BY <1>1, <1>5, <1>6

-------------------------------------------------------------------------------
(* A visit *)

\* What visiting e, at the depth of its round, makes of the Map and of the next round.
Grown(map, to, e, more) ==
    /\ DOMAIN to = DOMAIN map \cup {e.skill}
    /\ \A s \in DOMAIN map : to[s].depth = map[s].depth /\ to[s].level >= map[s].level
    /\ \A s \in DOMAIN to : \/ s \in DOMAIN map /\ to[s].level = map[s].level
                            \/ s = e.skill /\ to[s].level = e.level
    /\ to[e.skill].level >= e.level /\ to[e.skill].depth <= e.depth
    /\ e.skill \notin DOMAIN map => to[e.skill].depth = e.depth
    /\ more = IF e.skill \in DOMAIN map THEN {} ELSE Deeper(e.skill, e.depth + 1)

LEMMA VisitGrows ==
    ASSUME SkillTypeOK, ClosureInv, NEW e \in frontier, Reached(e)
    PROVE  /\ \E more : Grown(found, found', e, more) /\ next' = next \cup more
           /\ found' \in [DOMAIN found' -> [level : Levels, depth : Nat]]
PROOF
<1>1. /\ e.depth = depth /\ depth \in Nat /\ e.skill \in Types /\ e.level \in Levels
      /\ Levels \subseteq Nat
  <2>0. PICK u \in Above(whose, found, e.depth) : \E n \in Direct(u) : e = At(n, e.depth)
    BY DEF ClosureInv, Pending
  <2>1. PICK n \in Direct(u) : e = At(n, e.depth)
    BY <2>0
  <2>2. u \in Types
    BY DEF Above
  <2>3. n.skill \in Types /\ n.level \in Levels
    BY <2>2, DirectNeeds
  <2>. QED
    BY <2>1, <2>3, LevelsArePositive DEF At, ClosureInv, SkillTypeOK
<1>2. /\ found \in [DOMAIN found -> [level : Levels, depth : 0..(MaxDepth - 1)]]
      /\ \A s \in DOMAIN found : found[s].depth <= depth
  BY DEF ClosureInv, Justified
<1>3. CASE e.skill \in DOMAIN found
  <2> DEFINE s == e.skill
             to == [level |-> Max({found[s].level, e.level}), depth |-> Min({found[s].depth, e.depth})]
  <2>1. found' = [found EXCEPT ![s] = to] /\ next' = next
    BY <1>3 DEF Reached
  <2>2. found[s].level \in Nat /\ found[s].level \in Levels /\ found[s].depth \in Nat
        /\ found[s].depth <= e.depth /\ e.depth \in Nat /\ e.level \in Nat
    BY <1>1, <1>2, <1>3, LevelsArePositive
  <2>3. to.level = IF found[s].level >= e.level THEN found[s].level ELSE e.level
    BY <2>2, MaxOfTwo
  <2>4. to.depth = found[s].depth
    BY <2>2, MinOfTwo
  <2>5. to \in [level : Levels, depth : Nat]
    BY <1>1, <2>2, <2>3, <2>4
  <2> HIDE DEF to
  <2>6. DOMAIN found' = DOMAIN found /\ found'[s] = to
        /\ \A r \in DOMAIN found : r # s => found'[r] = found[r]
    BY <1>2, <1>3, <2>1
  <2>7. \A r \in DOMAIN found : found[r].level \in Nat /\ found[r] \in [level : Levels, depth : Nat]
    BY <1>1, <1>2, LevelsArePositive
  <2>8. Grown(found, found', e, {})
    BY <1>3, <2>2, <2>3, <2>4, <2>6, <2>7 DEF Grown
  <2>9. found' \in [DOMAIN found' -> [level : Levels, depth : Nat]]
    BY <2>1, <2>5, <2>6, <2>7
  <2>. QED
    BY <2>1, <2>8, <2>9
<1>4. CASE e.skill \notin DOMAIN found
  <2>1. /\ found' = With(found, e.skill, [level |-> e.level, depth |-> e.depth])
        /\ next' = next \cup Deeper(e.skill, e.depth + 1)
    BY <1>4 DEF Reached
  <2>2. \A r \in DOMAIN found : found[r].level \in Nat /\ found[r] \in [level : Levels, depth : Nat]
    BY <1>1, <1>2, LevelsArePositive
  <2>3. /\ DOMAIN found' = DOMAIN found \cup {e.skill}
        /\ found'[e.skill] = [level |-> e.level, depth |-> e.depth]
        /\ \A r \in DOMAIN found : found'[r] = found[r]
    BY <1>4, <2>1 DEF With
  <2>4. Grown(found, found', e, Deeper(e.skill, e.depth + 1))
    <3>0. \A i \in Nat : i >= i /\ i <= i
      OBVIOUS
    <3>1. e.level \in Nat /\ e.depth \in Nat
      BY <1>1
    <3>2. /\ found'[e.skill].level = e.level /\ found'[e.skill].depth = e.depth
          /\ \A r \in DOMAIN found : found'[r].depth = found[r].depth /\ found'[r].level = found[r].level
          /\ \A r \in DOMAIN found : found[r].level >= found[r].level
      BY <2>2, <2>3, <3>0
    <3>. QED
      BY <1>4, <2>3, <3>0, <3>1, <3>2 DEF Grown
  <2>5. found' \in [DOMAIN found' -> [level : Levels, depth : Nat]]
    BY <1>1, <2>1, <2>2, <2>3 DEF With
  <2>. QED
    BY <2>1, <2>4, <2>5
<1>. QED
  BY <1>3, <1>4

LEMMA VisitClosureStep == ASSUME SkillInv, VisitClosure PROVE SkillInv'
PROOF
<1>1. PICK e \in frontier : Reached(e) /\ frontier' = frontier \ {e}
  BY DEF VisitClosure
<1>2. /\ walk = "closure" /\ depth < MaxDepth
      /\ UNCHANGED <<requires, targets, walk, whose, depth, closures>>
      /\ SkillTypeOK /\ ClosureInv /\ depth \in Nat /\ MaxDepth \in Nat
  BY LevelsArePositive DEF VisitClosure, SkillInv, SkillTypeOK
<1>3. SkillTypeOK' /\ \A u : Direct(u)' = Direct(u)
  BY <1>2 DEF SkillTypeOK, Direct
<1>4. ASSUME NEW u \in DOMAIN closures PROVE Answered(u, closures[u])'
  BY <1>2, <1>3 DEF SkillInv, Answered, Justified, Wants, WantsAt
<1>5. PICK more : Grown(found, found', e, more) /\ next' = next \cup more
  BY <1>1, <1>2, VisitGrows
<1>6. found' \in [DOMAIN found' -> [level : Levels, depth : Nat]]
  BY <1>1, <1>2, VisitGrows
<1>0. PICK v \in Above(whose, found, depth) : \E n \in Direct(v) : e = At(n, depth)
  BY <1>2 DEF ClosureInv, Pending
<1>7. PICK n \in Direct(v) : e = At(n, depth)
  BY <1>0
<1>8. /\ e.depth = depth /\ e.skill = n.skill /\ e.level = n.level
      /\ e.skill \in Types /\ e.level \in Levels /\ v \in Types /\ n \in Needs
      /\ n = [skill |-> n.skill, level |-> n.level]
  BY <1>2, <1>7, DirectNeeds DEF At, Above
<1>9. \A k : Above(whose, found, k) \subseteq Above(whose, found', k)
  BY <1>5 DEF Above, Grown
<1>10. \A k : \A u \in Above(whose, found', k) :
         \/ u \in Above(whose, found, k)
         \/ u = e.skill /\ e.skill \notin DOMAIN found /\ k = depth + 1
  BY <1>5, <1>8 DEF Above, Grown
<1>11. DOMAIN found' \subseteq Types /\ \A s \in DOMAIN found' : found'[s].depth <= depth
  BY <1>2, <1>5, <1>8 DEF Grown, ClosureInv, Justified
<1>12. Justified(whose, found)'
  <2>1. found' \in [DOMAIN found' -> [level : Levels, depth : 0..(MaxDepth - 1)]]
    <3>1. \A s \in DOMAIN found' : found'[s].depth \in 0..(MaxDepth - 1) /\ found'[s].level \in Levels
          /\ found'[s] = [level |-> found'[s].level, depth |-> found'[s].depth]
      BY <1>2, <1>6, <1>11
    <3>. QED
      BY <1>6, <3>1
  <2>2. ASSUME NEW s \in DOMAIN found' PROVE \E u \in Above(whose, found', found'[s].depth) : Wants(u, s)
    <3>1. CASE s \in DOMAIN found
      BY <1>2, <1>5, <1>9, <3>1 DEF Grown, ClosureInv, Justified
    <3>2. CASE s \notin DOMAIN found
      <4>1. s = e.skill /\ found'[s].depth = depth
        BY <1>5, <1>8, <3>2 DEF Grown
      <4>2. v \in Above(whose, found', found'[s].depth) /\ Wants(v, s)
        BY <1>7, <1>8, <1>9, <4>1 DEF Wants
      <4>. QED
        BY <4>2
    <3>. QED
      BY <3>1, <3>2
  <2>3. ASSUME NEW s \in DOMAIN found'
        PROVE  \E k \in 0..(MaxDepth - 1) : \E u \in Above(whose, found', k) : WantsAt(u, s, found'[s].level)
    <3>1. CASE s \in DOMAIN found /\ found'[s].level = found[s].level
      <4>1. PICK k \in 0..(MaxDepth - 1) : \E u \in Above(whose, found, k) : WantsAt(u, s, found[s].level)
        BY <1>2, <3>1 DEF ClosureInv, Justified
      <4>. QED
        BY <1>9, <3>1, <4>1
    <3>2. CASE s = e.skill /\ found'[s].level = e.level
      <4>1. depth \in 0..(MaxDepth - 1)
        BY <1>2
      <4>2. v \in Above(whose, found', depth) /\ WantsAt(v, s, found'[s].level)
        BY <1>7, <1>8, <1>9, <3>2 DEF WantsAt
      <4>. QED
        BY <4>1, <4>2
    <3>. QED
      BY <1>5, <3>1, <3>2 DEF Grown
  <2>. QED
    BY <1>2, <1>3, <1>11, <2>1, <2>2, <2>3 DEF Justified, Wants, WantsAt
<1>13. \A m \in more : m.depth = depth + 1 /\ e.skill \notin DOMAIN found
                       /\ \E r \in Direct(e.skill) : m = At(r, depth + 1)
  BY <1>5, <1>8 DEF Grown, Deeper, At
<1>14. ASSUME NEW m \in Pending'
       PROVE  \E u \in Above(whose, found', m.depth) : \E r \in Direct(u) : m = At(r, m.depth)
  <2>1. CASE m \in Pending
    BY <1>2, <1>9, <2>1 DEF ClosureInv
  <2>2. CASE m \in more
    <3>1. e.skill \in Above(whose, found', depth + 1)
      BY <1>5, <1>8, <1>13, <2>2 DEF Above, Grown
    <3>. QED
      BY <1>13, <2>2, <3>1
  <2>. QED
    BY <1>1, <1>5, <2>1, <2>2 DEF Pending
<1>15. ASSUME NEW k \in Nat, NEW u \in Above(whose, found', k), NEW r \in Direct(u)
       PROVE  At(r, k) \in Pending' \/ Holds(found', r, k)
  <2>0. u \in Types /\ r.level \in Nat
    BY <1>2, DirectNeeds DEF Above
  <2>1. CASE u \in Above(whose, found, k) /\ At(r, k) = e
    BY <1>5, <2>1 DEF Grown, Holds, At
  <2>2. CASE u \in Above(whose, found, k) /\ At(r, k) \in Pending /\ At(r, k) # e
    BY <1>1, <1>5, <2>2 DEF Pending
  <2>3. CASE u \in Above(whose, found, k) /\ Holds(found, r, k)
    <3>1. found[r.skill].level \in Nat /\ found'[r.skill].level \in Nat
      BY <1>2, <1>5, <1>6, <2>3, LevelsArePositive DEF Holds, Grown, ClosureInv, Justified
    <3>. QED
      BY <1>5, <2>0, <2>3, <3>1 DEF Holds, Grown
  <2>4. CASE u \notin Above(whose, found, k)
    <3>1. u = e.skill /\ e.skill \notin DOMAIN found /\ k = depth + 1
      BY <1>10, <2>4
    <3>2. At(r, k) \in more
      BY <1>5, <1>8, <3>1 DEF Grown, Deeper, At
    <3>. QED
      BY <1>5, <3>2 DEF Pending
  <2>. QED
    BY <1>2, <2>1, <2>2, <2>3, <2>4 DEF ClosureInv
<1>16. ClosureInv'
  <2>1. \A m \in frontier' : m.depth = depth
    BY <1>1, <1>2 DEF ClosureInv
  <2>2. \A m \in next' : m.depth = depth + 1
    BY <1>2, <1>5, <1>13 DEF ClosureInv
  <2>3. whose \in targets
    BY <1>2 DEF ClosureInv
  <2>. QED
    BY <1>2, <1>3, <1>11, <1>12, <1>14, <1>15, <2>1, <2>2, <2>3 DEF ClosureInv
<1>. QED
  BY <1>2, <1>3, <1>4, <1>16 DEF SkillInv

\* A walk that is over has visited all that is above the cap.
LEMMA AnswerClosureStep == ASSUME SkillInv, AnswerClosure PROVE SkillInv'
PROOF
<1>1. /\ walk = "closure" /\ Over /\ ClosureInv /\ SkillTypeOK
      /\ closures' = With(closures, whose, found) /\ walk' = "idle" /\ depth' = 0
      /\ found' = <<>> /\ frontier' = {} /\ next' = {} /\ UNCHANGED <<requires, targets>>
  BY DEF AnswerClosure, SkillInv
<1>2. /\ DOMAIN closures' = DOMAIN closures \cup {whose} /\ closures'[whose] = found
      /\ \A t \in DOMAIN closures : closures'[t] = IF t = whose THEN found ELSE closures[t]
  BY <1>1 DEF With
<1>3. SkillTypeOK' /\ \A u : Direct(u)' = Direct(u)
  BY <1>1, <1>2, LevelsArePositive DEF SkillTypeOK, ClosureInv, Direct
<1>4. Answered(whose, found)
  <2>1. ASSUME NEW k \in 0..(MaxDepth - 1), NEW u \in Above(whose, found, k), NEW n \in Direct(u)
        PROVE  Holds(found, n, k)
    <3>1. k \in Nat /\ k < MaxDepth /\ MaxDepth \in Nat
      BY LevelsArePositive
    <3>2. At(n, k).depth = k
      BY DEF At
    <3>3. At(n, k) \notin Pending
      BY <1>1, <3>1, <3>2 DEF Over, Pending, ClosureInv, SkillTypeOK
    <3>. QED
      BY <1>1, <3>1, <3>3 DEF ClosureInv
  <2>. QED
    BY <1>1, <2>1 DEF Answered, ClosureInv
<1>5. ASSUME NEW t \in DOMAIN closures' PROVE Answered(t, closures[t])'
  <2>1. Answered(t, closures'[t])
    BY <1>2, <1>4 DEF SkillInv
  <2>. QED
    BY <1>1, <1>3, <2>1 DEF Answered, Justified, Wants, WantsAt
<1>. QED
  BY <1>1, <1>3, <1>5 DEF SkillInv

-------------------------------------------------------------------------------
(* The plan *)

\* The plan starts from the targets, when each has been answered.
LEMMA AskPlanStep == ASSUME SkillInv, AskPlan PROVE SkillInv'
PROOF
<1>1. /\ walk = "idle" /\ Left = {} /\ walk' = "plan"
      /\ found' = [t \in targets |->
                     [level |-> NoLevel, depth |-> 0, requested |-> TRUE, requiredBy |-> {}]]
      /\ frontier' = UNION {Demands(t) : t \in targets}
      /\ UNCHANGED <<requires, targets, whose, next, depth, closures>>
      /\ next = {} /\ depth = 0 /\ SkillTypeOK
  BY DEF AskPlan, SkillInv
<1>2. SkillTypeOK' /\ \A u : Direct(u)' = Direct(u)
  BY <1>1 DEF SkillTypeOK, Direct
<1>3. ASSUME NEW u \in DOMAIN closures PROVE Answered(u, closures[u])'
  BY <1>1, <1>2 DEF SkillInv, Answered, Justified, Wants, WantsAt
<1>4. DOMAIN closures = targets /\ targets \subseteq Types
  BY <1>1 DEF Left, SkillTypeOK
<1>5. DOMAIN found' = targets /\ found' \in [DOMAIN found' -> PlanEntry]
  BY <1>1 DEF PlanEntry
<1>6. \A t \in targets : found'[t].depth = 0 /\ found'[t].level = NoLevel /\ found'[t].requiredBy = {}
  BY <1>1
<1>7. Pending' = UNION {{By(n, t) : n \in Direct(t)} : t \in targets}
  BY <1>1 DEF Pending, Demands, By
<1>8. \A e \in Pending' : e.by \in targets /\ \E n \in Direct(e.by) : e = By(n, e.by)
  BY <1>7 DEF By
<1>9. PlanInv'
  <2>1. \A e \in frontier' : found'[e.by].depth = 0
    BY <1>6, <1>8 DEF Pending
  <2>2. \A u \in targets : \A n \in Direct(u) : By(n, u) \in Pending'
    BY <1>7
  <2>3. \A s \in targets : found'[s].depth <= depth + 1 /\ found'[s].depth <= MaxDepth
    BY <1>1, <1>6, LevelsArePositive
  <2>. QED
    BY <1>1, <1>2, <1>4, <1>5, <1>6, <1>8, <2>1, <2>2, <2>3 DEF PlanInv
<1>. QED
  BY <1>1, <1>2, <1>3, <1>9 DEF SkillInv

\* What visiting e makes of the plan: nothing that is there becomes less or deeper.
Merged(map, to, e, d, more) ==
    /\ DOMAIN to = DOMAIN map \cup {e.skill}
    /\ \A s \in DOMAIN map : /\ to[s].depth = map[s].depth /\ to[s].level >= map[s].level
                             /\ map[s].requiredBy \subseteq to[s].requiredBy
    /\ \A s \in DOMAIN to : \/ s \in DOMAIN map /\ to[s].level = map[s].level
                            \/ s = e.skill /\ to[s].level = e.level
    /\ \A s \in DOMAIN to : \A u \in to[s].requiredBy :
         \/ s \in DOMAIN map /\ u \in map[s].requiredBy
         \/ s = e.skill /\ u = e.by
    /\ to[e.skill].level >= e.level /\ to[e.skill].depth <= d /\ e.by \in to[e.skill].requiredBy
    /\ e.skill \notin DOMAIN map => to[e.skill].depth = d
    /\ more = IF e.skill \in DOMAIN map THEN {} ELSE Demands(e.skill)

LEMMA VisitMerges ==
    ASSUME SkillTypeOK, PlanInv, NEW e \in frontier, Demanded(e)
    PROVE  /\ \E more : Merged(found, found', e, depth + 1, more) /\ next' = next \cup more
           /\ found' \in [DOMAIN found' -> PlanEntry]
PROOF
<1>1. /\ e.by \in DOMAIN found /\ found[e.by].depth = depth /\ depth \in Nat /\ depth + 1 \in Nat
      /\ e.by \in Types /\ e.skill \in Types /\ e.level \in Levels /\ e.level \in Nat
  <2>1. e.by \in DOMAIN found /\ found[e.by].depth = depth /\ e.by \in Types
    BY DEF PlanInv, Pending
  <2>2. PICK n \in Direct(e.by) : e = By(n, e.by)
    BY DEF PlanInv, Pending
  <2>3. n.skill \in Types /\ n.level \in Levels /\ n.level \in Nat
    BY <2>1, DirectNeeds
  <2>. QED
    BY <2>1, <2>2, <2>3, LevelsArePositive DEF By, SkillTypeOK
<1>2. /\ found \in [DOMAIN found -> PlanEntry]
      /\ \A s \in DOMAIN found : found[s].depth <= depth + 1
      /\ \A s \in DOMAIN found :
           found[s].level \in Nat /\ found[s].level \in Levels \cup {NoLevel}
           /\ found[s].depth \in Nat /\ found[s].requiredBy \subseteq Types
           /\ found[s].requested \in BOOLEAN
  BY LevelsArePositive DEF PlanInv, PlanEntry, NoLevel
<1>3. \A i \in Nat : i >= i /\ i <= i
  OBVIOUS
<1>4. CASE e.skill \in DOMAIN found
  <2> DEFINE s == e.skill
             level == Max({found[s].level, e.level})
             to == [level |-> level, depth |-> Min({found[s].depth, depth + 1}),
                    requested |-> found[s].requested,
                    requiredBy |-> found[s].requiredBy \cup {e.by}]
  <2>1. found' = [found EXCEPT ![s] = to] /\ next' = next
    BY <1>1, <1>4 DEF Demanded
  <2>2. level = IF found[s].level >= e.level THEN found[s].level ELSE e.level
    BY <1>1, <1>2, <1>4, MaxOfTwo
  <2>3. to.depth = found[s].depth
    BY <1>1, <1>2, <1>4, MinOfTwo
  <2>4. /\ to.level = level /\ to.requiredBy = found[s].requiredBy \cup {e.by}
        /\ to.requested = found[s].requested
        /\ to = [level |-> to.level, depth |-> to.depth, requested |-> to.requested,
                 requiredBy |-> to.requiredBy]
    OBVIOUS
  <2>5. level >= found[s].level /\ level >= e.level /\ level \in Levels \cup {NoLevel}
    BY <1>1, <1>2, <1>4, <2>2
  <2> HIDE DEF level, to
  <2>6. to \in PlanEntry
    <3>1. /\ to.level \in Levels \cup {NoLevel} /\ to.depth \in Nat /\ to.requested \in BOOLEAN
          /\ to.requiredBy \in SUBSET Types
      BY <1>1, <1>2, <1>4, <2>3, <2>4, <2>5
    <3>. QED
      BY <2>4, <3>1 DEF PlanEntry
  <2>7. DOMAIN found' = DOMAIN found /\ found'[s] = to
        /\ \A r \in DOMAIN found : r # s => found'[r] = found[r]
    BY <1>2, <1>4, <2>1
  <2>8. Merged(found, found', e, depth + 1, {})
    <3>1. \A r \in DOMAIN found : /\ found'[r].depth = found[r].depth
                                  /\ found'[r].level >= found[r].level
                                  /\ found[r].requiredBy \subseteq found'[r].requiredBy
      BY <1>2, <1>3, <2>3, <2>4, <2>5, <2>7
    <3>2. \A r \in DOMAIN found' : \/ r \in DOMAIN found /\ found'[r].level = found[r].level
                                   \/ r = e.skill /\ found'[r].level = e.level
      BY <2>2, <2>4, <2>7
    <3>3. \A r \in DOMAIN found' : \A u \in found'[r].requiredBy :
             \/ r \in DOMAIN found /\ u \in found[r].requiredBy
             \/ r = e.skill /\ u = e.by
      BY <2>4, <2>7
    <3>4. /\ found'[e.skill].level >= e.level /\ found'[e.skill].depth <= depth + 1
          /\ e.by \in found'[e.skill].requiredBy
      BY <1>2, <1>4, <2>3, <2>4, <2>5, <2>7
    <3>5. DOMAIN found' = DOMAIN found \cup {e.skill}
      BY <1>4, <2>7
    <3>. QED
      BY ONLY <1>4, <3>1, <3>2, <3>3, <3>4, <3>5 DEF Merged
  <2>9. found' \in [DOMAIN found' -> PlanEntry]
    BY <1>2, <2>1, <2>6, <2>7
  <2>. QED
    BY <2>1, <2>8, <2>9
<1>5. CASE e.skill \notin DOMAIN found
  <2> DEFINE to == [level |-> e.level, depth |-> depth + 1, requested |-> FALSE,
                    requiredBy |-> {e.by}]
  <2>1. found' = With(found, e.skill, to) /\ next' = next \cup Demands(e.skill)
    BY <1>1, <1>5 DEF Demanded
  <2>2. /\ to.level = e.level /\ to.depth = depth + 1 /\ to.requiredBy = {e.by} /\ to \in PlanEntry
    BY <1>1 DEF PlanEntry
  <2> HIDE DEF to
  <2>3. /\ DOMAIN found' = DOMAIN found \cup {e.skill} /\ found'[e.skill] = to
        /\ \A r \in DOMAIN found : found'[r] = found[r]
    BY <1>5, <2>1 DEF With
  <2>4. Merged(found, found', e, depth + 1, Demands(e.skill))
    <3>1. \A r \in DOMAIN found : /\ found'[r].depth = found[r].depth
                                  /\ found'[r].level = found[r].level
                                  /\ found'[r].level >= found[r].level
                                  /\ found[r].requiredBy = found'[r].requiredBy
      BY <1>2, <1>3, <2>3
    <3>2. /\ found'[e.skill].level = e.level /\ found'[e.skill].level >= e.level
          /\ found'[e.skill].depth = depth + 1 /\ found'[e.skill].depth <= depth + 1
          /\ found'[e.skill].requiredBy = {e.by}
      BY <1>1, <1>3, <2>2, <2>3
    <3>. QED
      BY <1>5, <2>3, <3>1, <3>2 DEF Merged
  <2>5. found' \in [DOMAIN found' -> PlanEntry]
    BY <1>2, <2>1, <2>2, <2>3 DEF With
  <2>. QED
    BY <2>1, <2>4, <2>5
<1>. QED
  BY <1>4, <1>5

LEMMA VisitPlanStep == ASSUME SkillInv, VisitPlan PROVE SkillInv'
PROOF
<1>1. PICK e \in frontier : Demanded(e) /\ frontier' = frontier \ {e}
  BY DEF VisitPlan
<1>2. /\ walk = "plan" /\ depth < MaxDepth
      /\ UNCHANGED <<requires, targets, walk, whose, depth, closures>>
      /\ SkillTypeOK /\ PlanInv /\ depth \in Nat /\ MaxDepth \in Nat
  BY LevelsArePositive DEF VisitPlan, SkillInv, SkillTypeOK
<1>3. SkillTypeOK' /\ \A u : Direct(u)' = Direct(u)
  BY <1>2 DEF SkillTypeOK, Direct
<1>4. ASSUME NEW u \in DOMAIN closures PROVE Answered(u, closures[u])'
  BY <1>2, <1>3 DEF SkillInv, Answered, Justified, Wants, WantsAt
<1>5. PICK more : Merged(found, found', e, depth + 1, more) /\ next' = next \cup more
  BY <1>1, <1>2, VisitMerges
<1>6. found' \in [DOMAIN found' -> PlanEntry]
  BY <1>1, <1>2, VisitMerges
<1>7. e.by \in DOMAIN found /\ found[e.by].depth = depth /\ e.by \in Types
  BY <1>2 DEF PlanInv, Pending
<1>8. PICK n \in Direct(e.by) : e = By(n, e.by)
  BY <1>2 DEF PlanInv, Pending
<1>9. /\ n.skill = e.skill /\ n.level = e.level /\ e.skill \in Types /\ n \in Needs
      /\ Wants(e.by, e.skill) /\ WantsAt(e.by, e.skill, e.level)
  BY <1>2, <1>7, <1>8, DirectNeeds DEF By, Wants, WantsAt
<1>10. /\ DOMAIN found' \subseteq Types /\ DOMAIN found \subseteq DOMAIN found'
       /\ e.by \in DOMAIN found' /\ found'[e.by].depth = depth
       /\ \A s \in DOMAIN found : found'[s].depth = found[s].depth
  BY <1>2, <1>5, <1>7, <1>9 DEF Merged, PlanInv
<1>11. ASSUME NEW s \in DOMAIN found'
       PROVE  /\ found'[s].depth <= depth + 1 /\ found'[s].depth <= MaxDepth
              /\ \/ s \in targets /\ found'[s].depth = 0
                 \/ \E u \in DOMAIN found' : found'[s].depth = found'[u].depth + 1 /\ Wants(u, s)
  <2>1. CASE s \in DOMAIN found
    BY <1>2, <1>10, <2>1 DEF PlanInv
  <2>2. CASE s \notin DOMAIN found
    <3>1. s = e.skill /\ found'[s].depth = depth + 1
      BY <1>5, <2>2 DEF Merged
    <3>. QED
      BY <1>2, <1>9, <1>10, <3>1
  <2>. QED
    BY <2>1, <2>2
<1>12. ASSUME NEW s \in DOMAIN found'
       PROVE  \/ found'[s].level = NoLevel
              \/ \E u \in DOMAIN found' : found'[u].depth < MaxDepth /\ WantsAt(u, s, found'[s].level)
  <2>1. CASE s \in DOMAIN found /\ found'[s].level = found[s].level
    BY <1>2, <1>10, <2>1 DEF PlanInv
  <2>2. CASE s = e.skill /\ found'[s].level = e.level
    BY <1>2, <1>9, <1>10, <2>2
  <2>. QED
    BY <1>5, <2>1, <2>2 DEF Merged
<1>13. ASSUME NEW s \in DOMAIN found', NEW u \in found'[s].requiredBy
       PROVE  u \in DOMAIN found' /\ found'[u].depth < MaxDepth /\ Wants(u, s)
  <2>1. CASE s \in DOMAIN found /\ u \in found[s].requiredBy
    BY <1>2, <1>10, <2>1 DEF PlanInv
  <2>2. CASE s = e.skill /\ u = e.by
    BY <1>2, <1>9, <1>10, <2>2
  <2>. QED
    BY <1>5, <2>1, <2>2 DEF Merged
<1>14. \A m \in more : /\ m.by = e.skill /\ e.skill \notin DOMAIN found
                       /\ \E r \in Direct(e.skill) : m = By(r, e.skill)
  BY <1>5 DEF Merged, Demands, By
<1>15. more # {} => e.skill \in DOMAIN found' /\ found'[e.skill].depth = depth + 1
  BY <1>5 DEF Merged
<1>16. ASSUME NEW m \in Pending'
       PROVE  m.by \in DOMAIN found' /\ \E r \in Direct(m.by) : m = By(r, m.by)
  <2>1. CASE m \in Pending
    BY <1>2, <1>10, <2>1 DEF PlanInv
  <2>2. CASE m \in more
    BY <1>14, <1>15, <2>2
  <2>. QED
    BY <1>1, <1>5, <2>1, <2>2 DEF Pending
<1>17. ASSUME NEW u \in DOMAIN found', NEW r \in Direct(u)
       PROVE  \/ By(r, u) \in Pending'
              \/ Holds(found', r, found'[u].depth + 1) /\ u \in found'[r.skill].requiredBy
  <2>0. u \in Types /\ r.level \in Nat
    BY <1>2, <1>10, DirectNeeds
  <2>1. CASE u \in DOMAIN found /\ By(r, u) = e
    BY <1>5, <1>7, <1>10, <2>1 DEF Merged, Holds, By
  <2>2. CASE u \in DOMAIN found /\ By(r, u) \in Pending /\ By(r, u) # e
    BY <1>1, <1>5, <2>2 DEF Pending
  <2>3. CASE u \in DOMAIN found /\ Holds(found, r, found[u].depth + 1) /\ u \in found[r.skill].requiredBy
    <3>1. found[r.skill].level \in Nat /\ found'[r.skill].level \in Nat
      <4>1. \A l \in Levels \cup {NoLevel} : l \in Nat
        BY LevelsArePositive DEF NoLevel
      <4>2. r.skill \in DOMAIN found /\ r.skill \in DOMAIN found' /\ found \in [DOMAIN found -> PlanEntry]
        BY <1>2, <1>10, <2>3 DEF Holds, PlanInv
      <4>. QED
        BY <1>6, <4>1, <4>2 DEF PlanEntry
    <3>. QED
      BY <1>5, <1>10, <2>0, <2>3, <3>1 DEF Holds, Merged
  <2>4. CASE u \notin DOMAIN found
    <3>1. u = e.skill /\ more = Demands(u)
      BY <1>5, <2>4 DEF Merged
    <3>. QED
      BY <1>5, <3>1 DEF Demands, By, Pending
  <2>. QED
    BY <1>2, <2>1, <2>2, <2>3, <2>4 DEF PlanInv
<1>18. PlanInv'
  <2>1. \A m \in frontier' : found'[m.by].depth = depth
    BY <1>1, <1>2, <1>10 DEF PlanInv, Pending
  <2>2. \A m \in next' : found'[m.by].depth = depth + 1
    BY <1>2, <1>5, <1>10, <1>14, <1>15 DEF PlanInv, Pending
  <2>3. DOMAIN closures = targets /\ \A t \in targets : t \in DOMAIN found' /\ found'[t].depth = 0
    BY <1>2, <1>10 DEF PlanInv
  <2>. QED
    BY <1>2, <1>3, <1>6, <1>10, <1>11, <1>12, <1>13, <1>16, <1>17, <2>1, <2>2, <2>3
       DEF PlanInv, Wants, WantsAt
<1>. QED
  BY <1>2, <1>3, <1>4, <1>18 DEF SkillInv

LEMMA AnswerPlanStep == ASSUME SkillInv, AnswerPlan PROVE SkillInv'
PROOF
<1>1. /\ walk = "plan" /\ Over /\ walk' = "planned"
      /\ UNCHANGED <<requires, targets, whose, found, frontier, next, depth, closures>>
  BY DEF AnswerPlan
<1>. QED
  BY <1>1 DEF SkillInv, SkillTypeOK, Answered, Justified, Wants, WantsAt, PlanInv, Pending, Over, Direct

LEMMA StepSkill == ASSUME SkillInv, PlanNext \/ UNCHANGED planVars PROVE SkillInv'
PROOF
<1>1. CASE UNCHANGED planVars
  BY <1>1 DEF planVars, SkillInv, SkillTypeOK, Answered, Justified, Wants, WantsAt, PlanInv, ClosureInv,
     Pending, Over, Direct
<1>2. CASE PlanNext
  BY <1>2, AskClosureStep, VisitClosureStep, AnswerClosureStep, AskPlanStep, VisitPlanStep,
     AnswerPlanStep, NextRoundStep DEF PlanNext
<1>. QED
  BY <1>1, <1>2

-------------------------------------------------------------------------------
(* Two walks, one answer *)

\* What a plan has above the cap it has gone through.
LEMMA PlanIsComplete ==
    ASSUME SkillInv, Planned, NEW u \in DOMAIN found, found[u].depth < MaxDepth, NEW n \in Direct(u)
    PROVE  Holds(found, n, found[u].depth + 1) /\ u \in found[n.skill].requiredBy
PROOF
<1>1. PlanInv /\ Over /\ SkillTypeOK /\ MaxDepth \in Nat
  BY LevelsArePositive DEF SkillInv, Planned
<1>2. By(n, u) \notin Pending
  <2>1. By(n, u).by = u
    BY DEF By
  <2>2. CASE depth = MaxDepth
    BY <1>1, <2>1, <2>2 DEF PlanInv, SkillTypeOK, Pending
  <2>3. CASE frontier = {} /\ next = {}
    BY <2>3 DEF Pending
  <2>. QED
    BY <1>1, <2>2, <2>3 DEF Over
<1>. QED
  BY <1>1, <1>2 DEF PlanInv

\* What a target's own requirements have, the plan has, at most one deeper.
LEMMA PlanHasClosures ==
    ASSUME SkillInv, Planned, NEW t \in targets, NEW s \in DOMAIN closures[t]
    PROVE  s \in DOMAIN found /\ found[s].depth <= closures[t][s].depth + 1
PROOF
<1>1. /\ PlanInv /\ SkillTypeOK /\ Answered(t, closures[t]) /\ t \in Types
      /\ MaxDepth \in Nat /\ MaxDepth > 0
  BY LevelsArePositive DEF SkillInv, Planned, PlanInv, SkillTypeOK
<1> DEFINE map == closures[t]
           Bad == {k \in Nat : \E r \in DOMAIN map :
                     map[r].depth = k /\ ~(r \in DOMAIN found /\ found[r].depth <= k + 1)}
<1>2. \A r \in DOMAIN map : map[r].depth \in Nat /\ map[r].depth < MaxDepth
  BY <1>1 DEF Answered, Justified
<1>3. \A r \in DOMAIN found : found[r].depth \in Nat
  BY <1>1 DEF PlanInv, PlanEntry
<1>4. ASSUME NEW k \in Bad, \A j \in Bad : k <= j PROVE FALSE
  <2>1. PICK r \in DOMAIN map : map[r].depth = k /\ ~(r \in DOMAIN found /\ found[r].depth <= k + 1)
    BY <1>4
  <2>2. PICK u \in Above(t, map, k) : Wants(u, r)
    BY <1>1, <2>1 DEF Answered, Justified
  <2>3. PICK n \in Direct(u) : n.skill = r
    BY <2>2 DEF Wants
  <2>4. k \in Nat /\ k < MaxDepth
    BY <1>2, <2>1
  <2>5. u \in DOMAIN found /\ found[u].depth <= k
    <3>1. CASE u = t /\ k = 0
      BY <1>1, <3>1 DEF PlanInv
    <3>2. CASE u \in DOMAIN map /\ k = map[u].depth + 1
      <4>1. map[u].depth \in Nat /\ map[u].depth < k /\ map[u].depth \notin Bad
        BY <1>2, <1>4, <2>4, <3>2
      <4>. QED
        BY <3>2, <4>1
    <3>. QED
      BY <2>2, <3>1, <3>2 DEF Above
  <2>6. found[u].depth \in Nat /\ found[u].depth < MaxDepth
    BY <1>1, <1>3, <2>4, <2>5
  <2>7. r \in DOMAIN found /\ found[r].depth <= found[u].depth + 1
    BY <2>3, <2>5, <2>6, PlanIsComplete DEF Holds
  <2>8. found[r].depth <= k + 1
    BY <1>3, <2>4, <2>5, <2>6, <2>7
  <2>. QED
    BY <2>1, <2>7, <2>8
<1>5. Bad = {}
  <2>1. Bad \in SUBSET Nat
    OBVIOUS
  <2> HIDE DEF Bad
  <2>. QED
    BY <1>4, <2>1, LeastNumber
<1>. QED
  BY <1>2, <1>5

\* What the plan has and was not asked for, a target's own requirements have at one
\* step less.
LEMMA ClosuresHavePlan ==
    ASSUME SkillInv, Planned, NEW s \in DOMAIN found
    PROVE  \/ s \in targets /\ found[s].depth = 0
           \/ \E t \in targets : s \in DOMAIN closures[t] /\ closures[t][s].depth + 1 <= found[s].depth
PROOF
<1>1. PlanInv /\ SkillTypeOK /\ MaxDepth \in Nat /\ MaxDepth > 0
  BY LevelsArePositive DEF SkillInv, Planned
<1>2. \A r \in DOMAIN found : found[r].depth \in Nat /\ found[r].depth <= MaxDepth
  BY <1>1 DEF PlanInv, PlanEntry
<1>3. \A t \in targets : t \in Types /\ Answered(t, closures[t])
  BY <1>1 DEF SkillInv, PlanInv, SkillTypeOK
<1>4. \A t \in targets : \A r \in DOMAIN closures[t] :
        r \in Types /\ closures[t][r].depth \in Nat /\ closures[t][r].depth < MaxDepth
  BY <1>1, <1>3 DEF Answered, Justified
<1> DEFINE Nearer(r) == \E t \in targets :
                          r \in DOMAIN closures[t] /\ closures[t][r].depth + 1 <= found[r].depth
           Bad == {k \in Nat : \E r \in DOMAIN found :
                     found[r].depth = k /\ ~(r \in targets /\ k = 0) /\ ~Nearer(r)}
<1>5. ASSUME NEW k \in Bad, \A j \in Bad : k <= j PROVE FALSE
  <2>1. PICK r \in DOMAIN found : found[r].depth = k /\ ~(r \in targets /\ k = 0) /\ ~Nearer(r)
    BY <1>5
  <2>2. PICK u \in DOMAIN found : k = found[u].depth + 1 /\ Wants(u, r)
    BY <1>1, <2>1 DEF PlanInv
  <2>3. PICK n \in Direct(u) : n.skill = r
    BY <2>2 DEF Wants
  <2>4. found[u].depth \in Nat /\ found[u].depth < k /\ k <= MaxDepth /\ k \in Nat
        /\ found[u].depth \notin Bad
    BY <1>2, <1>5, <2>1, <2>2
  <2>5. CASE u \in targets /\ found[u].depth = 0
    <3>1. u \in Above(u, closures[u], 0) /\ 0 \in 0..(MaxDepth - 1)
      BY <1>1, <1>3, <2>5 DEF Above
    <3>2. Holds(closures[u], n, 0)
      BY <1>3, <2>5, <3>1 DEF Answered
    <3>3. closures[u][r].depth \in Nat /\ r \in DOMAIN closures[u] /\ closures[u][r].depth <= 0
      BY <1>4, <2>3, <2>5, <3>2 DEF Holds
    <3>. QED
      BY <2>1, <2>2, <2>5, <3>3
  <2>6. CASE \E t \in targets : u \in DOMAIN closures[t] /\ closures[t][u].depth + 1 <= found[u].depth
    <3>1. PICK t \in targets : u \in DOMAIN closures[t] /\ closures[t][u].depth + 1 <= found[u].depth
      BY <2>6
    <3> DEFINE j == closures[t][u].depth + 1
    <3>2. j \in 0..(MaxDepth - 1) /\ j + 1 <= k
      BY <1>1, <1>4, <2>2, <2>4, <3>1
    <3>3. u \in Above(t, closures[t], j)
      BY <1>4, <3>1 DEF Above
    <3>4. Holds(closures[t], n, j)
      BY <1>3, <3>2, <3>3 DEF Answered
    <3>5. r \in DOMAIN closures[t] /\ closures[t][r].depth <= j /\ closures[t][r].depth \in Nat
      BY <1>4, <2>3, <3>4 DEF Holds
    <3> HIDE DEF j
    <3>6. closures[t][r].depth + 1 <= found[r].depth
      BY <2>1, <2>4, <3>2, <3>5
    <3>. QED
      BY <2>1, <3>5, <3>6
  <2>. QED
    BY <2>2, <2>4, <2>5, <2>6
<1>6. Bad = {}
  <2>1. Bad \in SUBSET Nat
    OBVIOUS
  <2> HIDE DEF Bad
  <2>. QED
    BY <1>5, <2>1, LeastNumber
<1>. QED
  BY <1>2, <1>6

\* No target's own requirements demand more than the plan.
LEMMA PlanDemandsMost ==
    ASSUME SkillInv, Planned, NEW t \in targets, NEW s \in DOMAIN closures[t]
    PROVE  s \in DOMAIN found /\ found[s].level >= closures[t][s].level
PROOF
<1>1. PlanInv /\ Answered(t, closures[t]) /\ MaxDepth \in Nat /\ MaxDepth > 0
  BY LevelsArePositive DEF SkillInv, Planned, PlanInv
<1>2. PICK k \in 0..(MaxDepth - 1) : \E u \in Above(t, closures[t], k) :
        WantsAt(u, s, closures[t][s].level)
  BY <1>1 DEF Answered, Justified
<1>3. PICK u \in Above(t, closures[t], k) : WantsAt(u, s, closures[t][s].level)
  BY <1>2
<1>4. PICK n \in Direct(u) : n.skill = s /\ n.level = closures[t][s].level
  BY <1>3 DEF WantsAt
<1>5. u \in DOMAIN found /\ found[u].depth < MaxDepth
  <2>1. CASE u = t /\ k = 0
    BY <1>1, <2>1 DEF PlanInv
  <2>2. CASE u \in DOMAIN closures[t] /\ k = closures[t][u].depth + 1
    <3>1. u \in DOMAIN found /\ found[u].depth <= k
      BY <2>2, PlanHasClosures
    <3>2. found[u].depth \in Nat
      BY <1>1, <3>1 DEF PlanInv, PlanEntry
    <3>. QED
      BY <1>1, <3>1, <3>2
  <2>. QED
    BY <1>3, <2>1, <2>2 DEF Above
<1>. QED
  BY <1>4, <1>5, PlanIsComplete DEF Holds

\* A level of the plan is what one target's own requirements demand.
LEMMA PlanDemandsNoMore ==
    ASSUME SkillInv, Planned, NEW s \in DOMAIN found, found[s].level # NoLevel
    PROVE  \E t \in targets : s \in DOMAIN closures[t] /\ closures[t][s].level >= found[s].level
PROOF
<1>1. PlanInv /\ SkillTypeOK /\ MaxDepth \in Nat /\ MaxDepth > 0
  BY LevelsArePositive DEF SkillInv, Planned
<1>2. PICK u \in DOMAIN found : found[u].depth < MaxDepth /\ WantsAt(u, s, found[s].level)
  BY <1>1 DEF PlanInv
<1>3. PICK n \in Direct(u) : n.skill = s /\ n.level = found[s].level
  BY <1>2 DEF WantsAt
<1>4. \A t \in targets : t \in Types /\ Answered(t, closures[t])
  BY <1>1 DEF SkillInv, PlanInv, SkillTypeOK
<1>5. CASE u \in targets /\ found[u].depth = 0
  <2>1. u \in Above(u, closures[u], 0) /\ 0 \in 0..(MaxDepth - 1)
    BY <1>1, <1>4, <1>5 DEF Above
  <2>2. Holds(closures[u], n, 0)
    BY <1>4, <1>5, <2>1 DEF Answered
  <2>. QED
    BY <1>3, <1>5, <2>2 DEF Holds
<1>6. CASE \E t \in targets : u \in DOMAIN closures[t] /\ closures[t][u].depth + 1 <= found[u].depth
  <2>1. PICK t \in targets : u \in DOMAIN closures[t] /\ closures[t][u].depth + 1 <= found[u].depth
    BY <1>6
  <2> DEFINE j == closures[t][u].depth + 1
  <2>2. u \in Types /\ closures[t][u].depth \in Nat /\ found[u].depth \in Nat
    BY <1>1, <1>4, <2>1 DEF Answered, Justified, PlanInv, PlanEntry
  <2>3. j \in 0..(MaxDepth - 1) /\ u \in Above(t, closures[t], j)
    BY <1>1, <1>2, <2>1, <2>2 DEF Above
  <2>4. Holds(closures[t], n, j)
    BY <1>4, <2>3 DEF Answered
  <2>. QED
    BY <1>3, <2>4 DEF Holds
<1>. QED
  BY <1>5, <1>6, ClosuresHavePlan

\* What one plan says of each skill is what the targets' own requirements say of it.
LEMMA PlanAgrees == ASSUME SkillInv PROVE PlanAgreesWithClosures
PROOF
<1> SUFFICES ASSUME Planned PROVE PlanAgreesWithClosures
  BY DEF PlanAgreesWithClosures
<1> DEFINE Of(s) == {closures[t][s] : t \in {u \in targets : s \in DOMAIN closures[u]}}
<1>1. PlanInv /\ SkillTypeOK /\ DOMAIN closures = targets
  BY DEF SkillInv, Planned, PlanInv
<1>2. \A t \in targets : \A s \in DOMAIN closures[t] :
        closures[t][s].level \in Nat /\ closures[t][s].depth \in Nat
  <2>1. \A t \in targets : Answered(t, closures[t])
    BY <1>1 DEF SkillInv
  <2>2. \A t \in targets : \A s \in DOMAIN closures[t] :
          closures[t][s].level \in Levels /\ closures[t][s].depth \in 0..(MaxDepth - 1)
    BY <2>1 DEF Answered, Justified
  <2>3. (\A l \in Levels : l \in Nat) /\ (\A d \in 0..(MaxDepth - 1) : d \in Nat)
    BY LevelsArePositive
  <2>. QED
    BY <2>2, <2>3
<1>3. \A s \in DOMAIN found : found[s].level \in Nat /\ found[s].depth \in Nat
  BY <1>1, LevelsArePositive DEF PlanInv, PlanEntry, NoLevel
<1>4. DOMAIN found = targets \cup UNION {DOMAIN closures[t] : t \in targets}
  <2>1. targets \subseteq DOMAIN found
    BY <1>1 DEF PlanInv
  <2>2. \A t \in targets : DOMAIN closures[t] \subseteq DOMAIN found
    BY PlanHasClosures
  <2>3. \A s \in DOMAIN found : s \in targets \/ \E t \in targets : s \in DOMAIN closures[t]
    BY ClosuresHavePlan
  <2>. QED
    BY <2>1, <2>2, <2>3
<1>5. ASSUME NEW s \in DOMAIN found
      PROVE  found[s].level = Max({e.level : e \in Of(s)} \cup {NoLevel})
  <2> DEFINE S == {e.level : e \in Of(s)} \cup {NoLevel}
  <2>1. S \in SUBSET Nat
    BY <1>2 DEF NoLevel
  <2>2. \A l \in S : found[s].level >= l
    <3>1. \A t \in targets : s \in DOMAIN closures[t] => found[s].level >= closures[t][s].level
      BY PlanDemandsMost
    <3>2. found[s].level >= NoLevel
      BY <1>3 DEF NoLevel
    <3>. QED
      BY <3>1, <3>2
  <2>3. found[s].level \in S
    <3>1. CASE found[s].level # NoLevel
      <4>1. PICK t \in targets : s \in DOMAIN closures[t] /\ closures[t][s].level >= found[s].level
        BY <3>1, PlanDemandsNoMore
      <4>2. closures[t][s].level \in S /\ closures[t][s].level \in Nat
        BY <1>2, <4>1
      <4>3. found[s].level = closures[t][s].level
        <5>1. found[s].level >= closures[t][s].level
          BY <2>2, <4>2
        <5>. QED
          BY <1>3, <4>1, <4>2, <5>1
      <4>. QED
        BY <4>2, <4>3
    <3>. QED
      BY <3>1
  <2> HIDE DEF S
  <2>4. Max(S) = found[s].level
    BY <2>1, <2>2, <2>3, GreatestIsMax
  <2>. QED
    BY <2>4 DEF S
<1>6. ASSUME NEW s \in DOMAIN found
      PROVE  found[s].depth = Min({e.depth + 1 : e \in Of(s)} \cup {0 : t \in targets \cap {s}})
  <2> DEFINE S == {e.depth + 1 : e \in Of(s)} \cup {0 : t \in targets \cap {s}}
  <2>1. S \in SUBSET Nat
    BY <1>2
  <2>2. \A t \in targets : s \in DOMAIN closures[t] => found[s].depth <= closures[t][s].depth + 1
    BY PlanHasClosures
  <2>3. CASE s \in targets /\ found[s].depth = 0
    <3>1. found[s].depth \in S /\ \A d \in Nat : found[s].depth <= d
      BY <2>3
    <3> HIDE DEF S
    <3>2. \A d \in S : found[s].depth <= d
      BY <2>1, <3>1
    <3>3. Min(S) = found[s].depth
      BY <2>1, <3>1, <3>2, LeastIsMin
    <3>. QED
      BY <3>3 DEF S
  <2>4. CASE s \notin targets
    <3>1. PICK t \in targets : s \in DOMAIN closures[t] /\ closures[t][s].depth + 1 <= found[s].depth
      BY <2>4, ClosuresHavePlan
    <3>2. \A d \in S : found[s].depth <= d
      BY <2>2, <2>4
    <3>3. closures[t][s].depth + 1 \in S
      BY <3>1
    <3>4. found[s].depth = closures[t][s].depth + 1
      BY <1>2, <1>3, <2>2, <3>1
    <3> HIDE DEF S
    <3>5. Min(S) = found[s].depth
      BY <2>1, <3>2, <3>3, <3>4, LeastIsMin
    <3>. QED
      BY <3>5 DEF S
  <2>. QED
    BY <1>1, <2>3, <2>4 DEF PlanInv
<1>. QED
  BY <1>1, <1>4, <1>5, <1>6 DEF PlanAgreesWithClosures

-------------------------------------------------------------------------------
(* The outline *)

\* A line stands no deeper in the plan than in the outline.
LEMMA ChainsAreInPlan ==
    ASSUME SkillInv, Planned, NEW p \in Chains(MaxDepth - 1), NEW i \in 1..Len(p)
    PROVE  p[i] \in DOMAIN found /\ found[p[i]].depth <= i - 1
PROOF
<1>1. PlanInv /\ SkillTypeOK /\ MaxDepth \in Nat /\ MaxDepth > 0
  BY LevelsArePositive DEF SkillInv, Planned
<1>2. PICK m \in 0..(MaxDepth - 1) : p \in [1..m -> Types]
  BY DEF Chains, BoundedSeq, SeqOf
<1>3. Len(p) = m /\ m \in Nat /\ m < MaxDepth
  BY <1>1, <1>2
<1>4. \A j \in 1..(m - 1) : Wants(p[j], p[j + 1])
  BY <1>3 DEF Chains, Wants
<1>5. p[1] \in targets
  BY DEF Chains
<1> DEFINE Bad == {j \in 1..m : ~(p[j] \in DOMAIN found /\ found[p[j]].depth <= j - 1)}
<1>6. ASSUME NEW k \in Bad, \A j \in Bad : k <= j PROVE FALSE
  <2>1. k # 1
    BY <1>1, <1>5 DEF PlanInv
  <2>2. k - 1 \in 1..(m - 1) /\ k - 1 \notin Bad /\ k \in Nat
    BY <1>3, <1>6, <2>1
  <2>3. p[k - 1] \in DOMAIN found /\ found[p[k - 1]].depth <= k - 2
    BY <1>3, <2>2
  <2>4. Wants(p[k - 1], p[k])
    <3>1. \A j \in 1..(m - 1) : k = j + 1 => Wants(p[j], p[k])
      BY <1>4
    <3>2. k = (k - 1) + 1
      BY <2>2
    <3>. QED
      BY <2>2, <3>1, <3>2
  <2>5. PICK n \in Direct(p[k - 1]) : n.skill = p[k]
    BY <2>4 DEF Wants
  <2>6. found[p[k - 1]].depth \in Nat
    BY <1>1, <2>3 DEF PlanInv, PlanEntry
  <2>7. k <= m
    BY <1>6
  <2>8. found[p[k - 1]].depth < MaxDepth
    BY <1>1, <1>3, <2>2, <2>3, <2>6, <2>7
  <2>9. p[k] \in DOMAIN found /\ found[p[k]].depth <= found[p[k - 1]].depth + 1
    BY <2>3, <2>5, <2>8, PlanIsComplete DEF Holds
  <2>10. found[p[k]].depth \in Nat
    BY <1>1, <2>9 DEF PlanInv, PlanEntry
  <2>. QED
    BY <2>2, <2>3, <2>6, <2>9, <2>10
<1>7. Bad = {}
  <2>1. Bad \in SUBSET Nat
    OBVIOUS
  <2> HIDE DEF Bad
  <2>. QED
    BY <1>6, <2>1, LeastNumber
<1>. QED
  BY <1>3, <1>7

\* What has a place above the cap is a line of the outline with room below it.
LEMMA PlanIsInChains ==
    ASSUME SkillInv, Planned, NEW s \in DOMAIN found, found[s].depth < MaxDepth - 1
    PROVE  \E p \in Chains(MaxDepth - 1) : p[Len(p)] = s
PROOF
<1>1. PlanInv /\ SkillTypeOK /\ MaxDepth \in Nat /\ MaxDepth > 0
  BY LevelsArePositive DEF SkillInv, Planned
<1>2. \A r \in DOMAIN found : found[r].depth \in Nat /\ r \in Types
  BY <1>1 DEF PlanInv, PlanEntry
<1> DEFINE Line(r) == \E p \in Chains(MaxDepth - 1) : Len(p) = found[r].depth + 1 /\ p[Len(p)] = r
           Bad == {k \in Nat : k < MaxDepth - 1 /\ \E r \in DOMAIN found : found[r].depth = k /\ ~Line(r)}
<1>3. ASSUME NEW k \in Bad, \A j \in Bad : k <= j PROVE FALSE
  <2>1. PICK r \in DOMAIN found : found[r].depth = k /\ ~Line(r)
    BY <1>3
  <2>2. k \in Nat /\ k < MaxDepth - 1
    BY <1>3
  <2>3. CASE r \in targets /\ k = 0
    <3> DEFINE p == [i \in 1..1 |-> r]
    <3>1. p \in [1..1 -> Types] /\ Len(p) = 1 /\ p[1] = r /\ p # <<>>
      BY <1>2, <2>1
    <3> HIDE DEF p
    <3>2. 1 \in 0..(MaxDepth - 1) /\ 1..(Len(p) - 1) = {}
      BY <1>1, <2>2, <2>3, <3>1
    <3>3. p \in BoundedSeq(Types, MaxDepth - 1)
      BY <3>1, <3>2 DEF BoundedSeq, SeqOf
    <3>4. p \in Chains(MaxDepth - 1)
      BY <2>3, <3>1, <3>2, <3>3 DEF Chains
    <3>5. Len(p) = found[r].depth + 1 /\ p[Len(p)] = r
      BY <2>1, <2>3, <3>1
    <3>. QED
      BY <2>1, <3>4, <3>5
  <2>4. CASE \E u \in DOMAIN found : k = found[u].depth + 1 /\ Wants(u, r)
    <3>1. PICK u \in DOMAIN found : k = found[u].depth + 1 /\ Wants(u, r)
      BY <2>4
    <3>0. found[u].depth \in Nat /\ found[u].depth < k /\ found[u].depth < MaxDepth - 1
      BY <1>1, <1>2, <2>2, <3>1
    <3>2. found[u].depth \notin Bad /\ found[u].depth \in Nat /\ found[u].depth < MaxDepth - 1
      <4>1. ~(k <= found[u].depth)
        BY <2>2, <3>0
      <4>. HIDE DEF Bad
      <4>. QED
        BY <1>3, <3>0, <4>1
    <3>3. PICK p \in Chains(MaxDepth - 1) : Len(p) = k /\ p[Len(p)] = u
      BY <3>1, <3>2
    <3>4. PICK m \in 0..(MaxDepth - 1) : p \in [1..m -> Types]
      BY DEF Chains, BoundedSeq, SeqOf
    <3>5. m = k /\ k >= 1
      BY <3>1, <3>2, <3>3, <3>4
    <3> DEFINE q == [i \in 1..(k + 1) |-> IF i = k + 1 THEN r ELSE p[i]]
    <3>6. /\ q \in [1..(k + 1) -> Types] /\ Len(q) = k + 1 /\ q # <<>>
          /\ q[k + 1] = r /\ \A i \in 1..k : q[i] = p[i]
      <4>1. \A i \in 1..k : p[i] \in Types
        BY <3>4, <3>5
      <4>2. k \in Nat /\ r \in Types
        BY <1>2, <2>1, <2>2, <3>5
      <4>3. q \in [1..(k + 1) -> Types]
        BY <4>1, <4>2
      <4>4. q[k + 1] = r /\ \A i \in 1..k : q[i] = p[i]
        BY <4>2
      <4>. HIDE DEF q
      <4>. QED
        BY <4>2, <4>3, <4>4
    <3>7. k + 1 \in 0..(MaxDepth - 1)
      BY <1>1, <2>2
    <3>8. q[1] \in targets
      BY <3>5, <3>6 DEF Chains
    <3>9. ASSUME NEW i \in 1..k PROVE \E n \in Direct(q[i]) : n.skill = q[i + 1]
      <4>1. CASE i = k
        BY <3>1, <3>3, <3>6, <4>1 DEF Wants
      <4>2. CASE i # k
        <5>1. i \in 1..(k - 1) /\ i + 1 \in 1..k
          BY <2>2, <4>2
        <5>. QED
          BY <3>3, <3>6, <5>1 DEF Chains
      <4>. QED
        BY <4>1, <4>2
    <3> HIDE DEF q
    <3>10. q \in Chains(MaxDepth - 1)
      <4>1. q \in BoundedSeq(Types, MaxDepth - 1)
        BY <3>6, <3>7 DEF BoundedSeq, SeqOf
      <4>2. Len(q) - 1 = k
        BY <2>2, <3>6
      <4>. QED
        BY <3>6, <3>8, <3>9, <4>1, <4>2 DEF Chains
    <3>. QED
      BY <2>1, <3>6, <3>10
  <2>. QED
    BY <1>1, <2>1, <2>3, <2>4 DEF PlanInv
<1>4. Bad = {}
  <2>1. Bad \in SUBSET Nat
    OBVIOUS
  <2> HIDE DEF Bad
  <2>. QED
    BY <1>3, <2>1, LeastNumber
<1>. QED
  BY <1>2, <1>4

\* Each skill of the plan names all that demand it, and the outline the same ones.
LEMMA DemandsAreNamed == ASSUME SkillInv PROVE EveryDemandIsNamed
PROOF
<1> SUFFICES ASSUME Planned PROVE EveryDemandIsNamed
  BY DEF EveryDemandIsNamed
<1>1. PlanInv /\ SkillTypeOK /\ MaxDepth \in Nat /\ MaxDepth > 0
  BY LevelsArePositive DEF SkillInv, Planned
<1>2. ASSUME NEW s \in DOMAIN found
      PROVE  found[s].requiredBy = {t \in DOMAIN found : found[t].depth < MaxDepth /\ Wants(t, s)}
  <2>1. \A t \in found[s].requiredBy : t \in DOMAIN found /\ found[t].depth < MaxDepth /\ Wants(t, s)
    BY <1>1 DEF PlanInv
  <2>2. ASSUME NEW t \in DOMAIN found, found[t].depth < MaxDepth, Wants(t, s)
        PROVE  t \in found[s].requiredBy
    BY <2>2, PlanIsComplete DEF Wants
  <2>. QED
    BY <2>1, <2>2
<1>3. ASSUME NEW e \in Drawn
      PROVE  e.by \in found[e.skill].requiredBy /\ e.level <= found[e.skill].level
  <2>1. PICK p \in Chains(MaxDepth - 1) : e \in Demands(p[Len(p)])
    BY DEF Drawn
  <2>2. PICK m \in 0..(MaxDepth - 1) : p \in [1..m -> Types] /\ p # <<>>
    BY DEF Chains, BoundedSeq, SeqOf
  <2>3. Len(p) = m /\ m \in 1..Len(p)
    BY <2>2
  <2>4. p[m] \in DOMAIN found /\ found[p[m]].depth <= m - 1
    BY <2>3, ChainsAreInPlan
  <2>5. found[p[m]].depth < MaxDepth
    <3>1. found[p[m]].depth \in Nat
      BY <1>1, <2>4 DEF PlanInv, PlanEntry
    <3>. QED
      BY <1>1, <2>4, <3>1
  <2>6. PICK n \in Direct(p[m]) : e = By(n, p[m])
    BY <2>1, <2>3 DEF Demands, By
  <2>7. Holds(found, n, found[p[m]].depth + 1) /\ p[m] \in found[n.skill].requiredBy
    BY <2>4, <2>5, PlanIsComplete
  <2>8. n.level \in Nat /\ found[n.skill].level \in Nat
    <3>1. p[m] \in Types
      BY <2>2, <2>3
    <3>2. n.level \in Nat
      BY <1>1, <3>1, DirectNeeds
    <3>3. found[n.skill].level \in Levels \cup {NoLevel}
      <4>1. n.skill \in DOMAIN found /\ found \in [DOMAIN found -> PlanEntry]
        BY <1>1, <2>7 DEF Holds, PlanInv
      <4>2. found[n.skill] \in PlanEntry
        BY <4>1
      <4>. QED
        BY <4>2 DEF PlanEntry
    <3>4. \A l \in Levels \cup {NoLevel} : l \in Nat
      BY LevelsArePositive DEF NoLevel
    <3>. QED
      BY <3>2, <3>3, <3>4
  <2>. QED
    BY <2>6, <2>7, <2>8 DEF By, Holds
<1>4. ASSUME NEW s \in DOMAIN found, NEW t \in found[s].requiredBy, found[t].depth < MaxDepth - 1
      PROVE  \E e \in Drawn : e.by = t /\ e.skill = s
  <2>1. t \in DOMAIN found /\ Wants(t, s)
    BY <1>1 DEF PlanInv
  <2>2. PICK p \in Chains(MaxDepth - 1) : p[Len(p)] = t
    BY <1>4, <2>1, PlanIsInChains
  <2>3. PICK n \in Direct(t) : n.skill = s
    BY <2>1 DEF Wants
  <2>4. By(n, t) \in Demands(t)
    BY DEF Demands, By
  <2>5. By(n, t) \in Drawn
    BY <2>2, <2>4 DEF Drawn
  <2>. QED
    BY <2>3, <2>5 DEF By
<1>. QED
  BY <1>2, <1>3, <1>4 DEF EveryDemandIsNamed, Wants

-------------------------------------------------------------------------------
(* Lists *)

IsList(s) == s \in Seq(Range(s))

\* What is mapped one to one is as many.
LEMMA SameSize ==
    ASSUME NEW S, NEW T, IsFiniteSet(S), NEW f \in [S -> T],
           \A x, y \in S : f[x] = f[y] => x = y, \A t \in T : \E x \in S : f[x] = t
    PROVE  IsFiniteSet(T) /\ Cardinality(T) = Cardinality(S)
PROOF
<1>1. f \in Bijection(S, T)
  BY DEF Bijection, Injection, IsInjective, Surjection
<1>2. ExistsBijection(S, T)
  BY <1>1 DEF ExistsBijection
<1>. QED
  BY <1>2, FS_Bijection

\* The place of each in the order of a finite set of numbers.
Rank(at, i) == Cardinality({j \in at : j < i})

LEMMA Ranks ==
    ASSUME NEW at \in SUBSET Nat, IsFiniteSet(at)
    PROVE  /\ Cardinality(at) \in Nat
           /\ \A i \in at : Rank(at, i) \in 0..(Cardinality(at) - 1)
           /\ \A i, j \in at : i < j => Rank(at, i) < Rank(at, j)
           /\ \A i, j \in at : Rank(at, i) = Rank(at, j) => i = j
PROOF
<1> DEFINE n == Cardinality(at)
           before(i) == {j \in at : j < i}
<1>1. n \in Nat
  BY FS_CardinalityType
<1>2. ASSUME NEW i \in at PROVE Rank(at, i) \in 0..(n - 1)
  <2>1. IsFiniteSet(at \ {i}) /\ Cardinality(at \ {i}) = n - 1
    BY FS_RemoveElement
  <2>2. before(i) \subseteq at \ {i}
    OBVIOUS
  <2>3. IsFiniteSet(before(i)) /\ Cardinality(before(i)) <= n - 1
    BY <2>1, <2>2, FS_Subset
  <2>4. Cardinality(before(i)) \in Nat
    BY <2>3, FS_CardinalityType
  <2>. QED
    BY <1>1, <2>3, <2>4 DEF Rank
<1>3. ASSUME NEW i \in at, NEW j \in at, i < j PROVE Rank(at, i) < Rank(at, j)
  <2>0. i \in Nat /\ j \in Nat /\ \A x \in at : x \in Nat
    OBVIOUS
  <2>1. before(i) \subseteq before(j) /\ i \in before(j) /\ i \notin before(i)
    <3>1. \A x \in at : x < i => x < j
      BY <1>3, <2>0
    <3>2. ~(i < i)
      BY <2>0
    <3>. QED
      BY <1>3, <3>1, <3>2
  <2>2. IsFiniteSet(before(j))
    BY FS_Subset
  <2>3. IsFiniteSet(before(i)) /\ Cardinality(before(i)) <= Cardinality(before(j))
        /\ Cardinality(before(i)) # Cardinality(before(j))
    BY <2>1, <2>2, FS_Subset
  <2>4. Cardinality(before(i)) \in Nat /\ Cardinality(before(j)) \in Nat
    BY <2>2, <2>3, FS_CardinalityType
  <2>. QED
    BY <2>3, <2>4 DEF Rank
<1>4. ASSUME NEW i \in at, NEW j \in at, Rank(at, i) = Rank(at, j) PROVE i = j
  <2>1. SUFFICES ASSUME i # j PROVE FALSE
    OBVIOUS
  <2>2. Rank(at, i) \in Nat /\ Rank(at, j) \in Nat
    BY <1>1, <1>2
  <2>3. i < j \/ j < i
    BY <2>1
  <2>. QED
    BY <1>3, <1>4, <2>2, <2>3
<1>. QED
  BY <1>1, <1>2, <1>3, <1>4

\* A list that has each of some places of another once, at `order`.
Arranges(list, items, at, order) ==
    /\ IsList(list)
    /\ order \in [DOMAIN list -> at]
    /\ \A k, l \in DOMAIN list : order[k] = order[l] => k = l
    /\ \A i \in at : \E k \in DOMAIN list : order[k] = i
    /\ \A k \in DOMAIN list : list[k] = items[order[k]]

Increasing(order) == \A k, l \in DOMAIN order : k < l => order[k] < order[l]

LEMMA PlacesAreNumbers ==
    ASSUME NEW items, IsList(items), NEW at \in SUBSET DOMAIN items
    PROVE  at \in SUBSET Nat /\ IsFiniteSet(at)
PROOF
<1>1. DOMAIN items = 1..Len(items) /\ Len(items) \in Nat
  BY DEF IsList
<1>2. IsFiniteSet(DOMAIN items)
  BY <1>1, FS_Interval
<1>. QED
  BY <1>1, <1>2, FS_Subset

\* What is chosen at some places is just what is at them, in their order.
LEMMA ChosenArranges ==
    ASSUME NEW items, IsList(items), NEW at \in SUBSET DOMAIN items
    PROVE  \E order : /\ Arranges(Chosen(items, at), items, at, order)
                      /\ Increasing(order)
                      /\ DOMAIN order = 1..Cardinality(at) /\ Cardinality(at) \in Nat
PROOF
<1> DEFINE n == Cardinality(at)
           rank == [i \in at |-> Rank(at, i)]
           place(k) == CHOOSE i \in at : Cardinality({j \in at : j < i}) = k - 1
<1>1. at \in SUBSET Nat /\ IsFiniteSet(at)
  BY PlacesAreNumbers
<1>2. /\ n \in Nat
      /\ \A i \in at : rank[i] \in 0..(n - 1)
      /\ \A i, j \in at : i < j => rank[i] < rank[j]
      /\ \A i, j \in at : rank[i] = rank[j] => i = j
  BY <1>1, Ranks
<1>5. ASSUME NEW k \in 0..(n - 1) PROVE \E i \in at : rank[i] = k
  <2> SUFFICES ASSUME \A i \in at : rank[i] # k PROVE FALSE
    OBVIOUS
  <2> DEFINE less == (0..(n - 1)) \ {k}
  <2>1. rank \in [at -> less]
    BY <1>2
  <2>2. IsFiniteSet(0..(n - 1)) /\ Cardinality(0..(n - 1)) = n
    BY <1>2, FS_Interval
  <2>3. IsFiniteSet(less) /\ Cardinality(less) = n - 1
    BY <2>2, FS_RemoveElement
  <2> HIDE DEF less, rank
  <2>4. Cardinality(less) < Cardinality(at)
    BY <1>2, <2>3
  <2>. QED
    BY <1>1, <1>2, <2>1, <2>3, <2>4, FS_PigeonHole
<1>6. ASSUME NEW k \in 1..n PROVE place(k) \in at /\ rank[place(k)] = k - 1
  <2>1. k - 1 \in 0..(n - 1)
    BY <1>2
  <2>2. \E i \in at : Cardinality({j \in at : j < i}) = k - 1
    BY <1>5, <2>1 DEF Rank
  <2>3. place(k) \in at /\ Cardinality({j \in at : j < place(k)}) = k - 1
    BY <2>2
  <2>. QED
    BY <2>3 DEF Rank
<1>7. Chosen(items, at) = [k \in 1..n |-> items[place(k)]]
  BY DEF Chosen
<1> HIDE DEF place, rank, n
<1> DEFINE order == [k \in 1..n |-> place(k)]
<1>8. ASSUME NEW i \in at PROVE \E k \in 1..n : order[k] = i
  <2>1. rank[i] + 1 \in 1..n /\ (rank[i] + 1) - 1 = rank[i]
    BY <1>2
  <2>2. place(rank[i] + 1) \in at /\ rank[place(rank[i] + 1)] = rank[i]
    BY <1>6, <2>1
  <2>. QED
    BY <1>2, <2>1, <2>2
<1>9. ASSUME NEW k \in 1..n, NEW l \in 1..n, k < l PROVE order[k] < order[l]
  <2>1. /\ place(k) \in at /\ place(l) \in at
        /\ rank[place(k)] = k - 1 /\ rank[place(l)] = l - 1
    BY <1>6
  <2>2. k - 1 < l - 1
    BY <1>2, <1>9
  <2>3. place(k) \in Nat /\ place(l) \in Nat
    BY <1>1, <2>1
  <2>4. place(k) # place(l) /\ ~(place(l) < place(k))
    <3>1. k - 1 # l - 1 /\ ~(l - 1 < k - 1)
      BY <1>2, <2>2
    <3>. QED
      BY <1>2, <2>1, <3>1
  <2>. QED
    BY <2>3, <2>4
<1>10. ASSUME NEW k \in 1..n, NEW l \in 1..n, order[k] = order[l] PROVE k = l
  <2>1. k - 1 = l - 1
    BY <1>6, <1>10
  <2>. QED
    BY <1>2, <2>1
<1>11. IsList(Chosen(items, at))
  <2>1. \A k \in 1..n : items[place(k)] \in Range(Chosen(items, at))
    BY <1>7 DEF Range
  <2>. QED
    BY <1>2, <1>7, <2>1 DEF IsList
<1>12. order \in [1..n -> at] /\ DOMAIN Chosen(items, at) = 1..n
       /\ \A k \in 1..n : Chosen(items, at)[k] = items[order[k]]
  BY <1>6, <1>7
<1>13. Arranges(Chosen(items, at), items, at, order)
  <2> HIDE DEF order
  <2>. QED
    BY <1>8, <1>10, <1>11, <1>12 DEF Arranges
<1>14. Increasing(order)
  BY <1>9 DEF Increasing
<1>15. DOMAIN order = 1..Cardinality(at) /\ Cardinality(at) \in Nat
  BY <1>2 DEF n
<1> HIDE DEF order
<1>. QED
  BY <1>13, <1>14, <1>15

\* There is one order only in which places are chosen.
LEMMA ChosenIsOrdered ==
    ASSUME NEW items, IsList(items), NEW at \in SUBSET DOMAIN items,
           NEW n \in Nat, NEW order \in [1..n -> at], Increasing(order),
           \A i \in at : \E k \in 1..n : order[k] = i
    PROVE  Chosen(items, at) = [k \in 1..n |-> items[order[k]]]
PROOF
<1>1. at \in SUBSET Nat /\ IsFiniteSet(at)
  BY PlacesAreNumbers
<1>2. \A k, l \in 1..n : order[k] = order[l] => k = l
  <2>1. SUFFICES ASSUME NEW k \in 1..n, NEW l \in 1..n, order[k] = order[l], k # l PROVE FALSE
    OBVIOUS
  <2>2. order[k] \in Nat /\ order[l] \in Nat
    BY <1>1
  <2>3. k < l \/ l < k
    BY <2>1
  <2>4. order[k] < order[l] \/ order[l] < order[k]
    BY <2>3 DEF Increasing
  <2>. QED
    BY <2>1, <2>2, <2>4
<1>3. Cardinality(at) = n
  <2>1. IsFiniteSet(1..n) /\ Cardinality(1..n) = n
    BY FS_Interval
  <2>. QED
    BY <1>2, <2>1, SameSize
<1>4. ASSUME NEW k \in 1..n PROVE Rank(at, order[k]) = k - 1
  <2> DEFINE before == {j \in at : j < order[k]}
             part == [l \in 1..(k - 1) |-> order[l]]
  <2>1. IsFiniteSet(1..(k - 1)) /\ Cardinality(1..(k - 1)) = k - 1
    BY FS_Interval
  <2>2. 1..(k - 1) \subseteq 1..n /\ \A l \in 1..(k - 1) : l < k
    OBVIOUS
  <2>3. part \in [1..(k - 1) -> before]
    BY <2>2 DEF Increasing
  <2>4. ASSUME NEW j \in before PROVE \E l \in 1..(k - 1) : part[l] = j
    <3>1. PICK l \in 1..n : order[l] = j
      OBVIOUS
    <3>2. order[l] < order[k] /\ order[l] \in Nat /\ order[k] \in Nat
      BY <1>1, <3>1
    <3>3. l # k /\ ~(k < l)
      <4>1. k < l => order[k] < order[l]
        BY DEF Increasing
      <4>. QED
        BY <3>2, <4>1
    <3>4. l \in 1..(k - 1)
      BY <3>3
    <3>. QED
      BY <3>1, <3>4
  <2>5. \A x, y \in 1..(k - 1) : part[x] = part[y] => x = y
    BY <1>2, <2>2
  <2> HIDE DEF before, part
  <2>6. Cardinality(before) = k - 1
    BY <2>1, <2>3, <2>4, <2>5, SameSize
  <2>. QED
    BY <2>6 DEF Rank, before
<1>5. \A i, j \in at : Rank(at, i) = Rank(at, j) => i = j
  BY <1>1, Ranks
<1>6. ASSUME NEW k \in 1..n
      PROVE  (CHOOSE i \in at : Cardinality({j \in at : j < i}) = k - 1) = order[k]
  <2>1. order[k] \in at /\ Cardinality({j \in at : j < order[k]}) = k - 1
    BY <1>4 DEF Rank
  <2>2. \A i \in at : Cardinality({j \in at : j < i}) = k - 1 => i = order[k]
    BY <1>4, <1>5 DEF Rank
  <2>. QED
    BY <2>1, <2>2
<1>7. Chosen(items, at) =
        [k \in 1..n |-> items[CHOOSE i \in at : Cardinality({j \in at : j < i}) = k - 1]]
  BY <1>3 DEF Chosen
<1>. QED
  BY <1>6, <1>7, Zenon

\* A list after another is one.
LEMMA JoinedIsList ==
    ASSUME NEW s, NEW t, IsList(s), IsList(t)
    PROVE  IsList(s \o t)
PROOF
<1> DEFINE m == Len(s)
           n == Len(t)
<1>1. /\ s \in Seq(Range(s)) /\ t \in Seq(Range(t)) /\ m \in Nat /\ n \in Nat
      /\ DOMAIN s = 1..m /\ DOMAIN t = 1..n
  BY DEF IsList
<1>2. s \in Seq(Range(s) \cup Range(t)) /\ t \in Seq(Range(s) \cup Range(t))
  BY <1>1
<1>3. /\ s \o t \in Seq(Range(s) \cup Range(t)) /\ DOMAIN (s \o t) = 1..(m + n)
      /\ \A i \in 1..(m + n) : (s \o t)[i] = IF i <= m THEN s[i] ELSE t[i - m]
  BY <1>1, <1>2
<1>4. \A i \in 1..(m + n) : (s \o t)[i] \in Range(s \o t)
  BY <1>3 DEF Range
<1>5. ASSUME NEW x \in Range(s) PROVE x \in Range(s \o t)
  <2>1. PICK i \in 1..m : x = s[i]
    BY <1>1 DEF Range
  <2>2. i \in 1..(m + n) /\ (s \o t)[i] = x
    BY <1>1, <1>3, <2>1
  <2>. QED
    BY <1>4, <2>2
<1>6. ASSUME NEW x \in Range(t) PROVE x \in Range(s \o t)
  <2>1. PICK i \in 1..n : x = t[i]
    BY <1>1 DEF Range
  <2>2. i + m \in 1..(m + n) /\ (s \o t)[i + m] = x
    BY <1>1, <1>3, <2>1
  <2>. QED
    BY <1>4, <2>2
<1>7. Range(s) \cup Range(t) \subseteq Range(s \o t)
  BY <1>5, <1>6
<1>. QED
  BY <1>3, <1>7 DEF IsList

\* A list after another has the places of both.
LEMMA JoinedArranges ==
    ASSUME NEW items, NEW s, NEW t, NEW atS, NEW atT, NEW orderS, NEW orderT,
           Arranges(s, items, atS, orderS), Arranges(t, items, atT, orderT),
           atS \cap atT = {}
    PROVE  Arranges(s \o t, items, atS \cup atT,
                    [k \in 1..(Len(s) + Len(t)) |->
                       IF k <= Len(s) THEN orderS[k] ELSE orderT[k - Len(s)]])
PROOF
<1> DEFINE m == Len(s)
           n == Len(t)
           order == [k \in 1..(m + n) |-> IF k <= m THEN orderS[k] ELSE orderT[k - m]]
<1>1. /\ s \in Seq(Range(s)) /\ t \in Seq(Range(t)) /\ m \in Nat /\ n \in Nat
      /\ DOMAIN s = 1..m /\ DOMAIN t = 1..n
  BY DEF Arranges, IsList
<1>2. s \in Seq(Range(s) \cup Range(t)) /\ t \in Seq(Range(s) \cup Range(t))
  BY <1>1
<1>3. /\ s \o t \in Seq(Range(s) \cup Range(t)) /\ DOMAIN (s \o t) = 1..(m + n)
      /\ \A i \in 1..(m + n) : (s \o t)[i] = IF i <= m THEN s[i] ELSE t[i - m]
  BY <1>1, <1>2
<1>4. IsList(s \o t)
  BY JoinedIsList DEF Arranges
<1>5. /\ orderS \in [1..m -> atS] /\ orderT \in [1..n -> atT]
      /\ \A k, l \in 1..m : orderS[k] = orderS[l] => k = l
      /\ \A k, l \in 1..n : orderT[k] = orderT[l] => k = l
      /\ \A i \in atS : \E k \in 1..m : orderS[k] = i
      /\ \A i \in atT : \E k \in 1..n : orderT[k] = i
      /\ \A k \in 1..m : s[k] = items[orderS[k]]
      /\ \A k \in 1..n : t[k] = items[orderT[k]]
  BY <1>1 DEF Arranges
<1> HIDE DEF m, n
<1>6. \A k \in 1..(m + n) : IF k <= m THEN k \in 1..m ELSE k - m \in 1..n
  BY <1>1
<1>7. /\ \A k \in 1..m : k \in 1..(m + n) /\ k <= m
      /\ \A k \in 1..n : k + m \in 1..(m + n) /\ ~(k + m <= m) /\ (k + m) - m = k
  BY <1>1
<1>8. order \in [1..(m + n) -> atS \cup atT]
  BY <1>5, <1>6
<1>9. ASSUME NEW k \in 1..(m + n), NEW l \in 1..(m + n), order[k] = order[l] PROVE k = l
  <2>1. CASE k <= m /\ l <= m
    BY <1>5, <1>6, <1>9, <2>1
  <2>2. CASE ~(k <= m) /\ ~(l <= m)
    <3>1. k - m \in 1..n /\ l - m \in 1..n /\ orderT[k - m] = orderT[l - m]
      BY <1>6, <1>9, <2>2
    <3>2. k - m = l - m
      BY <1>5, <3>1
    <3>. QED
      BY <1>1, <3>2
  <2>3. CASE k <= m /\ ~(l <= m)
    <3>1. order[k] \in atS /\ order[l] \in atT
      BY <1>5, <1>6, <2>3
    <3>. QED
      BY <1>9, <3>1
  <2>4. CASE ~(k <= m) /\ l <= m
    <3>1. order[k] \in atT /\ order[l] \in atS
      BY <1>5, <1>6, <2>4
    <3>. QED
      BY <1>9, <3>1
  <2>. QED
    BY <2>1, <2>2, <2>3, <2>4
<1>10. ASSUME NEW i \in atS \cup atT PROVE \E k \in 1..(m + n) : order[k] = i
  <2>1. CASE i \in atS
    BY <1>5, <1>7, <2>1
  <2>2. CASE i \in atT
    <3>1. PICK k \in 1..n : orderT[k] = i
      BY <1>5, <2>2
    <3>2. order[k + m] = i /\ k + m \in 1..(m + n)
      BY <1>7, <3>1
    <3>. QED
      BY <3>2
  <2>. QED
    BY <2>1, <2>2
<1>11. ASSUME NEW k \in 1..(m + n) PROVE (s \o t)[k] = items[order[k]]
  BY <1>3, <1>5, <1>6
<1> HIDE DEF order
<1>12. Arranges(s \o t, items, atS \cup atT, order)
  BY <1>3, <1>4, <1>8, <1>9, <1>10, <1>11 DEF Arranges
<1>. QED
  BY <1>12 DEF order, m, n

-------------------------------------------------------------------------------
(* The texts *)

\* A record: what is fitted has a slot, and nothing else has.
IsRecord(items) ==
    /\ IsList(items)
    /\ \A i \in DOMAIN items :
         /\ items[i].item \in Items /\ items[i].fitted \in BOOLEAN
         /\ items[i].slot \in Slots \cup {Nothing}
         /\ items[i].fitted <=> items[i].slot # Nothing

KeepsSlots(list, order) ==
    \A k, l \in DOMAIN list : k < l /\ list[k].slot = list[l].slot => order[k] < order[l]

\* A list of what is in some slots, each slot in its order.
Sorted(list, items, slots) ==
    \E order : /\ Arranges(list, items, {i \in DOMAIN items : items[i].slot \in slots}, order)
               /\ KeepsSlots(list, order)

LEMMA InSlotIsSorted ==
    ASSUME NEW items, IsList(items), NEW slot
    PROVE  Sorted(InSlot(items, slot), items, {slot})
PROOF
<1> DEFINE at == {i \in DOMAIN items : items[i].slot = slot}
<1>1. PICK order : /\ Arranges(Chosen(items, at), items, at, order)
                   /\ Increasing(order) /\ DOMAIN order = 1..Cardinality(at)
  BY ChosenArranges
<1>2. at = {i \in DOMAIN items : items[i].slot \in {slot}}
  OBVIOUS
<1>3. DOMAIN Chosen(items, at) = 1..Cardinality(at)
  BY DEF Chosen
<1>4. InSlot(items, slot) = Chosen(items, at)
  BY DEF InSlot
<1> HIDE DEF at
<1>5. KeepsSlots(Chosen(items, at), order)
  BY <1>1, <1>3 DEF KeepsSlots, Increasing
<1>6. /\ Arranges(InSlot(items, slot), items, {i \in DOMAIN items : items[i].slot \in {slot}}, order)
      /\ KeepsSlots(InSlot(items, slot), order)
  BY <1>1, <1>2, <1>4, <1>5
<1>. QED
  BY <1>6 DEF Sorted

LEMMA JoinedIsSorted ==
    ASSUME NEW items, NEW s, NEW t, NEW S, NEW T,
           Sorted(s, items, S), Sorted(t, items, T), S \cap T = {}
    PROVE  Sorted(s \o t, items, S \cup T)
PROOF
<1> DEFINE atS == {i \in DOMAIN items : items[i].slot \in S}
           atT == {i \in DOMAIN items : items[i].slot \in T}
           at == {i \in DOMAIN items : items[i].slot \in S \cup T}
<1>1. PICK orderS : Arranges(s, items, atS, orderS) /\ KeepsSlots(s, orderS)
  BY DEF Sorted
<1>2. PICK orderT : Arranges(t, items, atT, orderT) /\ KeepsSlots(t, orderT)
  BY DEF Sorted
<1> DEFINE m == Len(s)
           n == Len(t)
           order == [k \in 1..(m + n) |-> IF k <= m THEN orderS[k] ELSE orderT[k - m]]
<1>3. atS \cap atT = {} /\ atS \cup atT = at
  OBVIOUS
<1>4. m \in Nat /\ n \in Nat /\ DOMAIN s = 1..m /\ DOMAIN t = 1..n
  BY <1>1, <1>2 DEF Arranges, IsList
<1>5. \A k \in 1..m : s[k].slot \in S
  BY <1>1, <1>4 DEF Arranges
<1>6. \A k \in 1..n : t[k].slot \in T
  BY <1>2, <1>4 DEF Arranges
<1> HIDE DEF atS, atT, at
<1>7. Arranges(s \o t, items, atS \cup atT, order)
  BY <1>1, <1>2, <1>3, JoinedArranges
<1>8. /\ DOMAIN (s \o t) = 1..(m + n)
      /\ \A i \in 1..(m + n) : (s \o t)[i] = IF i <= m THEN s[i] ELSE t[i - m]
  <2>1. s \in Seq(Range(s) \cup Range(t)) /\ t \in Seq(Range(s) \cup Range(t))
    BY <1>1, <1>2 DEF Arranges, IsList
  <2>. QED
    BY <2>1
<1> HIDE DEF m, n
<1>9. ASSUME NEW k \in 1..(m + n), NEW l \in 1..(m + n), k < l,
             (s \o t)[k].slot = (s \o t)[l].slot
      PROVE  order[k] < order[l]
  <2>1. CASE l <= m
    <3>1. k \in 1..m /\ l \in 1..m /\ k <= m
      BY <1>4, <1>9, <2>1
    <3>2. s[k].slot = s[l].slot
      BY <1>8, <1>9, <2>1, <3>1
    <3>3. orderS[k] < orderS[l]
      BY <1>1, <1>4, <1>9, <3>1, <3>2 DEF KeepsSlots
    <3>. QED
      BY <2>1, <3>1, <3>3
  <2>2. CASE ~(k <= m)
    <3>1. k - m \in 1..n /\ l - m \in 1..n /\ ~(l <= m) /\ k - m < l - m
      BY <1>4, <1>9, <2>2
    <3>2. t[k - m].slot = t[l - m].slot
      BY <1>8, <1>9, <2>2, <3>1
    <3>3. orderT[k - m] < orderT[l - m]
      BY <1>2, <1>4, <3>1, <3>2 DEF KeepsSlots
    <3>. QED
      BY <2>2, <3>1, <3>3
  <2>3. CASE k <= m /\ ~(l <= m)
    <3>1. k \in 1..m /\ l - m \in 1..n
      BY <1>4, <2>3
    <3>2. s[k].slot = t[l - m].slot
      BY <1>8, <1>9, <2>3
    <3>. QED
      BY <1>5, <1>6, <3>1, <3>2
  <2>4. m \in Nat /\ k \in Int /\ l \in Int
    BY <1>4
  <2>. QED
    BY <2>1, <2>2, <2>3
<1> HIDE DEF order
<1>10. KeepsSlots(s \o t, order)
  BY <1>8, <1>9 DEF KeepsSlots
<1>11. Arranges(s \o t, items, at, order)
  BY <1>3, <1>7
<1>. QED
  BY <1>10, <1>11 DEF Sorted, at

\* Orders that list every slot once.
LEMMA OrdersAreComplete ==
    \A order \in {DnaOrder, EftOrder} :
      /\ Slots = {order[1], order[2], order[3], order[4], order[5], order[6]}
      /\ \A i, j \in 1..6 : order[i] = order[j] => i = j
PROOF
<1>1. \A i \in 1..6 : i \in {1, 2, 3, 4, 5, 6}
  OBVIOUS
<1>. QED
  BY <1>1 DEF DnaOrder, EftOrder, Slots

\* What is not fitted is what has no slot.
LEMMA LooseHasNoSlot ==
    ASSUME NEW items, IsRecord(items)
    PROVE  Loose(items) = InSlot(items, Nothing)
PROOF
<1>1. {i \in DOMAIN items : ~items[i].fitted} = {i \in DOMAIN items : items[i].slot = Nothing}
  BY DEF IsRecord
<1>. QED
  BY <1>1 DEF Loose, InSlot

\* What is fitted is in its slot's section, and what is not is at the end.
LEMMA TextIsSorted ==
    ASSUME NEW items, IsRecord(items), NEW order \in {DnaOrder, EftOrder}
    PROVE  Sorted(Sections(items, order) \o Loose(items), items, Slots \cup {Nothing})
PROOF
<1> DEFINE s(i) == InSlot(items, order[i])
<1>0. IsList(items)
  BY DEF IsRecord
<1>1. \A slot : Sorted(InSlot(items, slot), items, {slot})
  BY <1>0, InSlotIsSorted
<1>2. Sorted(Loose(items), items, {Nothing})
  BY <1>1, LooseHasNoSlot
<1>3. /\ Slots = {order[1], order[2], order[3], order[4], order[5], order[6]}
      /\ \A i, j \in 1..6 : order[i] = order[j] => i = j
  BY OrdersAreComplete
<1> DEFINE two == s(1) \o s(2)
           three == two \o s(3)
           four == three \o s(4)
           five == four \o s(5)
           six == five \o s(6)
<1>4. six = Sections(items, order)
  BY DEF Sections
<1>5. /\ Sorted(s(1), items, {order[1]}) /\ Sorted(s(2), items, {order[2]})
      /\ Sorted(s(3), items, {order[3]}) /\ Sorted(s(4), items, {order[4]})
      /\ Sorted(s(5), items, {order[5]}) /\ Sorted(s(6), items, {order[6]})
  BY <1>1
<1>6. /\ {order[1]} \cap {order[2]} = {}
      /\ {order[1], order[2]} \cap {order[3]} = {}
      /\ {order[1], order[2], order[3]} \cap {order[4]} = {}
      /\ {order[1], order[2], order[3], order[4]} \cap {order[5]} = {}
      /\ {order[1], order[2], order[3], order[4], order[5]} \cap {order[6]} = {}
      /\ Slots \cap {Nothing} = {}
  BY <1>3, SlotsAreSlots
<1> HIDE DEF s
<1>7. Sorted(two, items, {order[1], order[2]})
  <2>1. {order[1]} \cup {order[2]} = {order[1], order[2]}
    OBVIOUS
  <2>2. Sorted(two, items, {order[1]} \cup {order[2]})
    BY <1>5, <1>6, JoinedIsSorted
  <2>. QED
    BY <2>1, <2>2
<1> HIDE DEF two
<1>8. Sorted(three, items, {order[1], order[2], order[3]})
  <2>1. {order[1], order[2]} \cup {order[3]} = {order[1], order[2], order[3]}
    OBVIOUS
  <2>2. Sorted(three, items, {order[1], order[2]} \cup {order[3]})
    BY <1>5, <1>6, <1>7, JoinedIsSorted
  <2>. QED
    BY <2>1, <2>2
<1> HIDE DEF three
<1>9. Sorted(four, items, {order[1], order[2], order[3], order[4]})
  <2>1. {order[1], order[2], order[3]} \cup {order[4]} = {order[1], order[2], order[3], order[4]}
    OBVIOUS
  <2>2. Sorted(four, items, {order[1], order[2], order[3]} \cup {order[4]})
    BY <1>5, <1>6, <1>8, JoinedIsSorted
  <2>. QED
    BY <2>1, <2>2
<1> HIDE DEF four
<1>10. Sorted(five, items, {order[1], order[2], order[3], order[4], order[5]})
  <2>1. {order[1], order[2], order[3], order[4]} \cup {order[5]}
          = {order[1], order[2], order[3], order[4], order[5]}
    OBVIOUS
  <2>2. Sorted(five, items, {order[1], order[2], order[3], order[4]} \cup {order[5]})
    BY <1>5, <1>6, <1>9, JoinedIsSorted
  <2>. QED
    BY <2>1, <2>2
<1> HIDE DEF five
<1>11. Sorted(six, items, Slots)
  <2>1. {order[1], order[2], order[3], order[4], order[5]} \cup {order[6]} = Slots
    BY <1>3
  <2>2. Sorted(six, items, {order[1], order[2], order[3], order[4], order[5]} \cup {order[6]})
    BY <1>5, <1>6, <1>10, JoinedIsSorted
  <2>. QED
    BY <2>1, <2>2
<1> HIDE DEF six
<1>12. Sorted(six \o Loose(items), items, Slots \cup {Nothing})
  BY <1>2, <1>6, <1>11, JoinedIsSorted
<1>. QED
  BY <1>4, <1>12

\* So a text's entries are those of the record, at other places.
LEMMA TextArranges ==
    ASSUME NEW items, IsRecord(items), NEW order \in {DnaOrder, EftOrder}
    PROVE  \E places : /\ Arranges(Sections(items, order) \o Loose(items), items, DOMAIN items, places)
                       /\ KeepsSlots(Sections(items, order) \o Loose(items), places)
PROOF
<1>1. DOMAIN items = {i \in DOMAIN items : items[i].slot \in Slots \cup {Nothing}}
  BY DEF IsRecord
<1>. QED
  BY <1>1, TextIsSorted DEF Sorted

\* A text's entries are those of the record at other places.
LEMMA TextHasEntries ==
    ASSUME NEW items, IsRecord(items), NEW parts \in {FormatDna(items), FormatEft(items)}
    PROVE  /\ DOMAIN parts = 1..Len(parts) /\ Len(parts) \in Nat
           /\ \E at \in Bijection(DOMAIN parts, DOMAIN items) : \A k \in DOMAIN parts :
                /\ parts[k].item = items[at[k]].item
                /\ \/ parts[k].quantity = items[at[k]].quantity
                   \/ parts[k].quantity = 1 /\ items[at[k]].fitted
PROOF
<1> DEFINE Of(list, k) == /\ parts[k].item = list[k].item
                          /\ \/ parts[k].quantity = list[k].quantity
                             \/ parts[k].quantity = 1 /\ list[k].fitted
<1>1. PICK order \in {DnaOrder, EftOrder} :
        /\ DOMAIN parts = DOMAIN (Sections(items, order) \o Loose(items))
        /\ \A k \in DOMAIN parts : Of(Sections(items, order) \o Loose(items), k)
  <2>1. CASE parts = FormatDna(items)
    BY <2>1 DEF FormatDna
  <2>2. CASE parts = FormatEft(items)
    BY <2>2 DEF FormatEft
  <2>. QED
    BY <2>1, <2>2
<1> DEFINE all == Sections(items, order) \o Loose(items)
<1>2. PICK places : Arranges(all, items, DOMAIN items, places)
  BY TextArranges
<1>3. DOMAIN parts = DOMAIN all /\ \A k \in DOMAIN all : Of(all, k)
  BY <1>1
<1> HIDE DEF all
<1>4. DOMAIN parts = 1..Len(all) /\ Len(all) \in Nat
  BY <1>2, <1>3 DEF Arranges, IsList
<1>5. /\ places \in [DOMAIN parts -> DOMAIN items]
      /\ \A k, l \in DOMAIN parts : places[k] = places[l] => k = l
      /\ \A i \in DOMAIN items : \E k \in DOMAIN parts : places[k] = i
      /\ \A k \in DOMAIN parts : all[k] = items[places[k]]
  BY <1>2, <1>3 DEF Arranges
<1>6. places \in Bijection(DOMAIN parts, DOMAIN items)
  BY <1>5 DEF Bijection, Injection, IsInjective, Surjection
<1>7. ASSUME NEW k \in DOMAIN parts
      PROVE  /\ parts[k].item = items[places[k]].item
             /\ \/ parts[k].quantity = items[places[k]].quantity
                \/ parts[k].quantity = 1 /\ items[places[k]].fitted
  <2>1. all[k] = items[places[k]] /\ Of(all, k)
    BY <1>3, <1>5
  <2>. QED
    BY ONLY <2>1
<1>8. Len(parts) = Len(all)
  BY ONLY <1>4
<1>. QED
  BY ONLY <1>4, <1>6, <1>7, <1>8

\* Following is transitive, and every record follows itself.
LEMMA FollowsItself == ASSUME NEW items PROVE Follows(items, items)
PROOF
<1> DEFINE at == [k \in DOMAIN items |-> k]
<1>1. at \in Bijection(DOMAIN items, DOMAIN items)
  BY DEF Bijection, Injection, IsInjective, Surjection
<1>2. \A k \in DOMAIN items : KeptAs(items[k], items[at[k]])
  BY DEF KeptAs, Fittable
<1>. QED
  BY <1>1, <1>2 DEF Follows

LEMMA KeptIsTransitive ==
    ASSUME NEW c, NEW b, NEW a, KeptAs(c, b), KeptAs(b, a)
    PROVE  KeptAs(c, a)
PROOF
<1>1. Fittable(b) => Fittable(a)
  BY DEF KeptAs, Fittable
<1>. QED
  BY <1>1 DEF KeptAs

LEMMA FollowsIsTransitive ==
    ASSUME NEW last, NEW items, NEW of, Follows(last, items), Follows(items, of)
    PROVE  Follows(last, of)
PROOF
<1>1. PICK f \in Bijection(DOMAIN last, DOMAIN items) :
        \A k \in DOMAIN last : KeptAs(last[k], items[f[k]])
  BY DEF Follows
<1>2. PICK g \in Bijection(DOMAIN items, DOMAIN of) :
        \A k \in DOMAIN items : KeptAs(items[k], of[g[k]])
  BY DEF Follows
<1>3. /\ f \in [DOMAIN last -> DOMAIN items] /\ g \in [DOMAIN items -> DOMAIN of]
      /\ \A k, l \in DOMAIN last : f[k] = f[l] => k = l
      /\ \A k, l \in DOMAIN items : g[k] = g[l] => k = l
      /\ \A i \in DOMAIN items : \E k \in DOMAIN last : f[k] = i
      /\ \A i \in DOMAIN of : \E k \in DOMAIN items : g[k] = i
  BY <1>1, <1>2 DEF Bijection, Injection, IsInjective, Surjection
<1> DEFINE at == [k \in DOMAIN last |-> g[f[k]]]
<1>4. at \in Bijection(DOMAIN last, DOMAIN of)
  <2>1. at \in [DOMAIN last -> DOMAIN of]
    BY <1>3
  <2>2. \A k, l \in DOMAIN last : at[k] = at[l] => k = l
    BY <1>3
  <2>3. \A i \in DOMAIN of : \E k \in DOMAIN last : at[k] = i
    BY <1>3
  <2> HIDE DEF at
  <2>. QED
    BY <2>1, <2>2, <2>3 DEF Bijection, Injection, IsInjective, Surjection
<1>5. ASSUME NEW k \in DOMAIN last PROVE KeptAs(last[k], of[at[k]])
  <2>1. KeptAs(last[k], items[f[k]]) /\ KeptAs(items[f[k]], of[g[f[k]]])
    BY <1>1, <1>2, <1>3
  <2>. QED
    BY <2>1, KeptIsTransitive
<1> HIDE DEF at
<1>. QED
  BY <1>4, <1>5 DEF Follows

-------------------------------------------------------------------------------
(* What every record and text keeps *)

\* A record's fitted entries have slots and its items are the first record's; a
\* text is one written of the record.
FitInv ==
    /\ record # Nothing => IsRecord(record)
    /\ record # Nothing /\ first # Nothing => Follows(record, first)
    /\ first = Nothing => record = Nothing
    /\ text # Nothing =>
         /\ record # Nothing
         /\ text \in {[form |-> "dna", parts |-> FormatDna(record)],
                     [form |-> "eft", parts |-> FormatEft(record)]}

\* Lists up to a length are lists.
LEMMA BoundedAreLists ==
    ASSUME NEW S, NEW n \in Nat, NEW list \in BoundedSeq(S, n)
    PROVE  /\ DOMAIN list = 1..Len(list) /\ Len(list) \in Nat
           /\ \A i \in DOMAIN list : list[i] \in S
PROOF
<1>1. PICK m \in 0..n : list \in [1..m -> S]
  BY DEF BoundedSeq, SeqOf
<1>2. list \in Seq(S)
  BY <1>1
<1>. QED
  BY <1>2

\* Reading a list of parts gives a record with their items.
LEMMA NormalizedIsRecord ==
    ASSUME NEW parts, DOMAIN parts = 1..Len(parts), Len(parts) \in Nat,
           \A i \in DOMAIN parts : parts[i].item \in Items
    PROVE  IsRecord(Normalize(parts))
PROOF
<1> DEFINE read == Normalize(parts)
<1>1. /\ DOMAIN read = 1..Len(parts)
      /\ \A i \in 1..Len(parts) : read[i].item = parts[i].item
  BY DEF Normalize
<1>2. ASSUME NEW i \in 1..Len(parts)
      PROVE  /\ read[i].fitted \in BOOLEAN /\ read[i].slot \in Slots \cup {Nothing}
             /\ read[i].fitted <=> read[i].slot # Nothing
  <2>1. read[i].fitted = (parts[i].fitted /\ SlotOf[parts[i].item] # Nothing)
        /\ read[i].slot = IF read[i].fitted THEN SlotOf[parts[i].item] ELSE Nothing
    BY DEF Normalize
  <2>2. SlotOf[parts[i].item] \in Slots \cup {Nothing}
    BY SlotsAreSlots
  <2>. QED
    BY <2>1, <2>2
<1>3. IsList(read)
  <2>1. read = [i \in 1..Len(parts) |-> read[i]]
    BY DEF Normalize
  <2>2. \A i \in 1..Len(parts) : read[i] \in Range(read)
    BY <1>1 DEF Range
  <2> HIDE DEF read
  <2>. QED
    BY <2>1, <2>2 DEF IsList
<1> HIDE DEF read
<1>4. IsRecord(read)
  BY <1>1, <1>2, <1>3 DEF IsRecord
<1>. QED
  BY <1>4 DEF read

\* So does placing what EVE saved.
LEMMA PlacedIsRecord ==
    ASSUME NEW parts, DOMAIN parts = 1..Len(parts), Len(parts) \in Nat,
           \A i \in DOMAIN parts : parts[i].item \in Items /\ parts[i].slot \in Slots \cup {Nothing}
    PROVE  IsRecord(Placed(parts))
PROOF
<1> DEFINE read == Placed(parts)
<1>1. /\ DOMAIN read = 1..Len(parts)
      /\ \A i \in 1..Len(parts) : /\ read[i].item = parts[i].item
                                  /\ read[i].slot = parts[i].slot
                                 /\ read[i].fitted = (parts[i].slot # Nothing)
  BY DEF Placed
<1>2. IsList(read)
  <2>1. read = [i \in 1..Len(parts) |-> read[i]]
    BY DEF Placed
  <2>2. \A i \in 1..Len(parts) : read[i] \in Range(read)
    BY <1>1 DEF Range
  <2> HIDE DEF read
  <2>. QED
    BY <2>1, <2>2 DEF IsList
<1> HIDE DEF read
<1>3. ASSUME NEW i \in 1..Len(parts)
      PROVE  read[i].fitted \in BOOLEAN /\ (read[i].fitted <=> read[i].slot # Nothing)
  <2>1. CASE read[i].slot = Nothing
    <3>1. read[i].fitted = FALSE
      BY <1>1, <2>1
    <3>. QED
      BY <2>1, <3>1
  <2>2. CASE read[i].slot # Nothing
    <3>1. read[i].fitted = TRUE
      BY <1>1, <2>2
    <3>. QED
      BY <2>2, <3>1
  <2>. QED
    BY <2>1, <2>2
<1>4. IsRecord(read)
  BY <1>1, <1>2, <1>3 DEF IsRecord
<1>. QED
  BY <1>4 DEF read

\* What a reader makes of a text of the record is a record of the same items, or
\* it refuses.
LEMMA ReadIsRecord ==
    ASSUME NEW items, IsRecord(items), NEW parts \in {FormatDna(items), FormatEft(items)},
           NEW read \in {Normalize(parts), ReadEft(parts)}, read # Nothing
    PROVE  IsRecord(read) /\ Follows(read, items)
PROOF
<1>1. DOMAIN parts = 1..Len(parts) /\ Len(parts) \in Nat
  BY TextHasEntries
<1>2. PICK at \in Bijection(DOMAIN parts, DOMAIN items) : \A k \in DOMAIN parts :
        /\ parts[k].item = items[at[k]].item
        /\ \/ parts[k].quantity = items[at[k]].quantity
           \/ parts[k].quantity = 1 /\ items[at[k]].fitted
  BY TextHasEntries
<1>3. \A k \in DOMAIN parts : at[k] \in DOMAIN items
  BY DEF Bijection, Injection
<1>4. \A k \in DOMAIN parts : parts[k].item \in Items
  BY <1>2, <1>3 DEF IsRecord
<1>5. read = Normalize(parts)
  BY DEF ReadEft
<1>6. IsRecord(read)
  BY <1>1, <1>4, <1>5, NormalizedIsRecord
<1>7. DOMAIN read = DOMAIN parts
  BY <1>5 DEF Normalize
<1>8. ASSUME NEW k \in DOMAIN parts PROVE KeptAs(read[k], items[at[k]])
  <2>1. /\ read[k].item = parts[k].item /\ read[k].quantity = parts[k].quantity
        /\ read[k].fitted = (parts[k].fitted /\ SlotOf[parts[k].item] # Nothing)
    BY <1>5, <1>8 DEF Normalize
  <2>2. read[k].fitted => SlotOf[items[at[k]].item] # Nothing
    BY <1>2, <2>1
  <2>. QED
    BY <1>2, <2>1, <2>2 DEF KeptAs, Fittable
<1>. QED
  BY <1>6, <1>7, <1>8 DEF Follows

\* FitInv holds of the first record, and where no fit is handed over.
LEMMA InitFit == ASSUME FitInit \/ FitIdle PROVE FitInv
PROOF
<1>1. CASE FitIdle
  BY <1>1 DEF FitIdle, FitInv
<1>2. CASE FitInit
  <2>1. first = record /\ text = Nothing
    BY <1>2 DEF FitInit
  <2>2. record # Nothing => IsRecord(record)
    <3>1. CASE \E parts \in BoundedSeq(Parts, MaxItems) : record = Normalize(parts)
      <4>1. PICK parts \in BoundedSeq(Parts, MaxItems) : record = Normalize(parts)
        BY <3>1
      <4>2. DOMAIN parts = 1..Len(parts) /\ Len(parts) \in Nat /\ \A i \in DOMAIN parts : parts[i] \in Parts
        BY BoundedAreLists, BoundsAreNumbers
      <4>3. \A i \in DOMAIN parts : parts[i].item \in Items
        BY <4>2 DEF Parts
      <4>. QED
        BY <4>1, <4>2, <4>3, NormalizedIsRecord
    <3>2. CASE \E lines \in BoundedSeq({p \in Parts : p.fitted}, MaxItems) : record = ReadEft(lines)
      <4>1. PICK lines \in BoundedSeq({p \in Parts : p.fitted}, MaxItems) : record = ReadEft(lines)
        BY <3>2
      <4>2. DOMAIN lines = 1..Len(lines) /\ Len(lines) \in Nat
            /\ \A i \in DOMAIN lines : lines[i] \in {p \in Parts : p.fitted}
        BY BoundedAreLists, BoundsAreNumbers
      <4>3. \A i \in DOMAIN lines : lines[i].item \in Items
        BY <4>2 DEF Parts
      <4>4. record \in {Nothing, Normalize(lines)}
        BY <4>1 DEF ReadEft
      <4>. QED
        BY <4>2, <4>3, <4>4, NormalizedIsRecord
    <3>3. CASE \E parts \in BoundedSeq(EsiParts, MaxItems) : record = Placed(parts)
      <4>1. PICK parts \in BoundedSeq(EsiParts, MaxItems) : record = Placed(parts)
        BY <3>3
      <4>2. DOMAIN parts = 1..Len(parts) /\ Len(parts) \in Nat /\ \A i \in DOMAIN parts : parts[i] \in EsiParts
        BY BoundedAreLists, BoundsAreNumbers
      <4>3. \A i \in DOMAIN parts : parts[i].item \in Items /\ parts[i].slot \in Slots \cup {Nothing}
        BY <4>2 DEF EsiParts
      <4>. QED
        BY <4>1, <4>2, <4>3, PlacedIsRecord
    <3>. QED
      BY <1>2, <3>1, <3>2, <3>3 DEF FitInit
  <2>. QED
    BY <2>1, <2>2, FollowsItself DEF FitInv
<1>. QED
  BY <1>1, <1>2

\* FitInv is kept by every step, and by the steps of the other topics.
LEMMA StepFit == ASSUME FitInv, FitNext \/ UNCHANGED fitVars PROVE FitInv'
PROOF
<1>1. CASE WriteDna
  <2>1. /\ record # Nothing /\ record' = record /\ first' = first
        /\ text' = [form |-> "dna", parts |-> FormatDna(record)]
    BY <1>1 DEF WriteDna
  <2>. QED
    BY <2>1 DEF FitInv, IsRecord, IsList, Follows, KeptAs, Fittable, Range
<1>2. CASE WriteEft
  <2>1. /\ record # Nothing /\ record' = record /\ first' = first
        /\ text' = [form |-> "eft", parts |-> FormatEft(record)]
    BY <1>2 DEF WriteEft
  <2>. QED
    BY <2>1 DEF FitInv, IsRecord, IsList, Follows, KeptAs, Fittable, Range
<1>3. CASE ReadText
  <2>1. /\ text # Nothing /\ text' = Nothing /\ first' = first
        /\ record' \in {Normalize(text.parts), ReadEft(text.parts)}
    BY <1>3 DEF ReadText
  <2>2. record # Nothing /\ IsRecord(record)
        /\ text.parts \in {FormatDna(record), FormatEft(record)}
    BY <2>1 DEF FitInv
  <2>3. record' # Nothing => IsRecord(record') /\ Follows(record', record)
    BY <2>1, <2>2, ReadIsRecord
  <2>4. first # Nothing /\ Follows(record, first)
    BY <2>2 DEF FitInv
  <2>5. record' # Nothing => Follows(record', first)
    BY <2>3, <2>4, FollowsIsTransitive
  <2>6. (record' # Nothing => IsRecord(record)') /\ (record' # Nothing => Follows(record, first)')
    <3>1. record' # Nothing => Follows(record', first')
      BY <2>1, <2>5
    <3>. QED
      BY <2>3, <3>1 DEF IsRecord, IsList, Follows, KeptAs, Fittable, Range
  <2>. QED
    BY <2>1, <2>4, <2>6 DEF FitInv
<1>4. CASE UNCHANGED fitVars
  BY <1>4 DEF fitVars, FitInv, IsRecord, IsList, Follows, KeptAs, Fittable, Range, FormatDna, FormatEft
<1>. QED
  BY <1>1, <1>2, <1>3, <1>4 DEF FitNext

\* NothingVanishes is part of it.
LEMMA ItemsStay == ASSUME FitInv PROVE NothingVanishes
PROOF
  BY DEF FitInv, NothingVanishes

-------------------------------------------------------------------------------
(* There and back *)

\* A list at other places has as much of everything.
LEMMA AmountsStay ==
    ASSUME NEW items, IsList(items), NEW all, NEW places,
           Arranges(all, items, DOMAIN items, places), NEW item
    PROVE  Amount(all, item) = Amount(items, item)
PROOF
<1> DEFINE S == DOMAIN all
           T == DOMAIN items
           A == {u \in S \X Quantities : all[u[1]].item = item /\ u[2] <= all[u[1]].quantity}
           B == {u \in T \X Quantities : items[u[1]].item = item /\ u[2] <= items[u[1]].quantity}
           to == [u \in A |-> <<places[u[1]], u[2]>>]
<1>1. /\ places \in [S -> T] /\ \A k \in S : all[k] = items[places[k]]
      /\ \A k, l \in S : places[k] = places[l] => k = l
      /\ \A i \in T : \E k \in S : places[k] = i
      /\ DOMAIN all = 1..Len(all) /\ Len(all) \in Nat
  BY DEF Arranges, IsList
<1>2. IsFiniteSet(Quantities) /\ IsFiniteSet(S)
  BY <1>1, BoundsAreNumbers, FS_Interval DEF Quantities
<1>3. Amount(all, item) = Cardinality(A) /\ Amount(items, item) = Cardinality(B)
  BY DEF Amount
<1> HIDE DEF S, T
<1>4. IsFiniteSet(A)
  <2>1. IsFiniteSet(S \X Quantities)
    BY <1>2, FS_Product
  <2>2. A \subseteq S \X Quantities
    OBVIOUS
  <2>. QED
    BY <2>1, <2>2, FS_Subset
<1>5. \A u \in A : /\ u[1] \in S /\ u[2] \in Quantities /\ u = <<u[1], u[2]>>
                   /\ all[u[1]].item = item /\ u[2] <= all[u[1]].quantity
  OBVIOUS
<1>6. \A u \in B : /\ u[1] \in T /\ u[2] \in Quantities /\ u = <<u[1], u[2]>>
                   /\ items[u[1]].item = item /\ u[2] <= items[u[1]].quantity
  OBVIOUS
<1>7. \A k \in S, q \in Quantities :
        all[k].item = item /\ q <= all[k].quantity => <<k, q>> \in A
  OBVIOUS
<1>8. \A i \in T, q \in Quantities :
        items[i].item = item /\ q <= items[i].quantity => <<i, q>> \in B
  OBVIOUS
<1> HIDE DEF A, B
<1>9. to \in [A -> B]
  <2>1. ASSUME NEW u \in A PROVE <<places[u[1]], u[2]>> \in B
    BY <1>1, <1>5, <1>8
  <2>. QED
    BY <2>1
<1>10. ASSUME NEW u \in A, NEW v \in A, to[u] = to[v] PROVE u = v
  <2>1. places[u[1]] = places[v[1]] /\ u[2] = v[2]
    BY <1>10
  <2>2. u[1] = v[1]
    BY <1>1, <1>5, <2>1
  <2>. QED
    BY <1>5, <2>1, <2>2
<1>11. ASSUME NEW t \in B PROVE \E u \in A : to[u] = t
  <2>1. PICK k \in S : places[k] = t[1]
    BY <1>1, <1>6
  <2>2. all[k] = items[t[1]]
    BY <1>1, <2>1
  <2>3. <<k, t[2]>> \in A
    BY <1>6, <1>7, <2>2
  <2>4. to[<<k, t[2]>>] = t
    BY <1>6, <2>1, <2>3
  <2>. QED
    BY <2>3, <2>4
<1> HIDE DEF to
<1>12. Cardinality(B) = Cardinality(A)
  BY <1>4, <1>9, <1>10, <1>11, SameSize
<1>. QED
  BY <1>3, <1>12

\* And its slots as they were, if it has each in its order.
LEMMA SlotsStay ==
    ASSUME NEW items, IsList(items), NEW all, NEW places,
           Arranges(all, items, DOMAIN items, places), KeepsSlots(all, places), NEW slot
    PROVE  InSlot(all, slot) = InSlot(items, slot)
PROOF
<1> DEFINE here == {k \in DOMAIN all : all[k].slot = slot}
           there == {i \in DOMAIN items : items[i].slot = slot}
<1>1. IsList(all) /\ places \in [DOMAIN all -> DOMAIN items]
      /\ (\A k \in DOMAIN all : all[k] = items[places[k]])
      /\ \A i \in DOMAIN items : \E k \in DOMAIN all : places[k] = i
  BY DEF Arranges
<1>2. PICK order : /\ Arranges(Chosen(all, here), all, here, order)
                   /\ Increasing(order)
                   /\ DOMAIN order = 1..Cardinality(here) /\ Cardinality(here) \in Nat
  BY <1>1, ChosenArranges
<1> DEFINE n == Cardinality(here)
           both == [k \in 1..n |-> places[order[k]]]
<1>3. DOMAIN Chosen(all, here) = 1..n /\ order \in [1..n -> here] /\ n \in Nat
      /\ (\A i \in here : \E k \in 1..n : order[k] = i)
      /\ \A k \in 1..n : Chosen(all, here)[k] = all[order[k]]
  <2>1. DOMAIN Chosen(all, here) = 1..n
    BY DEF Chosen
  <2>. QED
    BY <1>2, <2>1 DEF Arranges
<1> HIDE DEF n
<1>4. both \in [1..n -> there]
  BY <1>1, <1>3
<1>5. Increasing(both)
  <2>1. ASSUME NEW k \in 1..n, NEW l \in 1..n, k < l PROVE both[k] < both[l]
    <3>1. order[k] < order[l] /\ order[k] \in here /\ order[l] \in here
      BY <1>2, <1>3, <2>1 DEF Increasing, n
    <3>2. all[order[k]].slot = all[order[l]].slot
      BY <3>1
    <3>. QED
      BY <3>1, <3>2 DEF KeepsSlots
  <2>. QED
    BY <2>1 DEF Increasing
<1>6. ASSUME NEW i \in there PROVE \E k \in 1..n : both[k] = i
  <2>1. PICK p \in DOMAIN all : places[p] = i
    BY <1>1
  <2>2. p \in here
    BY <1>1, <2>1
  <2>. QED
    BY <1>3, <2>1, <2>2
<1>7. \A k \in 1..n : items[both[k]] = all[order[k]]
  BY <1>1, <1>3
<1>8. InSlot(all, slot) = Chosen(all, here) /\ InSlot(items, slot) = Chosen(items, there)
  BY DEF InSlot
<1>9. there \in SUBSET DOMAIN items
  OBVIOUS
<1> HIDE DEF here, there, both
<1>10. Chosen(items, there) = [k \in 1..n |-> items[both[k]]]
  <2>1. \A i \in there : \E k \in 1..n : both[k] = i
    BY <1>6
  <2>2. n \in Nat
    BY <1>3
  <2>. QED
    BY <1>4, <1>5, <1>9, <2>1, <2>2, ChosenIsOrdered
<1>11. Chosen(all, here) = [k \in 1..n |-> all[order[k]]]
  <2>1. Chosen(all, here) = [k \in 1..n |-> Chosen(all, here)[k]]
    BY <1>3 DEF Chosen, n
  <2>. QED
    BY <1>3, <2>1
<1>. QED
  BY <1>7, <1>8, <1>10, <1>11

\* Lists that a text cannot tell apart.
Alike(s, t) ==
    /\ IsList(s) /\ IsList(t) /\ DOMAIN s = DOMAIN t
    /\ \A k \in DOMAIN s : /\ s[k].item = t[k].item /\ s[k].quantity = t[k].quantity
                           /\ s[k].fitted = t[k].fitted

LEMMA JoinedAreAlike ==
    ASSUME NEW s, NEW t, NEW u, NEW v, Alike(s, t), Alike(u, v)
    PROVE  Alike(s \o u, t \o v)
PROOF
<1> DEFINE m == Len(s)
           n == Len(u)
<1>1. /\ m \in Nat /\ n \in Nat /\ DOMAIN s = 1..m /\ DOMAIN u = 1..n
      /\ s \in Seq(Range(s)) /\ t \in Seq(Range(t)) /\ u \in Seq(Range(u)) /\ v \in Seq(Range(v))
      /\ DOMAIN t = 1..Len(t) /\ Len(t) \in Nat /\ DOMAIN v = 1..Len(v) /\ Len(v) \in Nat
  BY DEF Alike, IsList
<1>2. Len(t) = m /\ Len(v) = n
  <2>1. 1..Len(t) = 1..m /\ 1..Len(v) = 1..n
    BY <1>1 DEF Alike
  <2>2. ASSUME NEW a \in Nat, NEW b \in Nat, 1..a = 1..b PROVE a = b
    <3>1. a >= 1 => a \in 1..a
      OBVIOUS
    <3>2. b >= 1 => b \in 1..b
      OBVIOUS
    <3>3. a >= 1 => a <= b
      BY <2>2, <3>1
    <3>4. b >= 1 => b <= a
      BY <2>2, <3>2
    <3>. QED
      BY <3>3, <3>4
  <2>. QED
    BY <1>1, <2>1, <2>2
<1>3. /\ DOMAIN (s \o u) = 1..(m + n)
      /\ \A k \in 1..(m + n) : (s \o u)[k] = IF k <= m THEN s[k] ELSE u[k - m]
  <2>1. s \in Seq(Range(s) \cup Range(u)) /\ u \in Seq(Range(s) \cup Range(u))
    BY <1>1
  <2>. QED
    BY <1>1, <2>1
<1>4. /\ DOMAIN (t \o v) = 1..(m + n)
      /\ \A k \in 1..(m + n) : (t \o v)[k] = IF k <= m THEN t[k] ELSE v[k - m]
  <2>1. t \in Seq(Range(t) \cup Range(v)) /\ v \in Seq(Range(t) \cup Range(v))
    BY <1>1
  <2>2. /\ DOMAIN (t \o v) = 1..(Len(t) + Len(v))
        /\ \A k \in 1..(Len(t) + Len(v)) : (t \o v)[k] = IF k <= Len(t) THEN t[k] ELSE v[k - Len(t)]
    BY <1>1, <2>1
  <2> HIDE DEF m, n
  <2>. QED
    BY <1>2, <2>2
<1>5. IsList(s \o u) /\ IsList(t \o v)
  BY JoinedIsList DEF Alike
<1> HIDE DEF m, n
<1>6. ASSUME NEW k \in 1..(m + n)
      PROVE  /\ (s \o u)[k].item = (t \o v)[k].item /\ (s \o u)[k].quantity = (t \o v)[k].quantity
             /\ (s \o u)[k].fitted = (t \o v)[k].fitted
  <2>1. CASE k <= m
    <3>1. k \in 1..m
      BY <1>1, <2>1
    <3>. QED
      BY <1>1, <1>3, <1>4, <2>1, <3>1 DEF Alike
  <2>2. CASE ~(k <= m)
    <3>1. k - m \in 1..n
      BY <1>1, <2>2
    <3>2. (s \o u)[k] = u[k - m] /\ (t \o v)[k] = v[k - m]
      BY <1>3, <1>4, <2>2
    <3>3. k - m \in DOMAIN u
      BY <1>1, <3>1
    <3>. QED
      BY <3>2, <3>3 DEF Alike
  <2>. QED
    BY <2>1, <2>2
<1>. QED
  BY <1>3, <1>4, <1>5, <1>6 DEF Alike

\* What the reader makes of a DNA: all of it, and where the slots are the types' own,
\* each in its slot.
LEMMA DnaIsRead ==
    ASSUME NEW items, IsRecord(items), NEW all,
           all = Sections(items, DnaOrder) \o Loose(items),
           NEW back, back = Normalize(FormatDna(items))
    PROVE  /\ DOMAIN back = DOMAIN all
           /\ \A k \in DOMAIN all : back[k].item = all[k].item /\ back[k].quantity = all[k].quantity
           /\ (\A i \in DOMAIN items : items[i].slot \in {Nothing, SlotOf[items[i].item]}) =>
                \A k \in DOMAIN all : back[k].fitted = all[k].fitted /\ back[k].slot = all[k].slot
PROOF
<1> DEFINE parts == FormatDna(items)
<1>1. /\ DOMAIN parts = DOMAIN all
      /\ \A k \in DOMAIN all : /\ parts[k].item = all[k].item
                               /\ parts[k].quantity = all[k].quantity
                               /\ parts[k].fitted = all[k].fitted
  BY DEF FormatDna
<1>0. back = Normalize(parts)
  OBVIOUS
<1> HIDE DEF parts
<1>2. /\ DOMAIN back = DOMAIN parts
      /\ \A k \in DOMAIN parts : /\ back[k].item = parts[k].item
                                 /\ back[k].quantity = parts[k].quantity
                                 /\ back[k].fitted = (parts[k].fitted /\ SlotOf[parts[k].item] # Nothing)
                                 /\ back[k].slot = IF back[k].fitted THEN SlotOf[parts[k].item]
                                                                    ELSE Nothing
  <2> DEFINE read == Normalize(parts)
  <2>1. /\ DOMAIN read = DOMAIN parts
        /\ \A k \in DOMAIN parts : /\ read[k].item = parts[k].item
                                   /\ read[k].quantity = parts[k].quantity
                                   /\ read[k].fitted = (parts[k].fitted /\ SlotOf[parts[k].item] # Nothing)
                                   /\ read[k].slot = IF read[k].fitted THEN SlotOf[parts[k].item]
                                                                      ELSE Nothing
    BY DEF Normalize
  <2> HIDE DEF read
  <2>2. back = read
    BY <1>0 DEF read
  <2>. QED
    BY <2>1, <2>2
<1>3. ASSUME \A i \in DOMAIN items : items[i].slot \in {Nothing, SlotOf[items[i].item]},
             NEW k \in DOMAIN all
      PROVE  back[k].fitted = all[k].fitted /\ back[k].slot = all[k].slot
  <2>1. PICK i \in DOMAIN items : all[k] = items[i]
    <3>1. PICK places : Arranges(all, items, DOMAIN items, places)
      BY TextArranges
    <3>. QED
      BY <1>3, <3>1 DEF Arranges
  <2>2. /\ items[i].fitted \in BOOLEAN /\ (items[i].fitted <=> items[i].slot # Nothing)
        /\ items[i].slot \in {Nothing, SlotOf[items[i].item]}
    BY <1>3 DEF IsRecord
  <2>3. /\ back[k].fitted = (items[i].fitted /\ SlotOf[items[i].item] # Nothing)
        /\ back[k].slot = IF back[k].fitted THEN SlotOf[items[i].item] ELSE Nothing
    BY <1>1, <1>2, <2>1
  <2>4. back[k].fitted = items[i].fitted /\ back[k].slot = items[i].slot
    <3>1. CASE items[i].slot = Nothing
      <4>1. items[i].fitted = FALSE
        BY <2>2, <3>1
      <4>2. back[k].fitted = FALSE
        BY <2>3, <4>1
      <4>. QED
        BY <2>3, <3>1, <4>1, <4>2
    <3>2. CASE items[i].slot # Nothing
      <4>1. items[i].fitted = TRUE /\ items[i].slot = SlotOf[items[i].item]
        BY <2>2, <3>2
      <4>2. back[k].fitted = TRUE
        BY <2>3, <3>2, <4>1
      <4>. QED
        BY <2>3, <3>2, <4>1, <4>2
    <3>. QED
      BY <3>1, <3>2
  <2>. QED
    BY <2>1, <2>4
<1>4. /\ DOMAIN back = DOMAIN all
      /\ \A k \in DOMAIN all : back[k].item = all[k].item /\ back[k].quantity = all[k].quantity
  BY <1>1, <1>2
<1>. QED
  BY <1>3, <1>4

\* A fit that goes out as DNA comes back with as much of everything and, where its
\* slots are its types' own, with the same in each slot and so with the same DNA.
LEMMA DnaComesBack ==
    ASSUME NEW items, IsRecord(items), NEW back, back = Normalize(FormatDna(items))
    PROVE  /\ \A item \in Items : Amount(back, item) = Amount(items, item)
           /\ (\A i \in DOMAIN items : items[i].slot \in {Nothing, SlotOf[items[i].item]}) =>
                /\ FormatDna(back) = FormatDna(items)
                /\ \A slot \in Slots \cup {Nothing} :
                     [i \in DOMAIN InSlot(back, slot) |-> InSlot(back, slot)[i].item]
                       = [i \in DOMAIN InSlot(items, slot) |-> InSlot(items, slot)[i].item]
PROOF
<1> DEFINE all == Sections(items, DnaOrder) \o Loose(items)
           Own == \A i \in DOMAIN items : items[i].slot \in {Nothing, SlotOf[items[i].item]}
<1>0. IsList(items) /\ DnaOrder \in {DnaOrder, EftOrder}
  BY DEF IsRecord
<1>1. PICK places : Arranges(all, items, DOMAIN items, places) /\ KeepsSlots(all, places)
  BY <1>0, TextArranges
<1>2. /\ DOMAIN back = DOMAIN all
      /\ \A k \in DOMAIN all : back[k].item = all[k].item /\ back[k].quantity = all[k].quantity
      /\ Own => \A k \in DOMAIN all : back[k].fitted = all[k].fitted /\ back[k].slot = all[k].slot
  <2>1. all = Sections(items, DnaOrder) \o Loose(items)
    OBVIOUS
  <2> HIDE DEF all
  <2>. QED
    BY <2>1, DnaIsRead
<1>3. FormatDna(items) = [i \in DOMAIN all |-> [item |-> all[i].item, quantity |-> all[i].quantity,
                                                fitted |-> all[i].fitted]]
  BY DEF FormatDna
<1>4. IsRecord(back)
  <2>1. DOMAIN FormatDna(items) = 1..Len(FormatDna(items)) /\ Len(FormatDna(items)) \in Nat
    BY TextHasEntries
  <2>2. \A i \in DOMAIN FormatDna(items) : FormatDna(items)[i].item \in Items
    <3>1. PICK at \in Bijection(DOMAIN FormatDna(items), DOMAIN items) :
            \A k \in DOMAIN FormatDna(items) : FormatDna(items)[k].item = items[at[k]].item
      BY TextHasEntries
    <3>2. \A k \in DOMAIN FormatDna(items) : at[k] \in DOMAIN items
      BY DEF Bijection, Injection
    <3>. QED
      BY <3>1, <3>2 DEF IsRecord
  <2>. QED
    BY <2>1, <2>2, NormalizedIsRecord
<1> HIDE DEF all
<1>5. IsList(all) /\ IsList(back)
  BY <1>1, <1>4 DEF Arranges, IsRecord
<1>6. ASSUME NEW item \in Items PROVE Amount(back, item) = Amount(items, item)
  <2>1. Amount(all, item) = Amount(items, item)
    BY <1>0, <1>1, AmountsStay
  <2>2. Amount(back, item) = Amount(all, item)
    <3> DEFINE S == DOMAIN all
    <3>1. DOMAIN back = S /\ \A k \in S : back[k].item = all[k].item /\ back[k].quantity = all[k].quantity
      BY <1>2
    <3>2. \A u \in S \X Quantities : (back[u[1]].item = item /\ u[2] <= back[u[1]].quantity)
                                       <=> (all[u[1]].item = item /\ u[2] <= all[u[1]].quantity)
      <4> HIDE DEF S
      <4>. QED
        BY <3>1
    <3>3. {u \in S \X Quantities : back[u[1]].item = item /\ u[2] <= back[u[1]].quantity}
            = {u \in S \X Quantities : all[u[1]].item = item /\ u[2] <= all[u[1]].quantity}
      <4> HIDE DEF S
      <4>. QED
        BY <3>2
    <3>. QED
      BY <3>1, <3>3 DEF Amount
  <2>. QED
    BY <2>1, <2>2
<1>7. ASSUME Own, NEW slot
      PROVE  /\ Alike(InSlot(back, slot), InSlot(items, slot))
  <2> DEFINE at == {k \in DOMAIN all : all[k].slot = slot}
  <2>1. InSlot(all, slot) = InSlot(items, slot)
    BY <1>0, <1>1, SlotsStay
  <2>2. InSlot(back, slot) = Chosen(back, at)
    <3>1. {k \in DOMAIN back : back[k].slot = slot} = at
      BY <1>2, <1>7
    <3>. QED
      BY <3>1 DEF InSlot
  <2>3. InSlot(all, slot) = Chosen(all, at)
    BY DEF InSlot
  <2>4. PICK order : /\ Arranges(Chosen(all, at), all, at, order) /\ Increasing(order)
                     /\ DOMAIN order = 1..Cardinality(at) /\ Cardinality(at) \in Nat
    BY <1>5, ChosenArranges
  <2> DEFINE n == Cardinality(at)
  <2>5. n \in Nat /\ order \in [1..n -> at] /\ at \in SUBSET DOMAIN all /\ at \in SUBSET DOMAIN back
        /\ \A i \in at : \E k \in 1..n : order[k] = i
    <3>1. DOMAIN Chosen(all, at) = 1..n
      BY DEF Chosen
    <3>. QED
      BY <1>2, <2>4, <3>1 DEF Arranges
  <2> HIDE DEF n, at
  <2>6. Chosen(all, at) = [k \in 1..n |-> all[order[k]]]
    BY <1>5, <2>4, <2>5, ChosenIsOrdered
  <2>7. Chosen(back, at) = [k \in 1..n |-> back[order[k]]]
    BY <1>5, <2>4, <2>5, ChosenIsOrdered
  <2>8. IsList(InSlot(back, slot)) /\ IsList(InSlot(items, slot))
    <3>1. at \in SUBSET DOMAIN all /\ at \in SUBSET DOMAIN back
      BY <2>5
    <3>2. IsList(Chosen(all, at)) /\ IsList(Chosen(back, at))
      BY <1>5, <3>1, ChosenArranges DEF Arranges
    <3>. QED
      BY <2>1, <2>2, <2>3, <3>2
  <2>9. /\ InSlot(back, slot) = [k \in 1..n |-> back[order[k]]]
        /\ InSlot(items, slot) = [k \in 1..n |-> all[order[k]]]
    BY <2>1, <2>2, <2>3, <2>6, <2>7
  <2>10. \A k \in 1..n : order[k] \in DOMAIN all
    BY <2>5
  <2>. QED
    BY <1>2, <1>7, <2>8, <2>9, <2>10 DEF Alike
<1>8. ASSUME Own PROVE FormatDna(back) = FormatDna(items)
  <2> DEFINE s(i) == InSlot(back, DnaOrder[i])
             t(i) == InSlot(items, DnaOrder[i])
  <2>1. /\ Alike(s(1), t(1)) /\ Alike(s(2), t(2)) /\ Alike(s(3), t(3))
        /\ Alike(s(4), t(4)) /\ Alike(s(5), t(5)) /\ Alike(s(6), t(6))
    BY <1>7, <1>8
  <2>2. Alike(Loose(back), Loose(items))
    BY <1>4, <1>7, <1>8, LooseHasNoSlot
  <2>3. /\ Sections(back, DnaOrder) = s(1) \o s(2) \o s(3) \o s(4) \o s(5) \o s(6)
        /\ Sections(items, DnaOrder) = t(1) \o t(2) \o t(3) \o t(4) \o t(5) \o t(6)
    BY DEF Sections
  <2> HIDE DEF s, t
  <2>4. Alike(s(1) \o s(2), t(1) \o t(2))
    BY <2>1, JoinedAreAlike
  <2>5. Alike(s(1) \o s(2) \o s(3), t(1) \o t(2) \o t(3))
    BY <2>1, <2>4, JoinedAreAlike
  <2>6. Alike(s(1) \o s(2) \o s(3) \o s(4), t(1) \o t(2) \o t(3) \o t(4))
    BY <2>1, <2>5, JoinedAreAlike
  <2>7. Alike(s(1) \o s(2) \o s(3) \o s(4) \o s(5), t(1) \o t(2) \o t(3) \o t(4) \o t(5))
    BY <2>1, <2>6, JoinedAreAlike
  <2>8. Alike(Sections(back, DnaOrder), Sections(items, DnaOrder))
    BY <2>1, <2>3, <2>7, JoinedAreAlike
  <2> DEFINE other == Sections(back, DnaOrder) \o Loose(back)
  <2>9. Alike(other, all)
    BY <2>2, <2>8, JoinedAreAlike DEF all
  <2>10. FormatDna(back) = [i \in DOMAIN other |-> [item |-> other[i].item,
                                quantity |-> other[i].quantity, fitted |-> other[i].fitted]]
    BY DEF FormatDna
  <2> HIDE DEF other
  <2>. QED
    BY <1>3, <2>9, <2>10 DEF Alike
<1>9. ASSUME Own, NEW slot
      PROVE  [i \in DOMAIN InSlot(back, slot) |-> InSlot(back, slot)[i].item]
               = [i \in DOMAIN InSlot(items, slot) |-> InSlot(items, slot)[i].item]
  <2>1. Alike(InSlot(back, slot), InSlot(items, slot))
    BY <1>7, <1>9
  <2>. QED
    BY <2>1 DEF Alike
<1>. QED
  BY <1>6, <1>8, <1>9

\* Every step that reads a DNA brings the fit back.
LEMMA DnaStep == ASSUME FitInv, FitNext \/ UNCHANGED fitVars PROVE DnaReturns
PROOF
<1> SUFFICES ASSUME text # Nothing, text.form = "dna", text' = Nothing PROVE DnaReturns
  BY DEF DnaReturns
<1>1. IsRecord(record) /\ text = [form |-> "dna", parts |-> FormatDna(record)]
  BY DEF FitInv
<1>2. record' = Normalize(FormatDna(record))
  <2>1. ReadText
    BY DEF FitNext, WriteDna, WriteEft, fitVars
  <2>. QED
    BY <1>1, <2>1 DEF ReadText
<1>. QED
  BY <1>1, <1>2, DnaComesBack DEF DnaReturns

-------------------------------------------------------------------------------
(* The topics *)

LEMMA ReadsInvHolds == Spec => []ReadsInv
PROOF
<1>1. Init => ReadsInv
  BY InitReads
<1>2. ReadsInv /\ [Next]_vars => ReadsInv'
  BY StepReads
<1>. QED
  BY <1>1, <1>2, PTL DEF Spec

\* No market order and no latest build is answered from memory once it is as old as an
\* answer may be, however long its read took (CjsToolMarketEsi.#Held,
\* CjsToolIndexBuildResolver.#ResolveCached, CjsToolSdeArchive.ResolveLatest).
THEOREM AnswersStayYoung == Spec => []AnswersAreYoung
PROOF
<1>1. ReadsInv => AnswersAreYoung
  BY DEF ReadsInv, CallInv, AnswersAreYoung
<1>. QED
  BY <1>1, ReadsInvHolds, PTL

\* Two callers read one key at once only where the limit dropped the entry of the one,
\* or the read of a latest build outlived what it would answer
\* (CjsToolPublicIdentity.Character, CjsToolMarketEsi.#Held, CjsToolPlexRate.Read).
THEOREM ReadsAreShared == Spec => []SharedWhileItFits
PROOF
<1>1. ASSUME ReadsInv PROVE SharedWhileItFits
  <2>1. ASSUME NEW c \in Callers, NEW d \in Callers,
               c # d, Reading(c), Reading(d), Key(c) = Key(d)
        PROVE  \/ Limited /\ Key(c) \in crowded
               \/ cache = "latest" /\ \E e \in {c, d} : call[e].at + Lifetime <= now
    <3>1. Owns(c) /\ Owns(d)
      BY <1>1 DEF ReadsInv
    <3>. QED
      BY <2>1, <3>1 DEF Owns
  <2>. QED
    BY <2>1 DEF SharedWhileItFits
<1>. QED
  BY <1>1, ReadsInvHolds, PTL

\* Whoever an entry names still reads, for that key: a new caller waits for no read that
\* failed (the catch of CjsToolMarketEsi.#Held and CjsToolPublicIdentity.Character).  What
\* Resolve holds of a failed POST it holds for no more than a lifetime.
THEOREM FailureIsNotInherited == Spec => []NextCallerGetsAnAttempt
PROOF
<1>1. ReadsInv => NextCallerGetsAnAttempt
  BY DEF ReadsInv, HeldFor, NextCallerGetsAnAttempt
<1>. QED
  BY <1>1, ReadsInvHolds, PTL

\* SkillInv in every topic.
LEMMA SkillInvHolds == TopicSpec => []SkillInv
PROOF
<1>1. TopicInit => SkillInv
  BY InitSkill DEF TopicInit
<1>2. SkillInv /\ [TopicNext]_topicVars => SkillInv'
  <2> SUFFICES ASSUME SkillInv, [TopicNext]_topicVars PROVE SkillInv'
    OBVIOUS
  <2>1. PlanNext \/ UNCHANGED planVars
    BY DEF TopicNext, topicVars
  <2>. QED
    BY <2>1, StepSkill
<1>. QED
  BY <1>1, <1>2, PTL DEF TopicSpec

\* FitInv in every topic.
LEMMA FitInvHolds == TopicSpec => []FitInv
PROOF
<1>1. TopicInit => FitInv
  BY InitFit DEF TopicInit
<1>2. FitInv /\ [TopicNext]_topicVars => FitInv'
  <2> SUFFICES ASSUME FitInv, [TopicNext]_topicVars PROVE FitInv'
    OBVIOUS
  <2>1. FitNext \/ UNCHANGED fitVars
    BY DEF TopicNext, topicVars
  <2>. QED
    BY <2>1, StepFit
<1>. QED
  BY <1>1, <1>2, PTL DEF TopicSpec

\* The topics implement the reads: what is proved of the held reads holds of the
\* service, as skills and fittings touch nothing of theirs (CjsToolMarketEsi.#Held,
\* CjsToolSkills.Plan and CjsToolFittingCodec share no state).
THEOREM TopicsServeReads == TopicSpec => Spec
PROOF
<1>1. TopicInit => Init
  BY DEF TopicInit, HeldIdle
<1>2. [TopicNext]_topicVars => [Next]_vars
  BY DEF TopicNext, topicVars
<1>. QED
  BY <1>1, <1>2, PTL DEF TopicSpec, Spec

\* The walk that plans many targets at once and the walks of each of them agree on the
\* skills, the levels and the depths, and so on the skill points
\* (CjsToolSkills.#Closure and CjsToolSkills.Plan).
THEOREM PlanStays == TopicSpec => []PlanAgreesWithClosures
PROOF
  BY SkillInvHolds, PlanAgrees, PTL

\* Whatever a plan has is explained by a target it was asked for, and every reason it
\* gives is one that asks (the `requiredBy` of CjsToolSkills.Plan).
THEOREM DemandsStayNamed == TopicSpec => []EveryDemandIsNamed
PROOF
  BY SkillInvHolds, DemandsAreNamed, PTL

\* No chain of texts drops an entry of a fit or adds one, or changes an amount but that
\* of a fitted stack to one: a reader that cannot name them all refuses
\* (CjsToolFittingCodec.ParseDna, ParseEft, FormatDna, FormatEft).
THEOREM ItemsAreKept == TopicSpec => []NothingVanishes
PROOF
  BY FitInvHolds, ItemsStay, PTL

\* A fit that goes out as DNA comes back with as much of everything and, where its slots
\* are its types' own, fitted as it was and with the same DNA
\* (CjsToolFittingCodec.FormatDna, then ParseDna and CjsToolFitting.Normalize).
THEOREM DnaComesBackWhole == TopicSpec => DnaKeepsTheFit
PROOF
<1>1. FitInv /\ [TopicNext]_topicVars => [DnaReturns]_fitVars
  BY DnaStep DEF TopicNext, topicVars
<1>. QED
  BY <1>1, FitInvHolds, PTL DEF TopicSpec, DnaKeepsTheFit
===============================================================================
