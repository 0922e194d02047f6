-------------------------- MODULE ResourcePoolProofs --------------------------
(***************************************************************************)
(* A bounded read answers a whole body or fails, and a report is made when *)
(* every entry is there, for any number of reads, workers and entries.     *)
(***************************************************************************)
EXTENDS ResourcePool, FiniteSetTheorems, TLAPS

-------------------------------------------------------------------------------
(* The reads: BoundedFetch *)

FetchType ==
    /\ phase \in [Reads -> {"idle", "requested", "answered", "reading", "received", "failed"}]
    /\ body \in [Reads -> Bodies \cup {None}]
    /\ loop \in [Reads -> {"none", "awaiting", "cancelling", "cut", "over"}]
    /\ kept \in [Reads -> Nat]
    /\ aborted \in [Reads -> BOOLEAN]
    /\ gone \in BOOLEAN

\* Work that was called off belongs to a read that failed; other work on a body that
\* goes on belongs to a read that still awaits it.
ReadIsSane(r) ==
    /\ phase[r] \in {"answered", "reading", "received"} \/ loop[r] # "none" => body[r] # None
    /\ phase[r] \in {"idle", "requested", "answered"} => loop[r] = "none"
    /\ phase[r] = "reading" => loop[r] \in {"awaiting", "cancelling"}
    /\ phase[r] = "received" => loop[r] = "over" /\ kept[r] = body[r].size
    /\ loop[r] = "cut" => phase[r] = "failed"
    /\ loop[r] = "awaiting" /\ phase[r] = "failed" => aborted[r]
    /\ aborted[r] => phase[r] = "failed"
    /\ kept[r] <= Limit[r]

FetchInv == FetchType /\ \A r \in Reads : ReadIsSane(r)

\* What a step does to the reads.
FetchStep ==
    \/ \E r \in Reads : Request(r) \/ Network(r) \/ Timeout(r)
    \/ CallerGoes
    \/ UNCHANGED fetchVars

\* Every step of the pool is one of these.
LEMMA PoolStep == [Next]_vars => FetchStep
BY DEF Next, Work, Loading, Reading, Take, Count, Told, Fail, WorkerEnds, FindCached,
       StartFetch, Store, LoadFails, Report, FetchStep, vars

\* No read has begun.
LEMMA FetchInit_Inv == FetchInit => FetchInv
<1> SUFFICES ASSUME FetchInit PROVE FetchInv
  OBVIOUS
<1>1. FetchType
  BY DEF FetchInit, FetchType
<1>2. ASSUME NEW r \in Reads PROVE ReadIsSane(r)
  BY SizesAreNumbers DEF FetchInit, ReadIsSane
<1> QED BY <1>1, <1>2 DEF FetchInv

\* A body that has come has a size.
LEMMA SizeIsNat ==
    ASSUME FetchType, NEW r \in Reads, body[r] # None
    PROVE  body[r].size \in Nat /\ body[r].size <= MaxSize /\ body[r].kind \in Kinds
BY SizesAreNumbers DEF FetchType, Bodies

\* Every step of a read leaves every variable with its values.
LEMMA FetchTypeStep == FetchInv /\ FetchStep => FetchType'
<1> SUFFICES ASSUME FetchInv, FetchStep PROVE FetchType'
  OBVIOUS
<1> USE SizesAreNumbers
<1>0. FetchType
  BY DEF FetchInv
<1>1. ASSUME NEW r \in Reads, Request(r) PROVE FetchType'
  BY <1>0, <1>1 DEF Request, Becomes, FetchType
<1>2. ASSUME NEW r \in Reads, Answer(r) \/ AnswerFails(r) \/ Refuse(r) \/ ReadBody(r)
      PROVE  FetchType'
  BY <1>0, <1>2 DEF Answer, AnswerFails, Refuse, ReadBody, Becomes, FetchType
<1>3. ASSUME NEW r \in Reads, TakeChunk(r) PROVE FetchType'
  <2>1. body[r].size \in Nat
    BY <1>0, <1>3, SizeIsNat DEF TakeChunk, FetchInv, ReadIsSane
  <2>2. PICK n \in 1..(body[r].size - kept[r]) :
          IF aborted[r] \/ kept[r] + n > Limit[r] THEN Throws(r) /\ UNCHANGED kept
          ELSE kept' = [kept EXCEPT ![r] = @ + n] /\ UNCHANGED <<loop, phase>>
    BY <1>3 DEF TakeChunk
  <2>3. n \in Nat
    BY <1>0, <2>1 DEF FetchType
  <2> QED BY <1>0, <1>3, <2>2, <2>3 DEF TakeChunk, Throws, FetchType
<1>4. ASSUME NEW r \in Reads, BodyEnds(r) \/ BodyFails(r) \/ CutShort(r) \/ Cancelled(r)
      PROVE  FetchType'
  BY <1>0, <1>4 DEF BodyEnds, BodyFails, CutShort, Cancelled, Throws, Returns, Rejects,
                    Becomes, FetchType
<1>5. ASSUME NEW r \in Reads, Timeout(r) PROVE FetchType'
  BY <1>0, <1>5 DEF Timeout, CallOff, Stopped, FetchType
<1>6. ASSUME CallerGoes PROVE FetchType'
  BY <1>0, <1>6 DEF CallerGoes, CallOff, Stopped, FetchType
<1>7. ASSUME UNCHANGED fetchVars PROVE FetchType'
  BY <1>0, <1>7 DEF fetchVars, FetchType
<1> QED BY <1>1, <1>2, <1>3, <1>4, <1>5, <1>6, <1>7 DEF FetchStep, Network

\* A step for one read leaves the others as they are.
OnlyRead(r) == \A q \in Reads \ {r} :
    /\ phase'[q] = phase[q] /\ body'[q] = body[q] /\ loop'[q] = loop[q]
    /\ kept'[q] = kept[q] /\ aborted'[q] = aborted[q]

\* A step of one read leaves the others as they are.
LEMMA OneReadAtATime ==
    ASSUME FetchInv, NEW r \in Reads, OnlyRead(r), ReadIsSane(r)'
    PROVE  \A q \in Reads : ReadIsSane(q)'
<1> SUFFICES ASSUME NEW q \in Reads PROVE ReadIsSane(q)'
  OBVIOUS
<1>1. CASE q = r
  BY <1>1
<1>2. CASE q # r
  <2>1. ReadIsSane(q)
    BY DEF FetchInv
  <2> QED BY <1>2, <2>1 DEF OnlyRead, ReadIsSane
<1> QED BY <1>1, <1>2

\* Every step leaves every read sane.
LEMMA FetchSaneStep == FetchInv /\ FetchStep => \A r \in Reads : ReadIsSane(r)'
<1> SUFFICES ASSUME FetchInv, FetchStep PROVE \A r \in Reads : ReadIsSane(r)'
  OBVIOUS
<1> USE SizesAreNumbers
<1>0. FetchType
  BY DEF FetchInv
<1>s. \A r \in Reads : ReadIsSane(r)
  BY DEF FetchInv
<1>1. ASSUME NEW r \in Reads, Request(r) PROVE OnlyRead(r) /\ ReadIsSane(r)'
  BY <1>0, <1>1 DEF Request, Becomes, FetchType, OnlyRead, ReadIsSane
<1>2. ASSUME NEW r \in Reads, Answer(r) \/ AnswerFails(r) \/ Refuse(r) \/ ReadBody(r)
      PROVE  OnlyRead(r) /\ ReadIsSane(r)'
  <2>1. ReadIsSane(r)
    BY <1>s
  <2>2. CASE Answer(r)
    <3>1. PICK b \in Bodies : body' = [body EXCEPT ![r] = b]
      BY <2>2 DEF Answer
    <3>2. b # None
      BY <3>1, NoneIsNoBody
    <3> QED BY <1>0, <2>1, <2>2, <3>1, <3>2 DEF Answer, Becomes, FetchType, OnlyRead, ReadIsSane
  <2>3. CASE AnswerFails(r) \/ Refuse(r) \/ ReadBody(r)
    BY <1>0, <2>1, <2>3 DEF AnswerFails, Refuse, ReadBody, Becomes, FetchType, OnlyRead, ReadIsSane
  <2> QED BY <1>2, <2>2, <2>3
<1>3. ASSUME NEW r \in Reads, TakeChunk(r) PROVE OnlyRead(r) /\ ReadIsSane(r)'
  <2>1. ReadIsSane(r)
    BY <1>s
  <2>2. body[r].size \in Nat
    BY <1>0, <1>3, <2>1, SizeIsNat DEF TakeChunk, ReadIsSane
  <2>3. PICK n \in 1..(body[r].size - kept[r]) :
          IF aborted[r] \/ kept[r] + n > Limit[r] THEN Throws(r) /\ UNCHANGED kept
          ELSE kept' = [kept EXCEPT ![r] = @ + n] /\ UNCHANGED <<loop, phase>>
    BY <1>3 DEF TakeChunk
  <2>4. n \in Nat /\ kept[r] \in Nat /\ Limit[r] \in Nat
    BY <1>0, <2>2 DEF FetchType
  <2>5. phase[r] \in {"reading", "failed"}
    BY <1>0, <1>3, <2>1 DEF TakeChunk, ReadIsSane, FetchType
  <2>6. CASE aborted[r] \/ kept[r] + n > Limit[r]
    BY <1>0, <1>3, <2>1, <2>3, <2>5, <2>6 DEF TakeChunk, Throws, FetchType, OnlyRead, ReadIsSane
  <2>7. CASE ~aborted[r] /\ ~(kept[r] + n > Limit[r])
    BY <1>0, <1>3, <2>1, <2>3, <2>4, <2>5, <2>7 DEF TakeChunk, FetchType, OnlyRead, ReadIsSane
  <2> QED BY <2>6, <2>7
<1>4. ASSUME NEW r \in Reads, BodyEnds(r) \/ BodyFails(r) \/ CutShort(r) \/ Cancelled(r)
      PROVE  OnlyRead(r) /\ ReadIsSane(r)'
  <2>1. ReadIsSane(r)
    BY <1>s
  <2>2. CASE BodyEnds(r)
    BY <1>0, <2>1, <2>2 DEF BodyEnds, Returns, Becomes, FetchType, OnlyRead, ReadIsSane
  <2>3. CASE BodyFails(r)
    BY <1>0, <2>1, <2>3 DEF BodyFails, Throws, Rejects, Becomes, FetchType, OnlyRead, ReadIsSane
  <2>4. CASE CutShort(r) \/ Cancelled(r)
    BY <1>0, <2>1, <2>4 DEF CutShort, Cancelled, Returns, Rejects, Becomes, FetchType, OnlyRead, ReadIsSane
  <2> QED BY <1>4, <2>2, <2>3, <2>4
<1>5. ASSUME NEW R \in SUBSET Reads, \A r \in R : Racing(r), CallOff(R), UNCHANGED <<body, kept>>
      PROVE  \A r \in Reads : ReadIsSane(r)'
  <2> SUFFICES ASSUME NEW r \in Reads PROVE ReadIsSane(r)'
    OBVIOUS
  <2>1. ReadIsSane(r)
    BY <1>s
  <2>2. CASE r \in R
    BY <1>0, <1>5, <2>1, <2>2 DEF CallOff, Stopped, Racing, FetchType, ReadIsSane
  <2>3. CASE r \notin R
    BY <1>0, <1>5, <2>1, <2>3 DEF CallOff, FetchType, ReadIsSane
  <2> QED BY <2>2, <2>3
<1>6. ASSUME NEW r \in Reads, Timeout(r) PROVE \A q \in Reads : ReadIsSane(q)'
  BY <1>5, <1>6 DEF Timeout
<1>7. ASSUME CallerGoes PROVE \A r \in Reads : ReadIsSane(r)'
  BY <1>5, <1>7, SignalledAreReads DEF CallerGoes
<1>8. ASSUME UNCHANGED fetchVars PROVE \A r \in Reads : ReadIsSane(r)'
  BY <1>s, <1>8 DEF fetchVars, ReadIsSane
<1> QED BY <1>1, <1>2, <1>3, <1>4, <1>6, <1>7, <1>8, OneReadAtATime DEF FetchStep, Network

\* A step keeps no more than the limit, and nothing for a read that failed.
LEMMA FetchKeepsLittle ==
    ASSUME FetchInv, FetchStep
    PROVE  [\A r \in Reads :
              /\ kept'[r] <= Limit[r]
              /\ phase[r] = "failed" /\ phase'[r] = "failed" => kept'[r] <= kept[r]]_fetchVars
<1> SUFFICES ASSUME NEW r \in Reads
             PROVE  /\ kept'[r] <= Limit[r]
                    /\ phase[r] = "failed" /\ phase'[r] = "failed" => kept'[r] <= kept[r]
  OBVIOUS
<1>1. kept'[r] <= Limit[r]
  BY FetchSaneStep DEF ReadIsSane
<1>2. FetchType /\ kept[r] \in Nat /\ ReadIsSane(r)
  BY DEF FetchInv, FetchType
<1>3. ASSUME phase[r] = "failed", phase'[r] = "failed" PROVE kept'[r] <= kept[r]
  <2>1. ASSUME NEW q \in Reads, Request(q) PROVE kept'[r] <= kept[r]
    BY <1>2, <2>1 DEF Request, FetchType
  <2>2. ASSUME NEW q \in Reads, TakeChunk(q) PROVE kept'[r] <= kept[r]
    <3>1. CASE q # r
      BY <1>2, <2>2, <3>1 DEF TakeChunk, FetchType
    <3>2. CASE q = r
      BY <1>2, <1>3, <2>2, <3>2 DEF TakeChunk, ReadIsSane
    <3> QED BY <3>1, <3>2
  <2>3. ASSUME kept' = kept PROVE kept'[r] <= kept[r]
    BY <1>2, <2>3
  <2>4. ASSUME NEW q \in Reads, Network(q), ~TakeChunk(q) PROVE kept' = kept
    BY <2>4 DEF Network, Answer, AnswerFails, Refuse, ReadBody, BodyEnds, BodyFails, CutShort, Cancelled
  <2>5. ASSUME (\E q \in Reads : Timeout(q)) \/ CallerGoes \/ UNCHANGED fetchVars PROVE kept' = kept
    BY <2>5 DEF Timeout, CallerGoes, fetchVars
  <2> QED BY <2>1, <2>2, <2>3, <2>4, <2>5 DEF FetchStep
<1> QED BY <1>1, <1>3

\* Whatever the pool does, a read has the values the code can give it: it keeps what it
\* has read, its signal follows its timer and its caller (CjsToolBoundedFetch.js:40-140).
THEOREM ReadsAreSane == Spec => []FetchInv
<1>1. Init => FetchInv
  BY FetchInit_Inv DEF Init
<1>2. FetchInv /\ [Next]_vars => FetchInv'
  BY PoolStep, FetchTypeStep, FetchSaneStep DEF FetchInv
<1> QED BY <1>1, <1>2, PTL DEF Spec

\* What a read answers is the whole body, within its limit, for any body, limit and
\* number of reads (readBytes, CjsToolBoundedFetch.js).
THEOREM WholeBodies == Spec => []BodiesAreWhole
<1>1. FetchInv => BodiesAreWhole
  BY DEF FetchInv, ReadIsSane, BodiesAreWhole
<1> QED BY <1>1, ReadsAreSane, PTL

\* A read that was called off keeps nothing more of what still comes, and none ever
\* keeps more than its limit (CjsToolBoundedFetch.js:124 and :282).
THEOREM DeadlineHolds == Spec => NothingAfterTheDeadline
<1>1. FetchInv /\ [Next]_vars =>
        [\A r \in Reads :
              /\ kept'[r] <= Limit[r]
              /\ phase[r] = "failed" /\ phase'[r] = "failed" => kept'[r] <= kept[r]]_fetchVars
  BY PoolStep, FetchKeepsLittle
<1> QED BY <1>1, ReadsAreSane, PTL DEF Spec, NothingAfterTheDeadline

-------------------------------------------------------------------------------
(* The pool *)

PoolType ==
    /\ cached \subseteq Reads
    /\ cursor \in 0..Total
    /\ at \in [Workers -> 0..Total]
    /\ stage \in [Workers -> {"taking", "fetching", "handed", "telling", "failing", "failed", "done"}]
    /\ completed \in Nat
    /\ outcome \in {"open", "reported", "rejected"}

\* The workers whose entry was taken and is not counted.
Holding == {w \in Workers : stage[w] \in {"fetching", "handed", "failing"}}

\* An entry that was taken is cached, or a worker is at it or failed on it.
TakenIsAccountedFor ==
    \A i \in 1..cursor :
        \/ Resource[i] \in cached
        \/ \E w \in Workers : at[w] = i /\ stage[w] \in {"fetching", "failing", "failed"}

WorkerIsSane(w) ==
    /\ stage[w] \notin {"taking", "done"} => at[w] \in 1..cursor
    /\ stage[w] \in {"handed", "telling"} => Resource[at[w]] \in cached
    /\ stage[w] = "done" => cursor = Total
    /\ stage[w] = "failed" => outcome = "rejected"
    /\ outcome = "reported" => stage[w] = "done"

TakenAreCounted == outcome # "rejected" => completed + Cardinality(Holding) = cursor

PoolInv == /\ PoolType /\ TakenIsAccountedFor /\ TakenAreCounted
           /\ \A w \in Workers : WorkerIsSane(w)

\* Who is held is some of the workers.
LEMMA HoldingIsFinite == IsFiniteSet(Holding) /\ Cardinality(Holding) \in Nat
<1>1. IsFiniteSet(Holding)
  BY SomeWorkers, FS_Subset DEF Holding
<1> QED BY <1>1, FS_CardinalityType

\* The pool begins with every entry to do.
LEMMA PoolInit == Init => PoolInv
<1> SUFFICES ASSUME Init PROVE PoolInv
  OBVIOUS
<1>1. PoolType
  BY ListIsGiven DEF Init, PoolType
<1>2. Holding = {}
  BY DEF Init, Holding
<1>3. TakenAreCounted
  BY <1>2, FS_EmptySet DEF Init, TakenAreCounted
<1> QED BY <1>1, <1>3 DEF Init, PoolInv, TakenIsAccountedFor, WorkerIsSane

\* A settled load moves those that await it, who keep what they hold.
LEMMA SettleStep ==
    ASSUME PoolInv, NEW r \in Reads, NEW fromCache,
           \/ Settle(r, "handed", fromCache) /\ cached' = cached \cup {r}
           \/ Settle(r, "failing", fromCache) /\ cached' = cached,
           UNCHANGED <<taken, counts>>
    PROVE  PoolInv'
<1> USE DEF taken, counts
<1>1. PoolType'
  BY DEF PoolInv, PoolType, Settle
<1>2. Holding' = Holding
  BY DEF PoolInv, PoolType, Settle, Holding
<1>3. TakenAreCounted'
  BY <1>2 DEF PoolInv, TakenAreCounted
<1>4. ASSUME NEW w \in Workers PROVE WorkerIsSane(w)'
  BY DEF PoolInv, PoolType, WorkerIsSane, Settle
<1>5. TakenIsAccountedFor'
  <2> SUFFICES ASSUME NEW i \in 1..cursor, Resource[i] \notin cached'
               PROVE  \E w \in Workers : at[w] = i /\ stage'[w] \in {"fetching", "failing", "failed"}
    BY DEF TakenIsAccountedFor
  <2>1. PICK w \in Workers : at[w] = i /\ stage[w] \in {"fetching", "failing", "failed"}
    BY DEF PoolInv, TakenIsAccountedFor
  <2>2. stage'[w] \in {"fetching", "failing", "failed"}
    BY <2>1 DEF PoolInv, PoolType, Settle
  <2> QED BY <2>1, <2>2
<1> QED BY <1>1, <1>3, <1>4, <1>5 DEF PoolInv

\* A worker that moves alone and takes nothing leaves the entries accounted for.
LEMMA MoveStep ==
    ASSUME PoolInv, NEW w \in Workers, NEW s, Moves(w, s), s \in {"telling", "taking", "failed", "done"},
           UNCHANGED <<cached, cursor, at>>,
           s \in {"telling", "taking", "done"} => stage[w] \notin {"fetching", "failing", "failed"}
    PROVE  TakenIsAccountedFor'
<1> SUFFICES ASSUME NEW i \in 1..cursor, Resource[i] \notin cached
             PROVE  \E v \in Workers : at[v] = i /\ stage'[v] \in {"fetching", "failing", "failed"}
  BY DEF TakenIsAccountedFor
<1>1. PICK v \in Workers : at[v] = i /\ stage[v] \in {"fetching", "failing", "failed"}
  BY DEF PoolInv, TakenIsAccountedFor
<1>2. stage'[v] \in {"fetching", "failing", "failed"}
  BY <1>1 DEF PoolInv, PoolType, Moves
<1> QED BY <1>1, <1>2

\* Every step of the pool keeps what it holds, has done and has left apart.
LEMMA PoolInvStep == PoolInv /\ [Next]_vars => PoolInv'
<1> SUFFICES ASSUME PoolInv, [Next]_vars PROVE PoolInv'
  OBVIOUS
<1>0. PoolType /\ TakenIsAccountedFor /\ TakenAreCounted /\ \A w \in Workers : WorkerIsSane(w)
  BY DEF PoolInv
<1>1. ASSUME NEW r \in Reads, FindCached(r) \/ Store(r) \/ LoadFails(r) PROVE PoolInv'
  <2>1. CASE FindCached(r)
    BY <2>1, SettleStep, cached = cached \cup {r} DEF FindCached
  <2>2. CASE Store(r)
    BY <2>2, SettleStep DEF Store
  <2>3. CASE LoadFails(r)
    BY <2>3, SettleStep DEF LoadFails
  <2> QED BY <1>1, <2>1, <2>2, <2>3
<1>2. ASSUME UNCHANGED <<cached, taken, stage, counts>> PROVE PoolInv'
  BY <1>0, <1>2 DEF PoolInv, PoolType, TakenIsAccountedFor, TakenAreCounted, WorkerIsSane,
                    Holding, taken, counts
<1>3. ASSUME NEW w \in Workers, Take(w) PROVE PoolInv'
  <2>1. cursor < Total /\ cursor \in Nat /\ Total \in Nat /\ cursor + 1 \in 0..Total
    BY <1>0, <1>3, ListIsGiven DEF Take, PoolType
  <2>2. PoolType'
    BY <1>0, <1>3, <2>1 DEF Take, Moves, PoolType, counts
  <2>3. Holding' = Holding \cup {w} /\ w \notin Holding
    BY <1>0, <1>3 DEF Take, Moves, PoolType, Holding
  <2>4. TakenAreCounted'
    <3>1. Cardinality(Holding') = Cardinality(Holding) + 1
      BY <2>3, HoldingIsFinite, FS_AddElement
    <3> QED BY <1>0, <1>3, <2>1, <3>1, HoldingIsFinite DEF Take, TakenAreCounted, PoolType, counts
  <2>5. ASSUME NEW v \in Workers PROVE WorkerIsSane(v)'
    <3>1. WorkerIsSane(v)
      BY <1>0
    <3>2. CASE v = w
      BY <1>0, <1>3, <2>1, <3>1, <3>2 DEF Take, Moves, PoolType, WorkerIsSane, counts
    <3>3. CASE v # w
      BY <1>0, <1>3, <2>1, <3>1, <3>3 DEF Take, Moves, PoolType, WorkerIsSane, counts
    <3> QED BY <3>2, <3>3
  <2>6. TakenIsAccountedFor'
    <3> SUFFICES ASSUME NEW i \in 1..cursor', Resource[i] \notin cached
                 PROVE  \E v \in Workers : at'[v] = i /\ stage'[v] \in {"fetching", "failing", "failed"}
      BY <1>3 DEF Take, TakenIsAccountedFor
    <3>1. CASE i = cursor + 1
      BY <1>0, <1>3, <3>1 DEF Take, Moves, PoolType
    <3>2. CASE i # cursor + 1
      <4>1. i \in 1..cursor
        BY <1>3, <2>1, <3>2 DEF Take
      <4>2. PICK v \in Workers : at[v] = i /\ stage[v] \in {"fetching", "failing", "failed"}
        BY <1>0, <4>1 DEF TakenIsAccountedFor
      <4>3. v # w
        BY <1>3, <4>2 DEF Take
      <4> QED BY <1>0, <1>3, <4>2, <4>3 DEF Take, Moves, PoolType
    <3> QED BY <3>1, <3>2
  <2> QED BY <2>2, <2>4, <2>5, <2>6 DEF PoolInv
<1>4. ASSUME NEW w \in Workers, Count(w) PROVE PoolInv'
  <2>1. PoolType'
    BY <1>0, <1>4 DEF Count, Moves, PoolType, taken
  <2>2. Holding' = Holding \ {w} /\ w \in Holding
    BY <1>0, <1>4 DEF Count, Moves, PoolType, Holding
  <2>3. TakenAreCounted'
    <3>1. Cardinality(Holding') = Cardinality(Holding) - 1
      BY <2>2, HoldingIsFinite, FS_RemoveElement
    <3> QED BY <1>0, <1>4, <3>1, HoldingIsFinite DEF Count, TakenAreCounted, PoolType, taken
  <2>4. ASSUME NEW v \in Workers PROVE WorkerIsSane(v)'
    BY <1>0, <1>4 DEF Count, Moves, PoolType, WorkerIsSane, taken
  <2>5. TakenIsAccountedFor'
    BY <1>4, MoveStep DEF Count, taken
  <2> QED BY <2>1, <2>3, <2>4, <2>5 DEF PoolInv
<1>5. ASSUME NEW w \in Workers, Told(w) \/ WorkerEnds(w) PROVE PoolInv'
  <2>1. PoolType'
    BY <1>0, <1>5 DEF Told, WorkerEnds, Moves, PoolType, taken, counts
  <2>2. Holding' = Holding
    BY <1>0, <1>5 DEF Told, WorkerEnds, Moves, PoolType, Holding
  <2>3. TakenAreCounted'
    BY <1>0, <1>5, <2>2 DEF Told, WorkerEnds, TakenAreCounted, taken, counts
  <2>4. ASSUME NEW v \in Workers PROVE WorkerIsSane(v)'
    BY <1>0, <1>5 DEF Told, WorkerEnds, Moves, PoolType, WorkerIsSane, taken, counts
  <2>5. TakenIsAccountedFor'
    BY <1>5, MoveStep DEF Told, WorkerEnds, taken
  <2> QED BY <2>1, <2>3, <2>4, <2>5 DEF PoolInv
<1>6. ASSUME NEW w \in Workers, Fail(w) PROVE PoolInv'
  <2>1. outcome # "reported"
    BY <1>0, <1>6 DEF Fail, WorkerIsSane
  <2>2. outcome' = "rejected" /\ PoolType'
    BY <1>0, <1>6, <2>1 DEF Fail, Moves, PoolType, taken
  <2>3. TakenAreCounted'
    BY <2>2 DEF TakenAreCounted
  <2>4. ASSUME NEW v \in Workers PROVE WorkerIsSane(v)'
    BY <1>0, <1>6, <2>2 DEF Fail, Moves, PoolType, WorkerIsSane, taken
  <2>5. TakenIsAccountedFor'
    BY <1>6, MoveStep DEF Fail, taken
  <2> QED BY <2>2, <2>3, <2>4, <2>5 DEF PoolInv
<1>7. ASSUME Report PROVE PoolInv'
  BY <1>0, <1>7 DEF Report, PoolInv, PoolType, TakenIsAccountedFor, TakenAreCounted, WorkerIsSane,
                    Holding, taken
<1>8. ASSUME NEW r \in Reads, StartFetch(r) PROVE PoolInv'
  BY <1>2, <1>8 DEF StartFetch
<1>9. ASSUME UNCHANGED poolVars PROVE PoolInv'
  BY <1>2, <1>9 DEF poolVars, taken, counts
<1> QED
  BY <1>1, <1>3, <1>4, <1>5, <1>6, <1>7, <1>8, <1>9 DEF Next, Work, Loading, Reading, vars

\* Prefetch reports only when every entry was acquired, and then each is in the cache,
\* for any entries and workers (the work queue of CjsToolPrefetch.js).
THEOREM EveryEntryIsReported == Spec => []EveryEntryIsThere
<1>1. PoolInv => EveryEntryIsThere
  <2> SUFFICES ASSUME PoolInv, outcome = "reported"
               PROVE  completed = Total /\ \A i \in 1..Total : Resource[i] \in cached
    BY DEF EveryEntryIsThere
  <2>1. \A w \in Workers : stage[w] = "done"
    BY DEF PoolInv, WorkerIsSane
  <2>2. cursor = Total
    BY <2>1, SomeWorkers DEF PoolInv, WorkerIsSane
  <2>3. Holding = {}
    BY <2>1 DEF Holding
  <2>4. completed = Total
    BY <2>2, <2>3, FS_EmptySet DEF PoolInv, PoolType, TakenAreCounted
  <2> QED BY <2>1, <2>2, <2>4 DEF PoolInv, TakenIsAccountedFor
<1> QED BY <1>1, PoolInit, PoolInvStep, PTL DEF Spec
-------------------------------------------------------------------------------
(* The sum of the report *)

\* The entries whose bytes are in byteLength: those taken that no worker holds.
Counted == {i \in 1..cursor : \A w \in Holding : at[w] # i}

\* The sum is that of the entries counted so far, and no entry is held twice; a call
\* that is rejected reports no sum.
SumInv ==
    /\ byteLength \in Nat
    /\ \A v, w \in Holding : at[v] = at[w] => v = w
    /\ outcome # "rejected" => byteLength = Cardinality(Bytes(Counted))

\* The bytes of finitely many entries can be counted.
LEMMA BytesAreFinite ==
    ASSUME NEW S \in SUBSET (1..Total)
    PROVE  IsFiniteSet(Bytes(S)) /\ Cardinality(Bytes(S)) \in Nat
<1>1. IsFiniteSet(1..Total) /\ IsFiniteSet(1..MaxSize)
  BY ListIsGiven, SizesAreNumbers, FS_Interval
<1>2. IsFiniteSet(S)
  BY <1>1, FS_Subset
<1>3. IsFiniteSet(S \X (1..MaxSize))
  BY <1>1, <1>2, FS_Product
<1>4. Bytes(S) \in SUBSET (S \X (1..MaxSize))
  BY DEF Bytes
<1>5. IsFiniteSet(Bytes(S))
  BY <1>3, <1>4, FS_Subset
<1> QED BY <1>5, FS_CardinalityType

\* One more entry adds what the index row says of its resource, whether or not another
\* entry of the same resource was counted.
LEMMA OneEntryMore ==
    ASSUME NEW S \in SUBSET (1..Total), NEW i \in 1..Total, i \notin S
    PROVE  Cardinality(Bytes(S \cup {i})) = Cardinality(Bytes(S)) + Size[Resource[i]]
<1> DEFINE n == Size[Resource[i]]
           Own == {i} \X (1..n)
<1>1. n \in Nat /\ n <= MaxSize /\ MaxSize \in Nat
  BY ListIsGiven, SizesAreNumbers
<1>2. IsFiniteSet({i}) /\ Cardinality({i}) = 1
  BY FS_Singleton
<1>3. IsFiniteSet(1..n) /\ Cardinality(1..n) = n
  <2> HIDE DEF n
  <2>1. n \in Int /\ 1 \in Int
    BY <1>1
  <2>2. IsFiniteSet(1..n) /\ Cardinality(1..n) = IF 1 > n THEN 0 ELSE n - 1 + 1
    BY <2>1, FS_Interval
  <2> QED BY <1>1, <2>2
<1>4. IsFiniteSet(Own) /\ Cardinality(Own) = n
  <2> HIDE DEF n
  <2>1. IsFiniteSet(Own) /\ Cardinality(Own) = 1 * n
    BY <1>2, <1>3, FS_Product
  <2> QED BY <1>1, <2>1
<1>5. IsFiniteSet(Bytes(S)) /\ Cardinality(Bytes(S)) \in Nat
  BY BytesAreFinite
<1>6. Bytes(S \cup {i}) = Bytes(S) \cup Own
  BY <1>1 DEF Bytes
<1>7. Bytes(S) \cap Own = {}
  BY DEF Bytes
<1>8. Cardinality(Bytes(S) \cup Own)
        = Cardinality(Bytes(S)) + Cardinality(Own) - Cardinality(Bytes(S) \cap Own)
  <2> HIDE DEF Own
  <2> QED BY <1>4, <1>5, FS_Union
<1> HIDE DEF Own, n
<1>9. Cardinality(Bytes(S) \cap Own) = 0
  BY <1>7, FS_EmptySet
<1>10. Cardinality(Bytes(S \cup {i})) = Cardinality(Bytes(S)) + n
  BY <1>1, <1>4, <1>5, <1>6, <1>8, <1>9
<1> QED BY <1>10 DEF n

\* Nothing is taken and nothing is counted.
LEMMA SumInit == Init => SumInv
<1> SUFFICES ASSUME Init PROVE SumInv
  OBVIOUS
<1>1. Holding = {}
  BY DEF Init, Holding
<1>2. 1..cursor = {}
  BY DEF Init
<1>3. Bytes(Counted) = {}
  BY <1>2 DEF Counted, Bytes
<1> QED BY <1>1, <1>3, FS_EmptySet DEF Init, SumInv

\* Every step counts the entry it is done with, once.
LEMMA SumStep == PoolInv /\ SumInv /\ [Next]_vars => SumInv'
<1> SUFFICES ASSUME PoolInv, SumInv, [Next]_vars PROVE SumInv'
  OBVIOUS
<1>0. PoolType /\ \A w \in Workers : WorkerIsSane(w)
  BY DEF PoolInv
<1>1. ASSUME Holding' = Holding, UNCHANGED <<taken, byteLength>>, outcome # "rejected" \/ outcome' = outcome
      PROVE  SumInv'
  <2>1. Counted' = Counted
    BY <1>1 DEF Counted, taken
  <2>2. Bytes(Counted)' = Bytes(Counted)
    BY <2>1 DEF Bytes
  <2> QED BY <1>1, <2>2 DEF SumInv, taken
<1>2. ASSUME NEW r \in Reads, FindCached(r) \/ Store(r) \/ LoadFails(r) \/ StartFetch(r) PROVE SumInv'
  <2>1. Holding' = Holding
    BY <1>0, <1>2 DEF FindCached, Store, LoadFails, StartFetch, Settle, Holding, PoolType
  <2> QED BY <1>1, <1>2, <2>1 DEF FindCached, Store, LoadFails, StartFetch, counts
<1>3. ASSUME NEW w \in Workers, Take(w) PROVE SumInv'
  <2>1. cursor < Total /\ cursor \in Nat /\ Total \in Nat /\ cursor' = cursor + 1
    BY <1>0, <1>3, ListIsGiven DEF Take, PoolType
  <2>2. Holding' = Holding \cup {w} /\ w \notin Holding
    BY <1>0, <1>3 DEF Take, Moves, PoolType, Holding
  <2>3. /\ at'[w] = cursor + 1
        /\ \A v \in Holding : at'[v] = at[v] /\ at[v] \in 1..cursor
    <3>1. \A v \in Holding : v \in Workers /\ at[v] \in 1..cursor
      BY <1>0 DEF Holding, WorkerIsSane
    <3> QED BY <1>0, <1>3, <2>2, <3>1 DEF Take, PoolType
  <2>4. Counted' = Counted
    BY <2>1, <2>2, <2>3 DEF Counted
  <2>5. Bytes(Counted)' = Bytes(Counted)
    BY <2>4 DEF Bytes
  <2>6. \A u, v \in Holding' : at'[u] = at'[v] => u = v
    BY <2>1, <2>2, <2>3 DEF SumInv
  <2> QED BY <1>3, <2>5, <2>6 DEF SumInv, Take, counts
<1>4. ASSUME NEW w \in Workers, Count(w) PROVE SumInv'
  <2>1. Holding' = Holding \ {w} /\ w \in Holding
    BY <1>0, <1>4 DEF Count, Moves, PoolType, Holding
  <2>2. at[w] \in 1..cursor /\ 1..cursor \subseteq 1..Total
    <3>1. cursor \in 0..Total /\ Total \in Nat
      BY <1>0, ListIsGiven DEF PoolType
    <3>2. at[w] \in 1..cursor
      BY <1>0, <1>4 DEF Count, WorkerIsSane
    <3> QED BY <3>1, <3>2
  <2>3. /\ UNCHANGED <<cursor, at, outcome>>
        /\ byteLength' = byteLength + Size[Resource[at[w]]]
    BY <1>4 DEF Count, taken
  <2>4. Counted' = Counted \cup {at[w]} /\ at[w] \notin Counted
    BY <2>1, <2>2, <2>3 DEF Counted, SumInv
  <2>5. Cardinality(Bytes(Counted \cup {at[w]})) = Cardinality(Bytes(Counted)) + Size[Resource[at[w]]]
    <3>1. Counted \in SUBSET (1..Total) /\ at[w] \in 1..Total
      BY <2>2 DEF Counted
    <3> QED BY <2>4, <3>1, OneEntryMore
  <2>6. Bytes(Counted)' = Bytes(Counted \cup {at[w]})
    BY <2>4 DEF Bytes
  <2>7. Size[Resource[at[w]]] \in Nat
    BY <2>2, ListIsGiven, SizesAreNumbers
  <2> QED BY <2>1, <2>3, <2>5, <2>6, <2>7 DEF SumInv
<1>5. ASSUME NEW w \in Workers, Told(w) \/ WorkerEnds(w) PROVE SumInv'
  <2>1. Holding' = Holding
    BY <1>0, <1>5 DEF Told, WorkerEnds, Moves, PoolType, Holding
  <2> QED BY <1>1, <1>5, <2>1 DEF Told, WorkerEnds, counts
<1>6. ASSUME NEW w \in Workers, Fail(w) PROVE SumInv'
  <2>1. outcome' = "rejected"
    BY <1>0, <1>6 DEF Fail, WorkerIsSane, PoolType
  <2>2. Holding' \subseteq Holding /\ UNCHANGED <<at, byteLength>>
    BY <1>0, <1>6 DEF Fail, Moves, PoolType, Holding, taken
  <2> QED BY <2>1, <2>2 DEF SumInv
<1>7. ASSUME Report PROVE SumInv'
  <2>1. Holding' = Holding
    BY <1>7 DEF Report, Holding
  <2> QED BY <1>1, <1>7, <2>1 DEF Report
<1>8. ASSUME UNCHANGED poolVars PROVE SumInv'
  <2>1. Holding' = Holding
    BY <1>8 DEF poolVars, Holding
  <2> QED BY <1>1, <1>8, <2>1 DEF poolVars, taken
<1> QED
  BY <1>2, <1>3, <1>4, <1>5, <1>6, <1>7, <1>8 DEF Next, Work, Loading, Reading, vars

\* The report is right about every entry and its sum is that of the list, entries that
\* share a resource and a load included (CjsToolPrefetch.js:187-262).
THEOREM ReportAddsUp == Spec => []ReportIsExact
<1>1. PoolInv /\ SumInv /\ EveryEntryIsThere => ReportIsExact
  <2> SUFFICES ASSUME PoolInv, SumInv, EveryEntryIsThere, outcome = "reported"
               PROVE  byteLength = Cardinality(Bytes(1..Total))
    BY DEF ReportIsExact
  <2>1. \A w \in Workers : stage[w] = "done"
    BY DEF PoolInv, WorkerIsSane
  <2>2. cursor = Total /\ Holding = {}
    BY <2>1, SomeWorkers DEF PoolInv, WorkerIsSane, Holding
  <2>3. Counted = 1..Total
    BY <2>2 DEF Counted
  <2> QED BY <2>3 DEF SumInv
<1>2. Spec => [](PoolInv /\ SumInv)
  BY PoolInit, PoolInvStep, SumInit, SumStep, PTL DEF Spec
<1> QED BY <1>1, <1>2, EveryEntryIsReported, PTL
===============================================================================
