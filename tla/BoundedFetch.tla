----------------------------- MODULE BoundedFetch -----------------------------
(***************************************************************************)
(* One bounded read (src/internal/CjsToolBoundedFetch.js): request, then   *)
(* readBytes, each in a `run` of its own that races its work against a     *)
(* deadline and the caller's signal.  What loses the race is not stopped:  *)
(* the work goes on by itself and has to see that it was called off.       *)
(*                                                                         *)
(* A step is what one callback does up to its next await; the adapter      *)
(* behind fetch and the stream behind a body belong to the caller or the   *)
(* network and may do anything, also nothing.                              *)
(*                                                                         *)
(* A definition named X_ and what it forgets stands before X and is X with *)
(* a plausible bug; nothing here uses it.                                  *)
(***************************************************************************)
EXTENDS Naturals

CONSTANTS
    Reads,
    Signalled,      \* the reads to which the caller passed its signal
    Limit,          \* maxBytes of each
    MaxSize,        \* bound: how long a body is
    None

ASSUME SignalledAreReads == Signalled \subseteq Reads
ASSUME SizesAreNumbers == Limit \in [Reads -> Nat \ {0}] /\ MaxSize \in Nat

\* Streams with a reader; iterators that can be destroyed; iterators that cannot,
\* with them what comes at once (arrayBuffer, json).
Kinds == {"reader", "destroyable", "iterator"}
Bodies == [kind : Kinds, size : 0..MaxSize]

ASSUME NoneIsNoBody == None \notin Bodies

VARIABLES
    phase,      \* what the caller of the read awaits, or what it got
    body,       \* the response's body: its kind and its size
    loop,       \* where the work on the body is
    kept,       \* how much of the body has come and is kept
    aborted,    \* the signal of the current run
    gone        \* the caller's own signal, one for its reads

fetchVars == <<phase, body, loop, kept, aborted, gone>>

FetchInit ==
    /\ phase = [r \in Reads |-> "idle"]
    /\ body = [r \in Reads |-> None]
    /\ loop = [r \in Reads |-> "none"]
    /\ kept = [r \in Reads |-> 0]
    /\ aborted = [r \in Reads |-> FALSE]
    /\ gone = FALSE

\* The race is open: the deadline is armed and nothing has settled it.
Racing(r) == phase[r] \in {"requested", "reading"}
Settled(r) == phase[r] \in {"received", "failed"}

Becomes(r, p) == phase' = [phase EXCEPT ![r] = p]

-------------------------------------------------------------------------------
(* request *)

\* A call of its own: what an earlier one left going can no longer reach it.  A
\* signal already aborted starts nothing.
Request(r) ==
    /\ phase[r] \in {"idle", "received", "failed"}
    /\ Becomes(r, IF r \in Signalled /\ gone THEN "failed" ELSE "requested")
    /\ body' = [body EXCEPT ![r] = None]
    /\ loop' = [loop EXCEPT ![r] = "none"]
    /\ kept' = [kept EXCEPT ![r] = 0]
    /\ aborted' = [aborted EXCEPT ![r] = FALSE]
    /\ UNCHANGED gone

\* An answer that comes after the race is nobody's.
Answer(r) ==
    /\ phase[r] = "requested"
    /\ \E b \in Bodies : body' = [body EXCEPT ![r] = b]
    /\ Becomes(r, "answered")
    /\ UNCHANGED <<loop, kept, aborted, gone>>

\* The network, or what is no response.
AnswerFails(r) ==
    /\ phase[r] = "requested"
    /\ Becomes(r, "failed")
    /\ UNCHANGED <<body, loop, kept, aborted, gone>>

-------------------------------------------------------------------------------
(* readBytes *)

\* The work throws: a reader is cancelled first, an iterator closed, and either may
\* take for ever.
Throws(r) == loop' = [loop EXCEPT ![r] = "cancelling"] /\ UNCHANGED phase

Rejects(r) ==
    /\ loop' = [loop EXCEPT ![r] = "over"]
    /\ IF phase[r] = "reading" THEN Becomes(r, "failed") ELSE UNCHANGED phase

Returns(r) ==
    /\ loop' = [loop EXCEPT ![r] = "over"]
    /\ IF phase[r] = "reading" THEN Becomes(r, "received") ELSE UNCHANGED phase

\* The status refuses it, the caller is gone, the declared length is too large: the
\* body is not touched, and not cancelled either.
Refuse(r) ==
    /\ phase[r] = "answered"
    /\ Becomes(r, "failed")
    /\ UNCHANGED <<body, loop, kept, aborted, gone>>

ReadBody(r) ==
    /\ phase[r] = "answered" /\ ~(r \in Signalled /\ gone)
    /\ Becomes(r, "reading")
    /\ loop' = [loop EXCEPT ![r] = "awaiting"]
    /\ UNCHANGED <<body, kept, aborted, gone>>

\* The bytes are counted when all have come.
TakeChunk_CountsLater(r) ==
    /\ loop[r] = "awaiting"
    /\ \E n \in 1..(body[r].size - kept[r]) :
         IF aborted[r] THEN Throws(r) /\ UNCHANGED kept
         ELSE kept' = [kept EXCEPT ![r] = @ + n] /\ UNCHANGED <<loop, phase>>
    /\ UNCHANGED <<body, aborted, gone>>

\* The signal is not looked at before more is awaited.
TakeChunk_GoesOn(r) ==
    /\ loop[r] = "awaiting"
    /\ \E n \in 1..(body[r].size - kept[r]) :
         IF kept[r] + n > Limit[r] THEN Throws(r) /\ UNCHANGED kept
         ELSE kept' = [kept EXCEPT ![r] = @ + n] /\ UNCHANGED <<loop, phase>>
    /\ UNCHANGED <<body, aborted, gone>>

\* A chunk is kept only within the limit and while the signal stands, and then
\* the next is awaited.
TakeChunk(r) ==
    /\ loop[r] = "awaiting"
    /\ \E n \in 1..(body[r].size - kept[r]) :
         IF aborted[r] \/ kept[r] + n > Limit[r] THEN Throws(r) /\ UNCHANGED kept
         ELSE kept' = [kept EXCEPT ![r] = @ + n] /\ UNCHANGED <<loop, phase>>
    /\ UNCHANGED <<body, aborted, gone>>

BodyEnds(r) ==
    /\ loop[r] = "awaiting" /\ kept[r] = body[r].size
    /\ Returns(r)
    /\ UNCHANGED <<body, kept, aborted, gone>>

\* A chunk is no bytes, or the connection breaks: an iterator that fails by itself is
\* not closed.
BodyFails(r) ==
    /\ loop[r] = "awaiting"
    /\ \/ Throws(r)
       \/ body[r].kind # "reader" /\ Rejects(r)
    /\ UNCHANGED <<body, kept, aborted, gone>>

\* A reader that was cancelled says it is done, and its work returns what it has.
CutShort(r) ==
    /\ loop[r] = "cut"
    /\ Returns(r)
    /\ UNCHANGED <<body, kept, aborted, gone>>

Cancelled(r) ==
    /\ loop[r] = "cancelling"
    /\ Rejects(r)
    /\ UNCHANGED <<body, kept, aborted, gone>>

-------------------------------------------------------------------------------
(* run: the deadline, and the caller's signal *)

\* What the abort of a run does to its work: a reader's pending read ends, an
\* iterator that can be is destroyed, any other is left to notice.
Stopped(r) ==
    CASE loop[r] = "awaiting" /\ body[r].kind = "reader" -> "cut"
      [] loop[r] = "awaiting" /\ body[r].kind = "destroyable" -> "over"
      [] OTHER -> loop[r]

\* The work is called off, and its end awaited.
CallOff_Waits(R) ==
    /\ aborted' = [r \in Reads |-> aborted[r] \/ r \in R]
    /\ loop' = [r \in Reads |-> IF r \in R THEN Stopped(r) ELSE loop[r]]
    /\ phase' = [r \in Reads |-> IF r \in R /\ loop[r] # "awaiting" THEN "failed" ELSE phase[r]]

\* The races of R are lost before the work is told.
CallOff(R) ==
    /\ aborted' = [r \in Reads |-> aborted[r] \/ r \in R]
    /\ loop' = [r \in Reads |-> IF r \in R THEN Stopped(r) ELSE loop[r]]
    /\ phase' = [r \in Reads |-> IF r \in R THEN "failed" ELSE phase[r]]

Timeout(r) ==
    /\ Racing(r) /\ ~aborted[r]
    /\ CallOff({r})
    /\ UNCHANGED <<body, kept, gone>>

CallerGoes ==
    /\ Signalled # {} /\ ~gone
    /\ gone' = TRUE
    /\ CallOff({r \in Signalled : Racing(r)})
    /\ UNCHANGED <<body, kept>>

Network(r) == \/ Answer(r) \/ AnswerFails(r) \/ Refuse(r) \/ ReadBody(r) \/ TakeChunk(r)
              \/ BodyEnds(r) \/ BodyFails(r) \/ CutShort(r) \/ Cancelled(r)

-------------------------------------------------------------------------------
(* Properties *)

\* What a read answers is the whole body, within its limit: not what a cancelled
\* reader leaves, which looks like the end of the body
\* (CjsToolBoundedFetch.js:64-82, 304-345).
BodiesAreWhole ==
    \A r \in Reads : phase[r] = "received" => kept[r] = body[r].size /\ kept[r] <= Limit[r]

\* "fails before retaining excess bytes" (CjsToolBoundedFetch.js:124), and work that
\* was called off keeps nothing more of what still comes ("Throws before a timed-out
\* operation can continue into another side effect", :282).
NothingAfterTheDeadline ==
    [][\A r \in Reads :
         /\ kept'[r] <= Limit[r]
         /\ phase[r] = "failed" /\ phase'[r] = "failed" => kept'[r] <= kept[r]]_fetchVars
===============================================================================
