----------------------------- MODULE SourceLease -----------------------------
(***************************************************************************)
(* What the service promises about the SDE sources it opens: a source is   *)
(* lent to request handlers while it is open, and it is closed only while  *)
(* no handler holds it.  How the promise is kept -- entries, identities,   *)
(* idle times, budgets, the sweep and its barrier -- is BuildCache, which  *)
(* implements this specification.                                          *)
(***************************************************************************)
CONSTANTS
    Requests,   \* request slots of the HTTP service
    Handles     \* the SDE sources that can exist at once

VARIABLES
    status,     \* [Handles -> {"closed", "open"}]
    leases      \* [Requests -> SUBSET Handles]: what each running handler uses

leaseVars == <<status, leases>>

LeaseInit == /\ status = [h \in Handles |-> "closed"]
             /\ leases = [r \in Requests |-> {}]

\* A source is opened, or a closed slot nobody uses is opened again.
Acquire(h) == /\ status[h] = "closed"
              /\ \A r \in Requests : h \notin leases[r]
              /\ status' = [status EXCEPT ![h] = "open"]
              /\ UNCHANGED leases

\* A handler starts to use open sources.
Lend(r, S) == /\ \A h \in S : status[h] = "open"
              /\ leases' = [leases EXCEPT ![r] = @ \cup S]
              /\ UNCHANGED status

\* A handler is over and uses nothing any more.
Return(r) == /\ leases' = [leases EXCEPT ![r] = {}]
             /\ UNCHANGED status

\* Sources that no handler uses are closed.
Dispose(S) == /\ \A r \in Requests : leases[r] \cap S = {}
              /\ status' = [h \in Handles |-> IF h \in S THEN "closed" ELSE status[h]]
              /\ UNCHANGED leases

LeaseNext == \/ \E h \in Handles : Acquire(h)
             \/ \E r \in Requests, S \in SUBSET Handles : Lend(r, S)
             \/ \E r \in Requests : Return(r)
             \/ \E S \in SUBSET Handles : Dispose(S)

LeaseSpec == LeaseInit /\ [][LeaseNext]_leaseVars
==============================================================================
