------------------------ MODULE BackendManagerRefines ------------------------
(***************************************************************************)
(* BackendManager implements BackendRegistry: an object in a creating      *)
(* thread's hands is not there yet, and a manager nobody holds any more    *)
(* counts as a registry being torn down.                                   *)
(***************************************************************************)
EXTENDS BackendManager

\* Handed out at least once: not in the hands of a thread that creates it or
\* throws it away.
Visible(b) ==
    /\ stage[b] # "none"
    /\ \A t \in Threads : local[t] = b => pc[t] \notin CreatingPCs

LifeOf(b) ==
    IF ~Visible(b) THEN "absent"
    ELSE IF stage[b] = "ready" THEN "usable" ELSE "finalizing"

IdentityOf(b) == IF Visible(b) THEN key[b] ELSE None

Life == [b \in Backends |-> LifeOf(b)]
Identity == [b \in Backends |-> IdentityOf(b)]

Users == {t \in Threads : manager[t] # None}

Entries == [l \in Libs |-> IF weak = None THEN None ELSE backendMap[weak][l]]

Leftover ==
    {b \in Backends : \E t \in Threads, l \in Libs :
        draining[t] # None /\ backendMap[draining[t]][l] = b}

Registry == INSTANCE BackendRegistry WITH
    users    <- Users,
    registry <- Entries,
    models   <- held,
    leftover <- Leftover,
    life     <- Life,
    identity <- Identity,
    ManagerReleasable <- TRUE

\* Every step of the locks, the calls in progress and the destructors is one
\* atomic step of the abstract registry, or none: CreateBackend takes effect
\* in the one step in which it hands out its backend, and every destructor
\* that was begun comes to its end (backend_manager.cc:21-38, backend.cc:52-59).
ImplementsFairRegistry == Registry!FairSpec

\* The part of it that is about safety.
ImplementsRegistry == Registry!Spec

-----------------------------------------------------------------------------
\* What the refinement rests on besides IInv.

\* While a backend is created its library is not served under its name.
Unserved ==
    \A t \in Threads :
        pc[t] \in CreatingPCs => ~Matches(manager[t], key[local[t]])

\* A backend is registered with one manager, for one library.
SoleEntry ==
    \A m, n \in Managers, k, l \in Libs :
        backendMap[m][k] # None /\ backendMap[m][k] = backendMap[n][l]
            => m = n /\ k = l

RInv == IInv /\ Unserved /\ SoleEntry
=============================================================================
