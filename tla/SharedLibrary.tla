---------------------------- MODULE SharedLibrary ----------------------------
(***************************************************************************)
(* The sessions with the dynamic loader (core/shared_library.cc) that the  *)
(* core opens to load a backend's library and to run its initialization    *)
(* functions (core/backend.cc, core/backend_model.cc).                     *)
(*                                                                         *)
(* A session holds the process-wide lock.  On Windows it also sets the     *)
(* process's DLL search directory to that of the library, so that the      *)
(* library finds its own dependencies, and resets it.  The directory is    *)
(* modelled by the library it belongs to.  Elsewhere SetLibraryDirectory   *)
(* and ResetLibraryDirectory do nothing and succeed.                       *)
(***************************************************************************)
EXTENDS Naturals

CONSTANTS
    Threads,   \* threads that load backends and models
    Libs,      \* backend libraries, each in a directory of its own
    None       \* no holder, no library, the default directory

ASSUME ConstantsAssumption ==
    /\ None \notin Threads
    /\ None \notin Libs

VARIABLES
    windows,     \* whether the build defines _WIN32; it never changes
    mu,          \* the thread that holds shared_library.cc's mu_
    dllDir,      \* the library whose directory is the DLL directory
    resetFailed, \* whether the last reset of the DLL directory failed
    pc,          \* pc[t]: where t is in its session
    kind,        \* kind[t]: what t needs the loader for
    lib,         \* lib[t]: the library t works on, None between sessions
    failed,      \* failed[t]: whether a call of t's session failed
    result       \* result[t]: whether t's session has returned an error

vars == <<windows, mu, dllDir, resetFailed, pc, kind, lib, failed, result>>

\* LoadBackendLibrary, BACKEND_Initialize and BACKEND_ModelInitialize.
Kinds == {"load", "init", "model"}

\* The model's initialization takes the lock on Windows only.
Locks(k) == windows \/ k # "model"

Init ==
    /\ windows \in BOOLEAN
    /\ mu = None
    /\ dllDir = None
    /\ resetFailed = FALSE
    /\ pc = [t \in Threads |-> "idle"]
    /\ kind = [t \in Threads |-> "load"]
    /\ lib = [t \in Threads |-> None]
    /\ failed = [t \in Threads |-> FALSE]
    /\ result = [t \in Threads |-> FALSE]

-----------------------------------------------------------------------------

Begin(t, k, l) ==
    /\ pc[t] = "idle"
    /\ pc' = [pc EXCEPT ![t] = IF Locks(k) THEN "acquire" ELSE "unlocked"]
    /\ kind' = [kind EXCEPT ![t] = k]
    /\ lib' = [lib EXCEPT ![t] = l]
    /\ failed' = [failed EXCEPT ![t] = FALSE]
    /\ result' = [result EXCEPT ![t] = FALSE]
    /\ UNCHANGED <<windows, mu, dllDir, resetFailed>>

\* Without the lock the library's function is just called.
RunUnlocked(t, fails) ==
    /\ pc[t] = "unlocked"
    /\ pc' = [pc EXCEPT ![t] = "idle"]
    /\ lib' = [lib EXCEPT ![t] = None]
    /\ failed' = [failed EXCEPT ![t] = fails]
    /\ result' = [result EXCEPT ![t] = fails]
    /\ UNCHANGED <<windows, mu, dllDir, resetFailed, kind>>

\* Mutant: the lock is not taken.
AcquireUnlocked(t) ==
    /\ pc[t] = "acquire"
    /\ mu' = t
    /\ pc' = [pc EXCEPT ![t] = "set"]
    /\ UNCHANGED <<windows, dllDir, resetFailed, kind, lib, failed, result>>

Acquire(t) ==
    /\ pc[t] = "acquire"
    /\ mu = None
    /\ mu' = t
    /\ pc' = [pc EXCEPT ![t] = "set"]
    /\ UNCHANGED <<windows, dllDir, resetFailed, kind, lib, failed, result>>

SetSucceeds(t) ==
    /\ pc[t] = "set"
    /\ dllDir' = IF windows THEN lib[t] ELSE dllDir
    /\ pc' = [pc EXCEPT ![t] = "run"]
    /\ UNCHANGED <<windows, mu, resetFailed, kind, lib, failed, result>>

\* Mutant: the early return does not release the lock.
SetFailsLocked(t) ==
    /\ windows
    /\ pc[t] = "set"
    /\ pc' = [pc EXCEPT ![t] = "idle"]
    /\ lib' = [lib EXCEPT ![t] = None]
    /\ failed' = [failed EXCEPT ![t] = TRUE]
    /\ result' = [result EXCEPT ![t] = TRUE]
    /\ UNCHANGED <<windows, mu, dllDir, resetFailed, kind>>

SetFails(t) ==
    /\ windows
    /\ pc[t] = "set"
    /\ pc' = [pc EXCEPT ![t] = "release"]
    /\ failed' = [failed EXCEPT ![t] = TRUE]
    /\ result' = [result EXCEPT ![t] = TRUE]
    /\ UNCHANGED <<windows, mu, dllDir, resetFailed, kind, lib>>

\* Mutant: a failure of the library's code is returned before the reset.
RunChecksFirst(t, fails) ==
    /\ pc[t] = "run"
    /\ pc' = [pc EXCEPT ![t] = IF fails THEN "release" ELSE "reset"]
    /\ failed' = [failed EXCEPT ![t] = fails]
    /\ result' = [result EXCEPT ![t] = fails]
    /\ UNCHANGED <<windows, mu, dllDir, resetFailed, kind, lib>>

\* The code of the library returns: LoadLibrary with its entry function, or
\* one of its initialization functions.
Run(t, fails) ==
    /\ pc[t] = "run"
    /\ pc' = [pc EXCEPT ![t] = "reset"]
    /\ failed' = [failed EXCEPT ![t] = fails]
    /\ UNCHANGED <<windows, mu, dllDir, resetFailed, kind, lib, result>>

\* Mutant: the successful reset hides the failure of the library's code.
ResetSucceedsHides(t) ==
    /\ pc[t] = "reset"
    /\ dllDir' = IF windows THEN None ELSE dllDir
    /\ resetFailed' = FALSE
    /\ pc' = [pc EXCEPT ![t] = IF kind[t] = "load"
                               THEN "lookup" ELSE "release"]
    /\ UNCHANGED <<windows, mu, kind, lib, failed, result>>

\* After the reset the outcome of the library's code is looked at, and the
\* entrypoints of a library that was loaded are looked up.
ResetSucceeds(t) ==
    /\ pc[t] = "reset"
    /\ dllDir' = IF windows THEN None ELSE dllDir
    /\ resetFailed' = FALSE
    /\ result' = [result EXCEPT ![t] = failed[t]]
    /\ pc' = [pc EXCEPT ![t] = IF kind[t] = "load" /\ ~failed[t]
                               THEN "lookup" ELSE "release"]
    /\ UNCHANGED <<windows, mu, kind, lib, failed>>

ResetFails(t) ==
    /\ windows
    /\ pc[t] = "reset"
    /\ resetFailed' = TRUE
    /\ failed' = [failed EXCEPT ![t] = TRUE]
    /\ result' = [result EXCEPT ![t] = TRUE]
    /\ pc' = [pc EXCEPT ![t] = "release"]
    /\ UNCHANGED <<windows, mu, dllDir, kind, lib>>

\* BACKEND_ModelInstanceExecute must be there, every other entrypoint may.
LookUp(t, missing) ==
    /\ pc[t] = "lookup"
    /\ failed' = [failed EXCEPT ![t] = missing]
    /\ result' = [result EXCEPT ![t] = missing]
    /\ pc' = [pc EXCEPT ![t] = "release"]
    /\ UNCHANGED <<windows, mu, dllDir, resetFailed, kind, lib>>

\* Mutant: the thread goes on with the library of its last session.
ReleaseKeeps(t) ==
    /\ pc[t] = "release"
    /\ mu' = None
    /\ pc' = [pc EXCEPT ![t] = "idle"]
    /\ UNCHANGED <<windows, dllDir, resetFailed, kind, lib, failed, result>>

\* The unique_ptr goes out of scope on every way out of the session.
Release(t) ==
    /\ pc[t] = "release"
    /\ mu' = None
    /\ pc' = [pc EXCEPT ![t] = "idle"]
    /\ lib' = [lib EXCEPT ![t] = None]
    /\ UNCHANGED <<windows, dllDir, resetFailed, kind, failed, result>>

-----------------------------------------------------------------------------

\* The steps of a thread that holds the lock.
InSession(t) ==
    \/ SetSucceeds(t) \/ SetFails(t)
    \/ ResetSucceeds(t) \/ ResetFails(t)
    \/ Release(t)
    \/ \E b \in BOOLEAN : Run(t, b) \/ LookUp(t, b)

Next ==
    \E t \in Threads :
        \/ \E k \in Kinds, l \in Libs : Begin(t, k, l)
        \/ \E b \in BOOLEAN : RunUnlocked(t, b)
        \/ Acquire(t)
        \/ InSession(t)

Spec == Init /\ [][Next]_vars

\* The loader and the library's functions return.
FairSpec == Spec /\ \A t \in Threads : WF_vars(InSession(t))

-----------------------------------------------------------------------------
(* Properties *)

SessionPCs == {"set", "run", "reset", "lookup", "release"}

\* Types; a thread has a library exactly while it works on one.
TypeOK ==
    /\ windows \in BOOLEAN
    /\ mu \in Threads \cup {None}
    /\ dllDir \in Libs \cup {None}
    /\ resetFailed \in BOOLEAN
    /\ pc \in [Threads -> {"idle", "unlocked", "acquire"} \cup SessionPCs]
    /\ kind \in [Threads -> Kinds]
    /\ lib \in [Threads -> Libs \cup {None}]
    /\ failed \in [Threads -> BOOLEAN]
    /\ result \in [Threads -> BOOLEAN]
    /\ \A t \in Threads : pc[t] = "idle" <=> lib[t] = None

\* "Any other attempts to concurrently acquire a SharedLibrary object will
\* block" (shared_library.h:39-41): no two threads are inside a session.
MutualExclusion ==
    \A t, u \in Threads : pc[t] \in SessionPCs /\ pc[u] \in SessionPCs => t = u

\* While a session runs a library's code on Windows, dependencies are searched
\* for in that library's directory, whatever other threads do and whatever
\* failed before (backend.cc:27-35, backend_model.cc:82-95).
CodeSeesOwnDirectory ==
    windows => \A t \in Threads : pc[t] = "run" => dllDir = lib[t]

\* The directory of a session does not outlive it, however it ends, except if
\* the reset itself failed (shared_library.cc:81-83): between sessions, and
\* before one sets its own, the process searches where it always did.
DirectoryReset ==
    dllDir # None /\ ~resetFailed =>
        \E t \in Threads : pc[t] \in {"run", "reset"} /\ dllDir = lib[t]

\* A failure of any call of the session reaches the caller: neither the reset
\* that succeeds after it nor the lookups hide it (backend.cc:35-37,
\* shared_library.cc:83-84).
ErrorReported ==
    \A t \in Threads : pc[t] = "release" => result[t] = failed[t]

\* A thread that got the loader gives it back, on every path through a session.
SessionEnds == \A t \in Threads : mu = t ~> mu # t

-----------------------------------------------------------------------------
(* The inductive invariant *)

\* The lock is held exactly by the thread that is inside a session.
LockHeld == \A t \in Threads : pc[t] \in SessionPCs <=> mu = t

\* From setting the directory to resetting it, it is the session's own.
OwnDirectory ==
    windows => \A t \in Threads : pc[t] \in {"run", "reset"} => dllDir = lib[t]

\* Elsewhere nothing ever touches it.
NoDirectory == ~windows => dllDir = None

IInv == TypeOK /\ LockHeld /\ OwnDirectory /\ NoDirectory /\ DirectoryReset
            /\ ErrorReported
=============================================================================
