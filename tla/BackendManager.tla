--------------------------- MODULE BackendManager ---------------------------
(***************************************************************************)
(* The process-wide registry of backends (core/backend_manager.cc), the    *)
(* creation and destruction of a Backend (core/backend.cc) and the global  *)
(* lock every use of the dynamic loader takes (core/shared_library.cc).    *)
(*                                                                         *)
(* Threads share one BackendManager through a static weak pointer; each    *)
(* asks it for backends by (name, library path) and drops its references   *)
(* when its models go.  A shared_ptr is modelled by the set of places that *)
(* hold it: an object dies in the step that removes its last reference.    *)
(* Managers and Backends are object slots that are used again once their   *)
(* object is gone, so they bound the objects alive at the same time only.  *)
(***************************************************************************)
EXTENDS Naturals, FiniteSets

CONSTANTS
    Threads,            \* threads that load and unload models
    Managers,           \* BackendManager object slots
    Backends,           \* Backend object slots
    Names,              \* backend names
    Libs,               \* backend library paths
    Requests,           \* the (name, libpath) pairs asked of CreateBackend
    InitLibs,           \* libraries that export BACKEND_Initialize
    FiniLibs,           \* libraries that export BACKEND_Finalize
    ModelInitLibs,      \* libraries whose BACKEND_ModelInitialize runs under
                        \* the loader lock: on Windows those that export it,
                        \* elsewhere none
    None                \* the null pointer, and an unlocked mutex

ASSUME ConstantsAssumption ==
    /\ Requests \subseteq [name : Names, lib : Libs]
    /\ InitLibs \subseteq Libs
    /\ FiniLibs \subseteq Libs
    /\ ModelInitLibs \subseteq Libs
    /\ None \notin Threads
    /\ None \notin Managers
    /\ None \notin Backends
    /\ None \notin Requests

VARIABLES
    mu,          \* the thread that holds backend_manager.cc's mu_
    slibMu,      \* the thread that holds shared_library.cc's mu_
    weak,        \* backend_manager_: the live manager, None once it expired
    manager,     \* manager[t]: the manager t holds a reference to
    backendMap,  \* backendMap[m][l]: m's backend_map_ entry for library l
    held,        \* held[t]: the backends that models of t hold
    out,         \* out[t]: what a call of t in progress has put in *backend,
                 \* a local variable of BackendModel::Create
    local,       \* local[t]: the object t is creating or finalizing
    pc,          \* pc[t]: where t is in its call
    draining,    \* draining[t]: the manager whose destructor t runs
    stage,       \* stage[b]: how far object b has come in its life
    key,         \* key[b]: the name_ and libpath_ of object b
    dropped      \* history: whether a manager has lost its last reference

vars == <<mu, slibMu, weak, manager, backendMap, held, out, local, pc,
          draining, stage, key, dropped>>

-----------------------------------------------------------------------------

CreatingPCs == {"load", "opening", "loaded", "initializing", "attributes",
                "publish", "failFini"}
LoaderPCs   == {"opening", "initializing", "modelInit"}
DrainPCs    == {"drain", "drainFini"}
FiniPCs     == {"failFini", "fini", "drainFini"}
PCs         == {"idle", "fini", "failed", "modelInit"}
                   \cup CreatingPCs \cup DrainPCs
Stages      == {"none", "constructed", "loaded", "ready", "finalizing"}

\* What the outside world can still reach of b: a live or dying registry, a
\* model, or the output argument of a call in progress.
Registered(b) == \E m \in Managers, l \in Libs : backendMap[m][l] = b
Referenced(b) == \/ Registered(b)
                 \/ \E t \in Threads : b \in held[t] \/ out[t] = b

FreeManager(m) == \A t \in Threads : manager[t] # m /\ draining[t] # m

Init ==
    /\ mu = None
    /\ slibMu = None
    /\ weak = None
    /\ manager = [t \in Threads |-> None]
    /\ backendMap = [m \in Managers |-> [l \in Libs |-> None]]
    /\ held = [t \in Threads |-> {}]
    /\ out = [t \in Threads |-> None]
    /\ local = [t \in Threads |-> None]
    /\ pc = [t \in Threads |-> "idle"]
    /\ draining = [t \in Threads |-> None]
    /\ stage = [b \in Backends |-> "none"]
    /\ key = [b \in Backends |-> None]
    /\ dropped = FALSE

-----------------------------------------------------------------------------
\* Destruction of a Backend whose last reference thread t has just dropped.

\* ~Backend returned (or had nothing to call): the slot is free again.
Gone(t, b) ==
    /\ stage' = [stage EXCEPT ![b] = "none"]
    /\ key' = [key EXCEPT ![b] = None]
    /\ local' = [local EXCEPT ![t] = None]

\* ~Backend calls backend_fini_fn_, which is set once the library is loaded
\* and exports it; t goes on at `running` until it returns, else at `done`.
Destroy(t, b, running, done) ==
    \/ /\ stage[b] # "constructed" /\ key[b].lib \in FiniLibs
       /\ stage' = [stage EXCEPT ![b] = "finalizing"]
       /\ local' = [local EXCEPT ![t] = b]
       /\ pc' = [pc EXCEPT ![t] = running]
       /\ UNCHANGED key
    \/ /\ stage[b] = "constructed" \/ key[b].lib \notin FiniLibs
       /\ Gone(t, b)
       /\ pc' = [pc EXCEPT ![t] = done]

\* Mutant: the object goes although others still refer to it.
UnreferenceAlways(t, b, running, done) == Destroy(t, b, running, done)

\* One reference to b goes: b is destroyed if it was the last one.  The
\* argument b is a bound variable, so that priming leaves it alone.
Unreference(t, b, running, done) ==
    \/ /\ Referenced(b)'
       /\ pc' = [pc EXCEPT ![t] = done]
       /\ UNCHANGED <<local, stage, key>>
    \/ ~Referenced(b)' /\ Destroy(t, b, running, done)

-----------------------------------------------------------------------------
\* BackendManager::Create.  It runs as one step: nothing it does under mu_
\* depends on anything but the weak pointer.

\* Mutant: every call makes a new manager.
CreateManagerAlways(t) ==
    /\ pc[t] = "idle" /\ manager[t] = None /\ mu = None
    /\ \E m \in Managers :
          /\ FreeManager(m)
          /\ manager' = [manager EXCEPT ![t] = m]
          /\ weak' = m
    /\ UNCHANGED <<mu, slibMu, backendMap, held, out, local, pc, draining,
                   dropped, stage, key>>

CreateManager(t) ==
    /\ pc[t] = "idle" /\ manager[t] = None /\ mu = None
    /\ \/ /\ weak # None
          /\ manager' = [manager EXCEPT ![t] = weak]
          /\ UNCHANGED <<weak, backendMap>>
       \/ /\ weak = None
          /\ \E m \in Managers :
                /\ FreeManager(m)
                /\ manager' = [manager EXCEPT ![t] = m]
                /\ weak' = m
                /\ backendMap' = [backendMap EXCEPT
                                      ![m] = [l \in Libs |-> None]]
    /\ UNCHANGED <<mu, slibMu, held, out, local, pc, draining, dropped, stage,
                   key>>

-----------------------------------------------------------------------------
\* BackendManager::CreateBackend and Backend::Create.

\* Mutant: the map is searched without mu_.
MayCreateUnlocked(t) == pc[t] = "idle" /\ manager[t] # None

MayCreate(t) == pc[t] = "idle" /\ manager[t] # None /\ mu = None

\* The library is registered under the name asked for.
Matches(m, r) ==
    /\ backendMap[m][r.lib] # None
    /\ key[backendMap[m][r.lib]].name = r.name

ReuseBackend(t, r) ==
    /\ MayCreate(t)
    /\ Matches(manager[t], r)
    /\ held' = [held EXCEPT ![t] = @ \cup {backendMap[manager[t]][r.lib]}]
    /\ UNCHANGED <<mu, slibMu, weak, manager, backendMap, out, local, pc,
                   draining, dropped, stage, key>>

\* Mutant: the entry with the other name is erased to make room.
BeginCreateErases(t, r) ==
    /\ MayCreate(t)
    /\ ~Matches(manager[t], r)
    /\ mu' = t
    /\ out' = [out EXCEPT ![t] = backendMap[manager[t]][r.lib]]
    /\ backendMap' = [backendMap EXCEPT ![manager[t]][r.lib] = None]
    /\ pc' = [pc EXCEPT ![t] = "load"]
    /\ \E b \in Backends :
          /\ stage[b] = "none"
          /\ local' = [local EXCEPT ![t] = b]
          /\ stage' = [stage EXCEPT ![b] = "constructed"]
          /\ key' = [key EXCEPT ![b] = r]
    /\ UNCHANGED <<slibMu, weak, manager, held, draining, dropped>>

\* Not registered, or registered under another name: in that case the output
\* argument points to the other backend until this call replaces it.
BeginCreate(t, r) ==
    /\ MayCreate(t)
    /\ ~Matches(manager[t], r)
    /\ mu' = t
    /\ out' = [out EXCEPT ![t] = backendMap[manager[t]][r.lib]]
    /\ pc' = [pc EXCEPT ![t] = "load"]
    /\ \E b \in Backends :
          /\ stage[b] = "none"
          /\ local' = [local EXCEPT ![t] = b]
          /\ stage' = [stage EXCEPT ![b] = "constructed"]
          /\ key' = [key EXCEPT ![b] = r]
    /\ UNCHANGED <<slibMu, weak, manager, backendMap, held, draining, dropped>>

\* LoadBackendLibrary takes the loader lock ...
AcquireLoad(t) ==
    /\ pc[t] = "load" /\ slibMu = None
    /\ slibMu' = t
    /\ pc' = [pc EXCEPT ![t] = "opening"]
    /\ UNCHANGED <<mu, weak, manager, backendMap, held, out, local, draining,
                   dropped, stage, key>>

\* ... and every entry point is found, so all function pointers are set.
LoadSucceeds(t) ==
    /\ pc[t] = "opening"
    /\ slibMu' = None
    /\ stage' = [stage EXCEPT ![local[t]] = "loaded"]
    /\ pc' = [pc EXCEPT ![t] = "loaded"]
    /\ UNCHANGED <<mu, weak, manager, backendMap, held, out, local, draining,
                   dropped, key>>

\* Backend::Create returns an error: local_backend is destroyed while mu_ is
\* still held, then CreateBackend returns and the lock goes.  What the lookup
\* put in the output argument stays there.
FailCreate(t) ==
    /\ Destroy(t, local[t], "failFini", "failed")
    /\ mu' = IF pc'[t] = "failed" THEN None ELSE t
    /\ UNCHANGED out

\* The library cannot be opened or lacks BACKEND_ModelInstanceExecute: no
\* function pointer was set.
LoadFails(t) ==
    /\ pc[t] = "opening"
    /\ slibMu' = None
    /\ FailCreate(t)
    /\ UNCHANGED <<weak, manager, backendMap, held, draining, dropped>>

\* BACKEND_Initialize is optional and runs under the loader lock.
SkipInit(t) ==
    /\ pc[t] = "loaded" /\ key[local[t]].lib \notin InitLibs
    /\ pc' = [pc EXCEPT ![t] = "attributes"]
    /\ UNCHANGED <<mu, slibMu, weak, manager, backendMap, held, out, local,
                   draining, dropped, stage, key>>

AcquireInit(t) ==
    /\ pc[t] = "loaded" /\ key[local[t]].lib \in InitLibs /\ slibMu = None
    /\ slibMu' = t
    /\ pc' = [pc EXCEPT ![t] = "initializing"]
    /\ UNCHANGED <<mu, weak, manager, backendMap, held, out, local, draining,
                   dropped, stage, key>>

InitSucceeds(t) ==
    /\ pc[t] = "initializing"
    /\ slibMu' = None
    /\ pc' = [pc EXCEPT ![t] = "attributes"]
    /\ UNCHANGED <<mu, weak, manager, backendMap, held, out, local, draining,
                   dropped, stage, key>>

\* Mutant: the error return skips the release of the loader lock.
InitFailsLocked(t) ==
    /\ pc[t] = "initializing"
    /\ FailCreate(t)
    /\ UNCHANGED <<slibMu, weak, manager, backendMap, held, draining, dropped>>

\* BACKEND_Initialize, or on Windows setting or resetting the DLL directory,
\* failed.  The loader lock goes before local_backend does.
InitFails(t) ==
    /\ pc[t] = "initializing"
    /\ slibMu' = None
    /\ FailCreate(t)
    /\ UNCHANGED <<weak, manager, backendMap, held, draining, dropped>>

\* The library reports its attributes; an error leaves the defaults and is
\* ignored, so both outcomes make the object usable.
UpdateAttributes(t) ==
    /\ pc[t] = "attributes"
    /\ stage' = [stage EXCEPT ![local[t]] = "ready"]
    /\ pc' = [pc EXCEPT ![t] = "publish"]
    /\ UNCHANGED <<mu, slibMu, weak, manager, backendMap, held, out, local,
                   draining, dropped, key>>

\* Mutant: the entry is assigned instead of inserted.
InsertedOver(m, b) == [backendMap EXCEPT ![m][key[b].lib] = b]

\* The new object replaces the output argument and is inserted into the map:
\* insert keeps an entry that is already there.
Inserted(m, b) ==
    [backendMap EXCEPT ![m][key[b].lib] = IF @ = None THEN b ELSE @]

\* Mutant: the caller keeps what the lookup found, not what was created.
PublishFound(t) ==
    /\ pc[t] = "publish"
    /\ backendMap' = Inserted(manager[t], local[t])
    /\ held' = [held EXCEPT ![t] = @ \cup {out[t]}]
    /\ local' = [local EXCEPT ![t] = None]
    /\ out' = [out EXCEPT ![t] = None]
    /\ mu' = None
    /\ pc' = [pc EXCEPT ![t] = "idle"]
    /\ UNCHANGED <<slibMu, weak, manager, draining, dropped, stage, key>>

Publish(t) ==
    /\ pc[t] = "publish"
    /\ backendMap' = Inserted(manager[t], local[t])
    /\ held' = [held EXCEPT ![t] = @ \cup {local[t]}]
    /\ local' = [local EXCEPT ![t] = None]
    /\ out' = [out EXCEPT ![t] = None]
    /\ mu' = None
    /\ pc' = [pc EXCEPT ![t] = "idle"]
    /\ UNCHANGED <<slibMu, weak, manager, draining, dropped, stage, key>>

\* BACKEND_Finalize of an object that failed to initialize returns.
FailedFinalized(t) ==
    /\ pc[t] = "failFini"
    /\ Gone(t, local[t])
    /\ mu' = None
    /\ pc' = [pc EXCEPT ![t] = "failed"]
    /\ UNCHANGED <<slibMu, weak, manager, backendMap, held, out, draining,
                   dropped>>

\* After mu_ is free the failed BackendModel::Create returns, and with it goes
\* its variable `backend`, the reference to a mismatched backend included.
DropOut(t) ==
    /\ pc[t] = "failed"
    /\ out' = [out EXCEPT ![t] = None]
    /\ UNCHANGED <<mu, slibMu, weak, manager, backendMap, held, draining,
                   dropped>>
    /\ \/ /\ out[t] = None
          /\ pc' = [pc EXCEPT ![t] = "idle"]
          /\ UNCHANGED <<local, stage, key>>
       \/ \E b \in Backends :
             b = out[t] /\ Unreference(t, b, "fini", "idle")

-----------------------------------------------------------------------------
\* BackendModel::Create, which holds the new backend, initializes the model.
\* On Windows that is a session of the loader lock taken without mu_.

AcquireModelInit(t, b) ==
    /\ pc[t] = "idle" /\ b \in held[t] /\ key[b].lib \in ModelInitLibs
    /\ slibMu = None
    /\ slibMu' = t
    /\ pc' = [pc EXCEPT ![t] = "modelInit"]
    /\ UNCHANGED <<mu, weak, manager, backendMap, held, out, local, draining,
                   dropped, stage, key>>

\* The session ends on every return, before the reference to the backend can
\* go: after an error that is ReleaseBackend's step.
ModelInitEnds(t) ==
    /\ pc[t] = "modelInit"
    /\ slibMu' = None
    /\ pc' = [pc EXCEPT ![t] = "idle"]
    /\ UNCHANGED <<mu, weak, manager, backendMap, held, out, local, draining,
                   dropped, stage, key>>

-----------------------------------------------------------------------------
\* References go without any lock.

\* The last model of t on backend b is unloaded.
ReleaseBackend(t, b) ==
    /\ pc[t] = "idle" /\ b \in held[t]
    /\ held' = [held EXCEPT ![t] = @ \ {b}]
    /\ UNCHANGED <<mu, slibMu, weak, manager, backendMap, out, draining,
                   dropped>>
    /\ Unreference(t, b, "fini", "idle")

ReleaseFinalized(t) ==
    /\ pc[t] = "fini"
    /\ Gone(t, local[t])
    /\ pc' = [pc EXCEPT ![t] = "idle"]
    /\ UNCHANGED <<mu, slibMu, weak, manager, backendMap, held, out, draining,
                   dropped>>

\* t drops its manager; the last holder runs the manager's destructor.
ReleaseManager(t) ==
    /\ pc[t] = "idle" /\ manager[t] # None
    /\ manager' = [manager EXCEPT ![t] = None]
    /\ \/ /\ \E u \in Threads \ {t} : manager[u] = manager[t]
          /\ UNCHANGED <<weak, draining, dropped, pc>>
       \/ /\ \A u \in Threads \ {t} : manager[u] # manager[t]
          /\ weak' = None
          /\ draining' = [draining EXCEPT ![t] = manager[t]]
          /\ pc' = [pc EXCEPT ![t] = "drain"]
          /\ dropped' = TRUE
    /\ UNCHANGED <<mu, slibMu, backendMap, held, out, local, stage, key>>

\* Mutant: the destructor takes mu_ for each entry.
DrainEntryLocked(t, l) ==
    /\ pc[t] = "drain" /\ mu = None
    /\ backendMap' = [backendMap EXCEPT ![draining[t]][l] = None]
    /\ UNCHANGED <<mu, slibMu, weak, manager, held, out, draining, dropped>>
    /\ \E b \in Backends :
          /\ b = backendMap[draining[t]][l]
          /\ Unreference(t, b, "drainFini", "drain")

\* The destructor of backend_map_ drops one entry after the other.
DrainEntry(t, l) ==
    /\ pc[t] = "drain"
    /\ backendMap' = [backendMap EXCEPT ![draining[t]][l] = None]
    /\ UNCHANGED <<mu, slibMu, weak, manager, held, out, draining, dropped>>
    /\ \E b \in Backends :
          /\ b = backendMap[draining[t]][l]
          /\ Unreference(t, b, "drainFini", "drain")

DrainFinalized(t) ==
    /\ pc[t] = "drainFini"
    /\ Gone(t, local[t])
    /\ pc' = [pc EXCEPT ![t] = "drain"]
    /\ UNCHANGED <<mu, slibMu, weak, manager, backendMap, held, out, draining,
                   dropped>>

\* Mutant: the manager goes with its entries still in place.
DrainDoneEarly(t) ==
    /\ pc[t] = "drain"
    /\ draining' = [draining EXCEPT ![t] = None]
    /\ pc' = [pc EXCEPT ![t] = "idle"]
    /\ UNCHANGED <<mu, slibMu, weak, manager, backendMap, held, out, local,
                   stage, key, dropped>>

DrainDone(t) ==
    /\ pc[t] = "drain"
    /\ \A l \in Libs : backendMap[draining[t]][l] = None
    /\ draining' = [draining EXCEPT ![t] = None]
    /\ pc' = [pc EXCEPT ![t] = "idle"]
    /\ UNCHANGED <<mu, slibMu, weak, manager, backendMap, held, out, local,
                   stage, key, dropped>>

-----------------------------------------------------------------------------

\* What a thread starts of its own accord.
Call(t) ==
    \/ CreateManager(t)
    \/ \E r \in Requests : ReuseBackend(t, r) \/ BeginCreate(t, r)
    \/ \E b \in Backends : ReleaseBackend(t, b) \/ AcquireModelInit(t, b)
    \/ ReleaseManager(t)

\* What goes on by itself once a call has begun.
Continue(t) ==
    \/ AcquireLoad(t) \/ LoadSucceeds(t) \/ LoadFails(t)
    \/ SkipInit(t) \/ AcquireInit(t) \/ InitSucceeds(t) \/ InitFails(t)
    \/ UpdateAttributes(t) \/ Publish(t) \/ FailedFinalized(t) \/ DropOut(t)
    \/ ModelInitEnds(t)
    \/ ReleaseFinalized(t)
    \/ \E l \in Libs : DrainEntry(t, l)
    \/ DrainFinalized(t) \/ DrainDone(t)

Next == \E t \in Threads : Call(t) \/ Continue(t)

Spec == Init /\ [][Next]_vars

\* A call that has begun goes on: threads are scheduled, the loader and the
\* library's own functions return.  Of a mutex only this is assumed: it is not
\* free for ever while a thread waits for it.  A thread that others overtake
\* again and again may wait for ever: AcquireLoad and AcquireInit are disabled
\* whenever the lock is taken, so weak fairness does not give them a turn.
FairSpec == Spec /\ \A t \in Threads : WF_vars(Continue(t))

-----------------------------------------------------------------------------
\* Properties.

\* Every variable has its type.
TypeOK ==
    /\ mu \in Threads \cup {None}
    /\ slibMu \in Threads \cup {None}
    /\ weak \in Managers \cup {None}
    /\ manager \in [Threads -> Managers \cup {None}]
    /\ backendMap \in [Managers -> [Libs -> Backends \cup {None}]]
    /\ held \in [Threads -> SUBSET Backends]
    /\ out \in [Threads -> Backends \cup {None}]
    /\ local \in [Threads -> Backends \cup {None}]
    /\ pc \in [Threads -> PCs]
    /\ draining \in [Threads -> Managers \cup {None}]
    /\ stage \in [Backends -> Stages]
    /\ key \in [Backends -> Requests \cup {None}]
    /\ dropped \in BOOLEAN

\* BackendManager::Create hands out one manager: threads that hold a manager
\* all hold the live one, even while the destructor of an older one runs.
OneLiveManager == \A t \in Threads : manager[t] # None => manager[t] = weak

\* mu_ is held by the one thread inside Backend::Create.  The loader lock is
\* held by that thread, around the loader and BACKEND_Initialize, or without
\* mu_ by a thread that initializes a model, which then waits for no lock:
\* the order is mu_ before the loader lock, and the two cannot deadlock.
LockNesting ==
    /\ \A t \in Threads : mu = t <=> pc[t] \in CreatingPCs
    /\ \A t \in Threads : slibMu = t <=> pc[t] \in LoaderPCs
    /\ slibMu \in {None, mu} \/ pc[slibMu] = "modelInit"

\* Nothing but a completely loaded, initialized and attributed backend is ever
\* visible outside its own creation, and a registry entry is an object of
\* that library: a failing, a half-built or a finalized one is unreachable.
ReferencedUsable ==
    /\ \A b \in Backends : Referenced(b) => stage[b] = "ready"
    /\ \A m \in Managers, l \in Libs :
          backendMap[m][l] # None => key[backendMap[m][l]].lib = l

\* No object leaks and none is destroyed twice: one that exists is either
\* referenced, or in the hands of exactly one thread that is creating or
\* finalizing it.
NoLeak ==
    \A b \in Backends : stage[b] # "none" =>
        \/ Referenced(b) /\ \A t \in Threads : local[t] # b
        \/ ~Referenced(b) /\ \E t \in Threads :
              local[t] = b /\ \A u \in Threads \ {t} : local[u] # b

\* The mismatched backend that CreateBackend leaves in the caller's output
\* argument is also registered with a manager the caller keeps alive, until
\* the argument goes: neither Backend::Create replacing it under mu_ nor the
\* failed load dropping it after mu_ was released ends a backend.
MismatchRegistered ==
    \A t \in Threads : out[t] # None =>
        \E l \in Libs : backendMap[manager[t]][l] = out[t]

\* While some thread holds a manager, an entry of its map is never removed or
\* replaced, whatever is created under other names for the same library.
EntriesStable ==
    [][\A m \in Managers, l \in Libs :
          (backendMap[m][l] # None /\ weak = m /\ weak' = m)
              => backendMap'[m][l] = backendMap[m][l]]_vars

-----------------------------------------------------------------------------
\* The inductive invariant behind the safety properties.

\* Where a thread is in its call decides what it owns.
Control ==
    /\ LockNesting
    /\ \A t \in Threads :
          /\ pc[t] \in CreatingPCs \cup {"failed"} => manager[t] # None
          /\ local[t] # None <=> pc[t] \in CreatingPCs \cup FiniPCs
          /\ draining[t] # None <=> pc[t] \in DrainPCs
          /\ out[t] # None => pc[t] \in CreatingPCs \cup {"failed"}

\* A manager that is being destroyed is not the live one, and one that is
\* neither held nor being destroyed has an empty map.
ManagerLife ==
    /\ OneLiveManager
    /\ \A t \in Threads : draining[t] # None => draining[t] # weak
    /\ \A m \in Managers, l \in Libs :
          backendMap[m][l] # None => ~FreeManager(m)

\* The stage of the object in a thread's hands follows the thread's position.
LocalStage ==
    \A t \in Threads :
        /\ pc[t] \in {"load", "opening"} => stage[local[t]] = "constructed"
        /\ pc[t] \in {"loaded", "initializing", "attributes"}
              => stage[local[t]] = "loaded"
        /\ pc[t] = "publish" => stage[local[t]] = "ready"
        /\ pc[t] \in FiniPCs => stage[local[t]] = "finalizing"

\* An object in a thread's hands is nobody else's; any other is referenced.
Ownership ==
    /\ \A t, u \in Threads : local[t] # None /\ local[t] = local[u] => t = u
    /\ \A t \in Threads, b \in Backends : local[t] = b => ~Referenced(b)
    /\ \A b \in Backends : stage[b] # "none" =>
          Referenced(b) \/ \E t \in Threads : local[t] = b
    /\ \A b \in Backends : key[b] = None <=> stage[b] = "none"

IInv == /\ TypeOK
        /\ Control
        /\ ManagerLife
        /\ LocalStage
        /\ Ownership
        /\ ReferencedUsable
        /\ MismatchRegistered

-----------------------------------------------------------------------------
\* What needs one name per library, and what the code's comments promise.

\* The library of an object that exists at all.
LibraryInUse(b, l) == stage[b] # "none" /\ key[b].lib = l

\* A library that is asked for under one name only.
AskedOnce(l) == \A q, r \in Requests : q.lib = l /\ r.lib = l => q = r

\* As long as the manager is kept, as the server keeps it, a library that is
\* asked for under one name has at most one Backend object: BACKEND_Initialize
\* never runs while the library serves models or is being finalized.
OneObjectPerLibrary ==
    ~dropped => \A l \in Libs : AskedOnce(l) =>
        \A b, c \in Backends : LibraryInUse(b, l) /\ LibraryInUse(c, l) => b = c

\* Its inductive form: every such object is the live manager's entry for its
\* library, or is being created (or thrown away) while there is no entry yet.
Sole(b) ==
    /\ weak # None
    /\ \/ backendMap[weak][key[b].lib] = b
       \/ /\ backendMap[weak][key[b].lib] = None
          /\ \E t \in Threads : pc[t] \in CreatingPCs /\ local[t] = b

SoleObjects ==
    ~dropped =>
        /\ \A t \in Threads : draining[t] = None
        /\ \A b \in Backends :
              stage[b] # "none" /\ AskedOnce(key[b].lib) => Sole(b)


\* mu_, under which a library is loaded and initialized, is given back, unless
\* model initializations of other threads take the loader lock again and again
\* for ever: an overtaken thread is the only way to wait, never a deadlock.
\* Where model initialization takes no lock mu_ is always given back.
CreateTerminates ==
    \A t \in Threads :
        \/ mu = t ~> mu # t
        \/ /\ []<>(\E u \in Threads \ {t} : pc[u] = "modelInit")
           /\ []<>(slibMu = None)

\* The destructor of a manager ends, and with it its last backends' finalizers.
DrainTerminates == \A t \in Threads : pc[t] \in DrainPCs ~> pc[t] = "idle"
=============================================================================
