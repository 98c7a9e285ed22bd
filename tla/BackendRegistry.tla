--------------------------- MODULE BackendRegistry ---------------------------
(***************************************************************************)
(* What the backend registry promises to its callers, without locks, calls *)
(* in progress or managers: a call that hands out a backend takes effect   *)
(* at once, and a backend is finalized once, after its last user is gone.  *)
(* BackendManager implements it.                                           *)
(***************************************************************************)
CONSTANTS Threads, Backends, Libs, Requests, FiniLibs, ManagerReleasable, None

VARIABLES
    users,      \* the threads that have joined the registry
    registry,   \* registry[l]: the backend registered for library l
    models,     \* models[t]: the backends in use by models of t
    leftover,   \* backends of registries that are being torn down
    life,       \* life[b]: "absent", "usable" or "finalizing"
    identity    \* identity[b]: the (name, lib) b was made for

vars == <<users, registry, models, leftover, life, identity>>

Registered(b) == \E l \in Libs : registry[l] = b
InUse(b) == Registered(b) \/ b \in leftover \/ \E t \in Threads : b \in models[t]

Init ==
    /\ users = {}
    /\ registry = [l \in Libs |-> None]
    /\ models = [t \in Threads |-> {}]
    /\ leftover = {}
    /\ life = [b \in Backends |-> "absent"]
    /\ identity = [b \in Backends |-> None]

Join(t) ==
    /\ users' = users \cup {t}
    /\ UNCHANGED <<registry, models, leftover, life, identity>>

\* The registered backend of the library was made under the same name.
Serves(r) == registry[r.lib] # None /\ identity[registry[r.lib]] = r

\* Mutant: a backend is shared under whatever name it was made for.
ShareAnyName(t, r) ==
    /\ t \in users
    /\ registry[r.lib] # None
    /\ models' = [models EXCEPT ![t] = @ \cup {registry[r.lib]}]
    /\ UNCHANGED <<users, registry, leftover, life, identity>>

\* The backend registered for the library is handed out to one more model.
Share(t, r) ==
    /\ t \in users
    /\ Serves(r)
    /\ models' = [models EXCEPT ![t] = @ \cup {registry[r.lib]}]
    /\ UNCHANGED <<users, registry, leftover, life, identity>>

\* Otherwise a new one is, and it takes the library's place if that is free.
Add(t, r, b) ==
    /\ t \in users
    /\ life[b] = "absent"
    /\ ~Serves(r)
    /\ life' = [life EXCEPT ![b] = "usable"]
    /\ identity' = [identity EXCEPT ![b] = r]
    /\ models' = [models EXCEPT ![t] = @ \cup {b}]
    /\ registry' = [registry EXCEPT ![r.lib] = IF @ = None THEN b ELSE @]
    /\ UNCHANGED <<users, leftover>>

\* A user of b is gone; the last one starts the end of b.
Dropped(b) ==
    IF InUse(b)' THEN UNCHANGED <<life, identity>>
    ELSE IF identity[b].lib \in FiniLibs
    THEN /\ life' = [life EXCEPT ![b] = "finalizing"]
         /\ UNCHANGED identity
    ELSE /\ life' = [life EXCEPT ![b] = "absent"]
         /\ identity' = [identity EXCEPT ![b] = None]

Release(t, b) ==
    /\ b \in models[t]
    /\ models' = [models EXCEPT ![t] = @ \ {b}]
    /\ UNCHANGED <<users, registry, leftover>>
    /\ Dropped(b)

\* With the last user goes the registry; its backends are let go one by one.
Leave(t) ==
    /\ ManagerReleasable
    /\ t \in users
    /\ users' = users \ {t}
    /\ \/ users' # {} /\ UNCHANGED <<registry, leftover>>
       \/ /\ users' = {}
          /\ registry' = [l \in Libs |-> None]
          /\ leftover' = leftover \cup {b \in Backends : Registered(b)}
    /\ UNCHANGED <<models, life, identity>>

LetGo(b) ==
    /\ b \in leftover
    /\ leftover' = leftover \ {b}
    /\ UNCHANGED <<users, registry, models>>
    /\ Dropped(b)

Finalized(b) ==
    /\ life[b] = "finalizing"
    /\ life' = [life EXCEPT ![b] = "absent"]
    /\ identity' = [identity EXCEPT ![b] = None]
    /\ UNCHANGED <<users, registry, models, leftover>>

Next ==
    \/ \E t \in Threads :
          \/ Join(t) \/ Leave(t)
          \/ \E r \in Requests :
                Share(t, r) \/ \E b \in Backends : Add(t, r, b)
          \/ \E b \in Backends : Release(t, b)
    \/ \E b \in Backends : LetGo(b) \/ Finalized(b)

Spec == Init /\ [][Next]_vars

\* The library's own functions return, and a torn-down registry is emptied.
FairSpec == Spec /\ \A b \in Backends : WF_vars(LetGo(b)) /\ WF_vars(Finalized(b))
=============================================================================
