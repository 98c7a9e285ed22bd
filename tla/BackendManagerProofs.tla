------------------------ MODULE BackendManagerProofs ------------------------
(***************************************************************************)
(* Proofs about BackendManager, for every value of its constants: first    *)
(* its invariants, then that it implements BackendRegistry, with its       *)
(* locks, its calls in progress and its destructors: each step is one step *)
(* of the registry, or none.                                               *)
(***************************************************************************)
EXTENDS BackendManagerRefines, TLAPS

USE ConstantsAssumption

\* Dropping a reference to an object, or destroying it, keeps the types.
LEMMA DestroyTypes ==
    ASSUME TypeOK, NEW t \in Threads, NEW b \in Backends \cup {None},
           NEW running \in PCs, NEW done \in PCs,
           Destroy(t, b, running, done)
    PROVE  /\ local' \in [Threads -> Backends \cup {None}]
           /\ pc' \in [Threads -> PCs]
           /\ stage' \in [Backends -> Stages]
           /\ key' \in [Backends -> Requests \cup {None}]
<1>1. /\ "none" \in Stages
      /\ "finalizing" \in Stages
  BY DEF Stages
<1>2. CASE Gone(t, b) /\ pc' = [pc EXCEPT ![t] = done]
  BY <1>1, <1>2 DEF TypeOK, Gone
<1>3. CASE /\ stage' = [stage EXCEPT ![b] = "finalizing"]
           /\ local' = [local EXCEPT ![t] = b]
           /\ pc' = [pc EXCEPT ![t] = running]
           /\ UNCHANGED key
  BY <1>1, <1>3 DEF TypeOK
<1> QED
  BY <1>2, <1>3 DEF Destroy

LEMMA UnreferenceTypes ==
    ASSUME TypeOK, NEW t \in Threads, NEW b \in Backends,
           NEW running \in PCs, NEW done \in PCs,
           Unreference(t, b, running, done)
    PROVE  /\ local' \in [Threads -> Backends \cup {None}]
           /\ pc' \in [Threads -> PCs]
           /\ stage' \in [Backends -> Stages]
           /\ key' \in [Backends -> Requests \cup {None}]
<1>1. CASE Destroy(t, b, running, done)
  BY <1>1, DestroyTypes
<1>2. CASE /\ pc' = [pc EXCEPT ![t] = done]
           /\ UNCHANGED <<local, stage, key>>
  BY <1>2 DEF TypeOK
<1> QED
  BY <1>1, <1>2 DEF Unreference

LEMMA TypesStep ==
    ASSUME TypeOK, Control, [Next]_vars PROVE TypeOK'
<1>1. CASE UNCHANGED vars
  BY <1>1 DEF vars, TypeOK
<1>2. ASSUME NEW t \in Threads, CreateManager(t) PROVE TypeOK'
  <2>1. manager' \in [Threads -> Managers \cup {None}]
    BY <1>2 DEF CreateManager, TypeOK
  <2>2. backendMap' \in [Managers -> [Libs -> Backends \cup {None}]]
    <3> DEFINE none == [l \in Libs |-> None]
    <3>1. none \in [Libs -> Backends \cup {None}]
      OBVIOUS
    <3>2. CASE \E m \in Managers : backendMap' = [backendMap EXCEPT ![m] = none]
      <4> HIDE DEF none
      <4> QED
        BY <3>1, <3>2 DEF TypeOK
    <3>3. CASE backendMap' = backendMap
      BY <3>3 DEF TypeOK
    <3> QED
      BY <1>2, <3>2, <3>3 DEF CreateManager
  <2>3. weak' \in Managers \cup {None}
    BY <1>2 DEF CreateManager, TypeOK
  <2> QED
    BY <1>2, <2>1, <2>2, <2>3 DEF CreateManager, TypeOK
<1>3. ASSUME NEW t \in Threads, NEW r \in Requests, ReuseBackend(t, r)
      PROVE TypeOK'
  BY <1>3 DEF ReuseBackend, MayCreate, Matches,
     TypeOK, PCs, Stages, CreatingPCs, DrainPCs
<1>4. ASSUME NEW t \in Threads, NEW r \in Requests, BeginCreate(t, r)
      PROVE TypeOK'
  BY <1>4 DEF BeginCreate, MayCreate,
     TypeOK, PCs, Stages, CreatingPCs, DrainPCs
<1>5. ASSUME NEW t \in Threads, NEW b \in Backends, ReleaseBackend(t, b)
      PROVE TypeOK'
  <2>1. Unreference(t, b, "fini", "idle")
    BY <1>5 DEF ReleaseBackend
  <2>2. "fini" \in PCs /\ "idle" \in PCs
    BY DEF PCs
  <2> QED
    BY <1>5, <2>1, <2>2, UnreferenceTypes DEF TypeOK, ReleaseBackend
<1>6. ASSUME NEW t \in Threads, ReleaseManager(t) PROVE TypeOK'
  BY <1>6 DEF ReleaseManager,
     TypeOK, PCs, Stages, CreatingPCs, DrainPCs
<1>7. ASSUME NEW t \in Threads, AcquireLoad(t) PROVE TypeOK'
  BY <1>7 DEF AcquireLoad,
     TypeOK, PCs, Stages, CreatingPCs, DrainPCs
<1>8. ASSUME NEW t \in Threads, LoadSucceeds(t) PROVE TypeOK'
  BY <1>8 DEF LoadSucceeds,
     TypeOK, PCs, Stages, CreatingPCs, DrainPCs
<1>9. ASSUME NEW t \in Threads, LoadFails(t) PROVE TypeOK'
  <2>1. Destroy(t, local[t], "failFini", "failed")
    BY <1>9 DEF LoadFails, FailCreate
  <2>2. "failFini" \in PCs /\ "failed" \in PCs
    BY DEF PCs, CreatingPCs
  <2>3. local[t] \in Backends \cup {None}
    BY DEF TypeOK
  <2> QED
    BY <1>9, <2>1, <2>2, <2>3, DestroyTypes DEF TypeOK, LoadFails, FailCreate
<1>10. ASSUME NEW t \in Threads, SkipInit(t) PROVE TypeOK'
  BY <1>10 DEF SkipInit,
     TypeOK, PCs, Stages, CreatingPCs, DrainPCs
<1>11. ASSUME NEW t \in Threads, AcquireInit(t) PROVE TypeOK'
  BY <1>11 DEF AcquireInit,
     TypeOK, PCs, Stages, CreatingPCs, DrainPCs
<1>12. ASSUME NEW t \in Threads, InitSucceeds(t) PROVE TypeOK'
  BY <1>12 DEF InitSucceeds,
     TypeOK, PCs, Stages, CreatingPCs, DrainPCs
<1>13. ASSUME NEW t \in Threads, InitFails(t) PROVE TypeOK'
  <2>1. Destroy(t, local[t], "failFini", "failed")
    BY <1>13 DEF InitFails, FailCreate
  <2>2. "failFini" \in PCs /\ "failed" \in PCs
    BY DEF PCs, CreatingPCs
  <2>3. local[t] \in Backends \cup {None}
    BY DEF TypeOK
  <2> QED
    BY <1>13, <2>1, <2>2, <2>3, DestroyTypes DEF TypeOK, InitFails, FailCreate
<1>14. ASSUME NEW t \in Threads, UpdateAttributes(t) PROVE TypeOK'
  BY <1>14 DEF UpdateAttributes,
     TypeOK, PCs, Stages, CreatingPCs, DrainPCs
<1>15. ASSUME NEW t \in Threads, Publish(t) PROVE TypeOK'
  <2>1. backendMap' \in [Managers -> [Libs -> Backends \cup {None}]]
    <3> DEFINE m == manager[t]
               l == key[local[t]].lib
               e == IF backendMap[m][l] = None THEN local[t]
                    ELSE backendMap[m][l]
    <3>1. backendMap' = [backendMap EXCEPT ![m] =
                            [backendMap[m] EXCEPT ![l] = e]]
      BY <1>15 DEF Publish, Inserted
    <3>2. CASE m \in Managers /\ l \in Libs
      <4>1. e \in Backends \cup {None}
        BY <3>2 DEF TypeOK
      <4> HIDE DEF e
      <4> QED
        BY <3>1, <3>2, <4>1 DEF TypeOK
    <3>3. CASE m \notin Managers
      BY <3>1, <3>3 DEF TypeOK
    <3>4. CASE m \in Managers /\ l \notin Libs
      <4> DEFINE f == backendMap[m]
                 g == [f EXCEPT ![l] = e]
      <4>1. f \in [Libs -> Backends \cup {None}]
        BY <3>4 DEF TypeOK
      <4>2. g \in [Libs -> Backends \cup {None}]
        <5> HIDE DEF f, l, e
        <5> QED
          BY <4>1, <3>4
      <4>3. backendMap' = [backendMap EXCEPT ![m] = g]
        BY <3>1
      <4> HIDE DEF g
      <4> QED
        BY <4>2, <4>3, <3>4 DEF TypeOK
    <3> QED
      BY <3>2, <3>3, <3>4
  <2>2. held' \in [Threads -> SUBSET Backends]
    <3>1. local[t] \in Backends
      BY <1>15 DEF TypeOK, Control, Publish, CreatingPCs
    <3> QED
      BY <1>15, <3>1 DEF TypeOK, Publish
  <2> QED
    BY <1>15, <2>1, <2>2 DEF TypeOK, Publish, PCs
<1>16. ASSUME NEW t \in Threads, FailedFinalized(t) PROVE TypeOK'
  BY <1>16 DEF FailedFinalized, Gone,
     TypeOK, PCs, Stages, CreatingPCs, DrainPCs
<1>17. ASSUME NEW t \in Threads, ReleaseFinalized(t) PROVE TypeOK'
  BY <1>17 DEF ReleaseFinalized, Gone,
     TypeOK, PCs, Stages, CreatingPCs, DrainPCs
<1>18. ASSUME NEW t \in Threads, NEW l \in Libs, DrainEntry(t, l)
       PROVE TypeOK'
  <2>1. PICK b \in Backends : Unreference(t, b, "drainFini", "drain")
    BY <1>18 DEF DrainEntry
  <2>2. "drainFini" \in PCs /\ "drain" \in PCs
    BY DEF PCs, DrainPCs
  <2> QED
    BY <1>18, <2>1, <2>2, UnreferenceTypes DEF TypeOK, DrainEntry
<1>19. ASSUME NEW t \in Threads, DrainFinalized(t) PROVE TypeOK'
  BY <1>19 DEF DrainFinalized, Gone,
     TypeOK, PCs, Stages, CreatingPCs, DrainPCs
<1>20. ASSUME NEW t \in Threads, DrainDone(t) PROVE TypeOK'
  BY <1>20 DEF DrainDone,
     TypeOK, PCs, Stages, CreatingPCs, DrainPCs
<1>21. ASSUME NEW t \in Threads, DropOut(t) PROVE TypeOK'
  <2>1. out' \in [Threads -> Backends \cup {None}] /\ "idle" \in PCs /\ "fini" \in PCs
    BY <1>21 DEF DropOut, TypeOK, PCs
  <2>2. CASE /\ pc' = [pc EXCEPT ![t] = "idle"]
             /\ UNCHANGED <<local, stage, key>>
    BY <1>21, <2>1, <2>2 DEF DropOut, TypeOK
  <2>3. CASE \E b \in Backends : Unreference(t, b, "fini", "idle")
    BY <1>21, <2>1, <2>3, UnreferenceTypes DEF TypeOK, DropOut
  <2> QED
    BY <1>21, <2>2, <2>3 DEF DropOut
<1>22. ASSUME NEW t \in Threads, NEW b \in Backends, AcquireModelInit(t, b)
       PROVE  TypeOK'
  BY <1>22 DEF AcquireModelInit,
     TypeOK, PCs, Stages, CreatingPCs, DrainPCs
<1>23. ASSUME NEW t \in Threads, ModelInitEnds(t) PROVE TypeOK'
  BY <1>23 DEF ModelInitEnds,
     TypeOK, PCs, Stages, CreatingPCs, DrainPCs
<1> QED
  BY <1>1, <1>2, <1>3, <1>4, <1>5, <1>6, <1>7, <1>8, <1>9, <1>10, <1>11,
     <1>12, <1>13, <1>14, <1>15, <1>16, <1>17, <1>18, <1>19, <1>20,
     <1>21, <1>22, <1>23
     DEF Next, Call, Continue
LEMMA ControlStep ==
    ASSUME TypeOK, Control, [Next]_vars PROVE Control'
<1>1. CASE UNCHANGED vars
  BY <1>1 DEF vars, TypeOK, Control, LockNesting, CreatingPCs, LoaderPCs,
     DrainPCs, FiniPCs, PCs
<1>2. ASSUME NEW t \in Threads, CreateManager(t) PROVE Control'
  BY <1>2 DEF CreateManager, TypeOK, Control, LockNesting, CreatingPCs,
     LoaderPCs, DrainPCs, FiniPCs, PCs
<1>3. ASSUME NEW t \in Threads, NEW r \in Requests, ReuseBackend(t, r)
      PROVE  Control'
  BY <1>3 DEF ReuseBackend, MayCreate, TypeOK, Control, LockNesting,
     CreatingPCs, LoaderPCs, DrainPCs, FiniPCs, PCs
<1>4. ASSUME NEW t \in Threads, NEW r \in Requests, BeginCreate(t, r)
      PROVE  Control'
  BY <1>4 DEF BeginCreate, MayCreate, TypeOK, Control, LockNesting,
     CreatingPCs, LoaderPCs, DrainPCs, FiniPCs, PCs
<1>5. ASSUME NEW t \in Threads, NEW b \in Backends, ReleaseBackend(t, b)
      PROVE  Control'
  BY <1>5 DEF ReleaseBackend, Unreference, Destroy, Gone, TypeOK, Control,
     LockNesting, CreatingPCs, LoaderPCs, DrainPCs, FiniPCs, PCs
<1>6. ASSUME NEW t \in Threads, ReleaseManager(t) PROVE Control'
  BY <1>6 DEF ReleaseManager, TypeOK, Control, LockNesting, CreatingPCs,
     LoaderPCs, DrainPCs, FiniPCs, PCs
<1>7. ASSUME NEW t \in Threads, AcquireLoad(t) PROVE Control'
  BY <1>7 DEF AcquireLoad, TypeOK, Control, LockNesting, CreatingPCs,
     LoaderPCs, DrainPCs, FiniPCs, PCs
<1>8. ASSUME NEW t \in Threads, LoadSucceeds(t) PROVE Control'
  BY <1>8 DEF LoadSucceeds, TypeOK, Control, LockNesting, CreatingPCs,
     LoaderPCs, DrainPCs, FiniPCs, PCs
<1>9. ASSUME NEW t \in Threads, LoadFails(t) PROVE Control'
  <2>1. /\ slibMu' = None
        /\ UNCHANGED <<manager, draining, out>>
        /\ mu = t
    BY <1>9 DEF LoadFails, FailCreate, TypeOK, Control, LockNesting,
       CreatingPCs, LoaderPCs, DrainPCs,
       FiniPCs, PCs
  <2>2. CASE /\ local' = [local EXCEPT ![t] = local[t]]
             /\ pc' = [pc EXCEPT ![t] = "failFini"]
    <3>1. mu' = t
      BY <1>9, <2>2 DEF LoadFails, FailCreate, TypeOK
    <3> QED
      BY <1>9, <2>1, <2>2, <3>1 DEF LoadFails, TypeOK, Control, LockNesting,
         CreatingPCs, LoaderPCs, DrainPCs,
       FiniPCs, PCs
  <2>3. CASE /\ local' = [local EXCEPT ![t] = None]
             /\ pc' = [pc EXCEPT ![t] = "failed"]
    <3>1. mu' = None
      BY <1>9, <2>3 DEF LoadFails, FailCreate, TypeOK
    <3> QED
      BY <1>9, <2>1, <2>3, <3>1 DEF LoadFails, TypeOK, Control, LockNesting,
         CreatingPCs, LoaderPCs, DrainPCs,
       FiniPCs, PCs
  <2> QED
    BY <1>9, <2>2, <2>3 DEF LoadFails, FailCreate, Destroy, Gone
<1>10. ASSUME NEW t \in Threads, SkipInit(t) PROVE Control'
  BY <1>10 DEF SkipInit, TypeOK, Control, LockNesting, CreatingPCs, LoaderPCs,
     DrainPCs, FiniPCs, PCs
<1>11. ASSUME NEW t \in Threads, AcquireInit(t) PROVE Control'
  BY <1>11 DEF AcquireInit, TypeOK, Control, LockNesting, CreatingPCs,
     LoaderPCs, DrainPCs, FiniPCs, PCs
<1>12. ASSUME NEW t \in Threads, InitSucceeds(t) PROVE Control'
  BY <1>12 DEF InitSucceeds, TypeOK, Control, LockNesting, CreatingPCs,
     LoaderPCs, DrainPCs, FiniPCs, PCs
<1>13. ASSUME NEW t \in Threads, InitFails(t) PROVE Control'
  <2>1. /\ slibMu' = None
        /\ UNCHANGED <<manager, draining, out>>
        /\ mu = t
    BY <1>13 DEF InitFails, FailCreate, TypeOK, Control, LockNesting,
       CreatingPCs, LoaderPCs, DrainPCs,
       FiniPCs, PCs
  <2>2. CASE /\ local' = [local EXCEPT ![t] = local[t]]
             /\ pc' = [pc EXCEPT ![t] = "failFini"]
    <3>1. mu' = t
      BY <1>13, <2>2 DEF InitFails, FailCreate, TypeOK
    <3> QED
      BY <1>13, <2>1, <2>2, <3>1 DEF InitFails, TypeOK, Control, LockNesting,
         CreatingPCs, LoaderPCs, DrainPCs,
       FiniPCs, PCs
  <2>3. CASE /\ local' = [local EXCEPT ![t] = None]
             /\ pc' = [pc EXCEPT ![t] = "failed"]
    <3>1. mu' = None
      BY <1>13, <2>3 DEF InitFails, FailCreate, TypeOK
    <3> QED
      BY <1>13, <2>1, <2>3, <3>1 DEF InitFails, TypeOK, Control, LockNesting,
         CreatingPCs, LoaderPCs, DrainPCs,
       FiniPCs, PCs
  <2> QED
    BY <1>13, <2>2, <2>3 DEF InitFails, FailCreate, Destroy, Gone
<1>14. ASSUME NEW t \in Threads, UpdateAttributes(t) PROVE Control'
  BY <1>14 DEF UpdateAttributes, TypeOK, Control, LockNesting, CreatingPCs,
     LoaderPCs, DrainPCs, FiniPCs, PCs
<1>15. ASSUME NEW t \in Threads, Publish(t) PROVE Control'
  BY <1>15 DEF Publish, TypeOK, Control, LockNesting, CreatingPCs, LoaderPCs,
     DrainPCs, FiniPCs, PCs
<1>16. ASSUME NEW t \in Threads, FailedFinalized(t) PROVE Control'
  BY <1>16 DEF FailedFinalized, Gone, TypeOK, Control, LockNesting,
     CreatingPCs, LoaderPCs, DrainPCs, FiniPCs, PCs
<1>17. ASSUME NEW t \in Threads, ReleaseFinalized(t) PROVE Control'
  BY <1>17 DEF ReleaseFinalized, Gone, TypeOK, Control, LockNesting,
     CreatingPCs, LoaderPCs, DrainPCs, FiniPCs, PCs
<1>18. ASSUME NEW t \in Threads, NEW l \in Libs, DrainEntry(t, l)
       PROVE  Control'
  <2>1. /\ pc[t] = "drain" /\ local[t] = None
        /\ UNCHANGED <<mu, slibMu, manager, out, draining>>
    BY <1>18 DEF DrainEntry, Control, CreatingPCs, FiniPCs
  <2>2. PICK b \in Backends : Unreference(t, b, "drainFini", "drain")
    BY <1>18 DEF DrainEntry
  <2>3. CASE /\ pc' = [pc EXCEPT ![t] = "drainFini"]
             /\ local' = [local EXCEPT ![t] = b]
    BY <2>1, <2>3 DEF TypeOK, Control, LockNesting, CreatingPCs, LoaderPCs,
       DrainPCs, FiniPCs, PCs
  <2>4. CASE /\ pc' = [pc EXCEPT ![t] = "drain"]
             /\ local' = local \/ local' = [local EXCEPT ![t] = None]
    <3>1. pc' = pc /\ local' = local
      BY <2>1, <2>4 DEF TypeOK
    <3> QED
      BY <2>1, <3>1 DEF Control, LockNesting
  <2> QED
    BY <2>2, <2>3, <2>4 DEF Unreference, Destroy, Gone
<1>19. ASSUME NEW t \in Threads, DrainFinalized(t) PROVE Control'
  BY <1>19 DEF DrainFinalized, Gone, TypeOK, Control, LockNesting, CreatingPCs,
     LoaderPCs, DrainPCs, FiniPCs, PCs
<1>20. ASSUME NEW t \in Threads, DrainDone(t) PROVE Control'
  BY <1>20 DEF DrainDone, TypeOK, Control, LockNesting, CreatingPCs, LoaderPCs,
     DrainPCs, FiniPCs, PCs
<1>21. ASSUME NEW t \in Threads, DropOut(t) PROVE Control'
  BY <1>21 DEF DropOut, Unreference, Destroy, Gone, TypeOK, Control,
     LockNesting, CreatingPCs, LoaderPCs, DrainPCs, FiniPCs, PCs
<1>22. ASSUME NEW t \in Threads, NEW b \in Backends, AcquireModelInit(t, b)
       PROVE  Control'
  BY <1>22 DEF AcquireModelInit, TypeOK, Control,
     LockNesting, CreatingPCs, LoaderPCs, DrainPCs, FiniPCs, PCs
<1>23. ASSUME NEW t \in Threads, ModelInitEnds(t) PROVE Control'
  BY <1>23 DEF ModelInitEnds, TypeOK, Control,
     LockNesting, CreatingPCs, LoaderPCs, DrainPCs, FiniPCs, PCs
<1> QED
  BY <1>1, <1>2, <1>3, <1>4, <1>5, <1>6, <1>7, <1>8, <1>9, <1>10, <1>11,
     <1>12, <1>13, <1>14, <1>15, <1>16, <1>17, <1>18, <1>19, <1>20,
     <1>21, <1>22, <1>23
     DEF Next, Call, Continue

LEMMA ManagerLifeStep ==
    ASSUME TypeOK, Control, ManagerLife, [Next]_vars PROVE ManagerLife'
<1>1. CASE UNCHANGED vars
  BY <1>1 DEF vars, TypeOK, Control, ManagerLife, OneLiveManager, FreeManager,
     CreatingPCs, DrainPCs
<1>2. ASSUME NEW t \in Threads, CreateManager(t) PROVE ManagerLife'
  BY <1>2 DEF CreateManager, TypeOK, Control, ManagerLife, OneLiveManager,
     FreeManager, CreatingPCs, DrainPCs
<1>3. ASSUME NEW t \in Threads, NEW r \in Requests, ReuseBackend(t, r)
      PROVE  ManagerLife'
  BY <1>3 DEF ReuseBackend, MayCreate, TypeOK, Control, ManagerLife,
     OneLiveManager, FreeManager, CreatingPCs, DrainPCs
<1>4. ASSUME NEW t \in Threads, NEW r \in Requests, BeginCreate(t, r)
      PROVE  ManagerLife'
  BY <1>4 DEF BeginCreate, MayCreate, TypeOK, Control, ManagerLife,
     OneLiveManager, FreeManager, CreatingPCs, DrainPCs
<1>5. ASSUME NEW t \in Threads, NEW b \in Backends, ReleaseBackend(t, b)
      PROVE  ManagerLife'
  BY <1>5 DEF ReleaseBackend, Unreference, Destroy, Gone, TypeOK, Control,
     ManagerLife, OneLiveManager, FreeManager, CreatingPCs, DrainPCs
<1>6. ASSUME NEW t \in Threads, ReleaseManager(t) PROVE ManagerLife'
  BY <1>6 DEF ReleaseManager, TypeOK, Control, ManagerLife, OneLiveManager,
     FreeManager, CreatingPCs, DrainPCs
<1>7. ASSUME NEW t \in Threads, AcquireLoad(t) PROVE ManagerLife'
  BY <1>7 DEF AcquireLoad, TypeOK, Control, ManagerLife, OneLiveManager,
     FreeManager, CreatingPCs, DrainPCs
<1>8. ASSUME NEW t \in Threads, LoadSucceeds(t) PROVE ManagerLife'
  BY <1>8 DEF LoadSucceeds, TypeOK, Control, ManagerLife, OneLiveManager,
     FreeManager, CreatingPCs, DrainPCs
<1>9. ASSUME NEW t \in Threads, LoadFails(t) PROVE ManagerLife'
  BY <1>9 DEF LoadFails, FailCreate, Destroy, Gone, TypeOK, Control,
     ManagerLife, OneLiveManager, FreeManager, CreatingPCs, DrainPCs
<1>10. ASSUME NEW t \in Threads, SkipInit(t) PROVE ManagerLife'
  BY <1>10 DEF SkipInit, TypeOK, Control, ManagerLife, OneLiveManager,
     FreeManager, CreatingPCs, DrainPCs
<1>11. ASSUME NEW t \in Threads, AcquireInit(t) PROVE ManagerLife'
  BY <1>11 DEF AcquireInit, TypeOK, Control, ManagerLife, OneLiveManager,
     FreeManager, CreatingPCs, DrainPCs
<1>12. ASSUME NEW t \in Threads, InitSucceeds(t) PROVE ManagerLife'
  BY <1>12 DEF InitSucceeds, TypeOK, Control, ManagerLife, OneLiveManager,
     FreeManager, CreatingPCs, DrainPCs
<1>13. ASSUME NEW t \in Threads, InitFails(t) PROVE ManagerLife'
  BY <1>13 DEF InitFails, FailCreate, Destroy, Gone, TypeOK, Control,
     ManagerLife, OneLiveManager, FreeManager, CreatingPCs, DrainPCs
<1>14. ASSUME NEW t \in Threads, UpdateAttributes(t) PROVE ManagerLife'
  BY <1>14 DEF UpdateAttributes, TypeOK, Control, ManagerLife, OneLiveManager,
     FreeManager, CreatingPCs, DrainPCs
<1>15. ASSUME NEW t \in Threads, Publish(t) PROVE ManagerLife'
  <2>1. UNCHANGED <<manager, weak, draining>>
    BY <1>15 DEF Publish
  <2>2. manager[t] \in Managers
    BY <1>15 DEF Publish, TypeOK, Control, CreatingPCs
  <2>3. ASSUME NEW m \in Managers, NEW l \in Libs, backendMap'[m][l] # None
        PROVE  ~FreeManager(m)'
    <3>1. CASE m = manager[t]
      BY <2>1, <3>1 DEF FreeManager
    <3>2. CASE m # manager[t]
      <4>1. backendMap'[m] = backendMap[m]
        BY <1>15, <2>2, <3>2 DEF Publish, Inserted, TypeOK
      <4> QED
        BY <2>1, <2>3, <4>1 DEF ManagerLife, FreeManager
    <3> QED
      BY <3>1, <3>2
  <2> QED
    BY <2>1, <2>3 DEF ManagerLife, OneLiveManager
<1>16. ASSUME NEW t \in Threads, FailedFinalized(t) PROVE ManagerLife'
  BY <1>16 DEF FailedFinalized, Gone, TypeOK, Control, ManagerLife,
     OneLiveManager, FreeManager, CreatingPCs, DrainPCs
<1>17. ASSUME NEW t \in Threads, ReleaseFinalized(t) PROVE ManagerLife'
  BY <1>17 DEF ReleaseFinalized, Gone, TypeOK, Control, ManagerLife,
     OneLiveManager, FreeManager, CreatingPCs, DrainPCs
<1>18. ASSUME NEW t \in Threads, NEW l \in Libs, DrainEntry(t, l)
       PROVE  ManagerLife'
  BY <1>18 DEF DrainEntry, Unreference, Destroy, Gone, TypeOK, Control,
     ManagerLife, OneLiveManager, FreeManager, CreatingPCs, DrainPCs
<1>19. ASSUME NEW t \in Threads, DrainFinalized(t) PROVE ManagerLife'
  BY <1>19 DEF DrainFinalized, Gone, TypeOK, Control, ManagerLife,
     OneLiveManager, FreeManager, CreatingPCs, DrainPCs
<1>20. ASSUME NEW t \in Threads, DrainDone(t) PROVE ManagerLife'
  BY <1>20 DEF DrainDone, TypeOK, Control, ManagerLife, OneLiveManager,
     FreeManager, CreatingPCs, DrainPCs
<1>21. ASSUME NEW t \in Threads, DropOut(t) PROVE ManagerLife'
  BY <1>21 DEF DropOut, Unreference, Destroy, Gone, TypeOK, Control,
     ManagerLife, OneLiveManager, FreeManager, CreatingPCs, DrainPCs
<1>22. ASSUME NEW t \in Threads, NEW b \in Backends, AcquireModelInit(t, b)
       PROVE  ManagerLife'
  BY <1>22 DEF AcquireModelInit, TypeOK, Control,
     ManagerLife, OneLiveManager, FreeManager, CreatingPCs, DrainPCs
<1>23. ASSUME NEW t \in Threads, ModelInitEnds(t) PROVE ManagerLife'
  BY <1>23 DEF ModelInitEnds, TypeOK, Control,
     ManagerLife, OneLiveManager, FreeManager, CreatingPCs, DrainPCs
<1> QED
  BY <1>1, <1>2, <1>3, <1>4, <1>5, <1>6, <1>7, <1>8, <1>9, <1>10, <1>11,
     <1>12, <1>13, <1>14, <1>15, <1>16, <1>17, <1>18, <1>19, <1>20,
     <1>21, <1>22, <1>23
     DEF Next, Call, Continue
\* The four ways an action can touch what is referenced and what exists.
LEMMA ReferencesUnchanged ==
    ASSUME \A m \in Managers, l \in Libs : backendMap'[m][l] = backendMap[m][l],
           UNCHANGED <<held, out>>
    PROVE  \A b \in Backends : Referenced(b)' <=> Referenced(b)
BY DEF Referenced, Registered

LEMMA OwnershipUntouched ==
    ASSUME Ownership,
           \A b \in Backends : Referenced(b)' <=> Referenced(b),
           UNCHANGED <<local, key>>,
           \A b \in Backends : stage'[b] = "none" <=> stage[b] = "none"
    PROVE  Ownership'
BY DEF Ownership

LEMMA OwnershipGone ==
    ASSUME TypeOK, Ownership, NEW t \in Threads, NEW b \in Backends,
           \A u \in Threads \ {t} : local[u] # b,
           local[t] \in {b, None},
           Gone(t, b),
           ~Referenced(b)',
           \A c \in Backends \ {b} : Referenced(c)' <=> Referenced(c)
    PROVE  Ownership'
<1>1. /\ local' = [local EXCEPT ![t] = None]
      /\ stage' = [stage EXCEPT ![b] = "none"]
      /\ key' = [key EXCEPT ![b] = None]
  BY DEF Gone
<1>2. \A u, v \in Threads : local'[u] # None /\ local'[u] = local'[v] => u = v
  BY <1>1 DEF TypeOK, Ownership
<1>3. \A u \in Threads, c \in Backends : local'[u] = c => ~Referenced(c)'
  BY <1>1 DEF TypeOK, Ownership
<1>4. \A c \in Backends : stage'[c] # "none" =>
          Referenced(c)' \/ \E u \in Threads : local'[u] = c
  BY <1>1 DEF TypeOK, Ownership
<1>5. \A c \in Backends : key'[c] = None <=> stage'[c] = "none"
  BY <1>1 DEF TypeOK, Ownership
<1> QED
  BY <1>2, <1>3, <1>4, <1>5 DEF Ownership

LEMMA OwnershipDestroyed ==
    ASSUME TypeOK, Ownership, NEW t \in Threads, NEW b \in Backends,
           NEW running, NEW done,
           \A u \in Threads \ {t} : local[u] # b,
           local[t] \in {b, None},
           stage[b] # "none",
           Destroy(t, b, running, done),
           ~Referenced(b)',
           \A c \in Backends \ {b} : Referenced(c)' <=> Referenced(c)
    PROVE  Ownership'
<1>1. CASE Gone(t, b)
  BY <1>1, OwnershipGone
<1>2. CASE /\ stage' = [stage EXCEPT ![b] = "finalizing"]
           /\ local' = [local EXCEPT ![t] = b]
           /\ UNCHANGED key
  <2>1. \A u, v \in Threads : local'[u] # None /\ local'[u] = local'[v] => u = v
    BY <1>2 DEF TypeOK, Ownership
  <2>2. \A u \in Threads, c \in Backends : local'[u] = c => ~Referenced(c)'
    BY <1>2 DEF TypeOK, Ownership
  <2>3. \A c \in Backends : stage'[c] # "none" =>
            Referenced(c)' \/ \E u \in Threads : local'[u] = c
    BY <1>2 DEF TypeOK, Ownership
  <2>4. \A c \in Backends : key'[c] = None <=> stage'[c] = "none"
    BY <1>2 DEF TypeOK, Ownership
  <2> QED
    BY <2>1, <2>2, <2>3, <2>4 DEF Ownership
<1> QED
  BY <1>1, <1>2 DEF Destroy

LEMMA LocalStageDestroyed ==
    ASSUME TypeOK, LocalStage, NEW t \in Threads, NEW b \in Backends,
           NEW running \in FiniPCs, NEW done \in {"idle", "drain", "failed"},
           \A u \in Threads \ {t} : local[u] # b,
           Destroy(t, b, running, done)
    PROVE  LocalStage'
<1>1. CASE Gone(t, b) /\ pc' = [pc EXCEPT ![t] = done]
  BY <1>1 DEF TypeOK, LocalStage, Gone, FiniPCs
<1>2. CASE /\ stage' = [stage EXCEPT ![b] = "finalizing"]
           /\ local' = [local EXCEPT ![t] = b]
           /\ pc' = [pc EXCEPT ![t] = running]
  BY <1>2 DEF TypeOK, LocalStage, FiniPCs
<1> QED
  BY <1>1, <1>2 DEF Destroy

LEMMA UnreferenceOwned ==
    ASSUME TypeOK, Ownership, NEW t \in Threads, NEW b \in Backends,
           NEW running, NEW done,
           Referenced(b), local[t] = None, stage[b] # "none",
           Unreference(t, b, running, done),
           \A c \in Backends \ {b} : Referenced(c)' <=> Referenced(c)
    PROVE  Ownership'
<1>1. \A u \in Threads : local[u] # b
  BY DEF Ownership
<1>2. CASE Referenced(b)' /\ UNCHANGED <<local, stage, key>>
  BY <1>2, OwnershipUntouched
<1>3. CASE ~Referenced(b)' /\ Destroy(t, b, running, done)
  BY <1>1, <1>3, OwnershipDestroyed
<1> QED
  BY <1>2, <1>3 DEF Unreference

LEMMA LocalStageStep ==
    ASSUME TypeOK, Control, LocalStage, Ownership, [Next]_vars
    PROVE  LocalStage'
<1>1. CASE UNCHANGED vars
  BY <1>1 DEF vars, TypeOK, Control, LocalStage, Ownership,
     CreatingPCs, FiniPCs, DrainPCs, PCs
<1>2. ASSUME NEW t \in Threads, CreateManager(t) PROVE LocalStage'
  BY <1>2 DEF CreateManager, TypeOK, Control, LocalStage, Ownership,
     CreatingPCs, FiniPCs, DrainPCs, PCs
<1>3. ASSUME NEW t \in Threads, NEW r \in Requests, ReuseBackend(t, r)
      PROVE  LocalStage'
  BY <1>3 DEF ReuseBackend, MayCreate, TypeOK, Control, LocalStage, Ownership,
     CreatingPCs, FiniPCs, DrainPCs, PCs
<1>4. ASSUME NEW t \in Threads, NEW r \in Requests, BeginCreate(t, r)
      PROVE  LocalStage'
  BY <1>4 DEF BeginCreate, MayCreate, TypeOK, Control, LocalStage, Ownership,
     CreatingPCs, FiniPCs, DrainPCs, PCs
<1>5. ASSUME NEW t \in Threads, NEW b \in Backends, ReleaseBackend(t, b)
      PROVE  LocalStage'
  <2>1. /\ Unreference(t, b, "fini", "idle")
        /\ Referenced(b)
    BY <1>5 DEF ReleaseBackend, Referenced
  <2>3. \A u \in Threads : local[u] # b
    BY <2>1 DEF Ownership
  <2>4. CASE Destroy(t, b, "fini", "idle")
    BY <2>3, <2>4, LocalStageDestroyed DEF FiniPCs
  <2>5. CASE /\ pc' = [pc EXCEPT ![t] = "idle"]
             /\ UNCHANGED <<local, stage, key>>
    BY <2>5 DEF TypeOK, LocalStage, FiniPCs
  <2> QED
    BY <2>1, <2>4, <2>5 DEF Unreference
<1>6. ASSUME NEW t \in Threads, ReleaseManager(t) PROVE LocalStage'
  BY <1>6 DEF ReleaseManager, TypeOK, Control, LocalStage, Ownership,
     CreatingPCs, FiniPCs, DrainPCs, PCs
<1>7. ASSUME NEW t \in Threads, AcquireLoad(t) PROVE LocalStage'
  BY <1>7 DEF AcquireLoad, TypeOK, Control, LocalStage, Ownership,
     CreatingPCs, FiniPCs, DrainPCs, PCs
<1>8. ASSUME NEW t \in Threads, LoadSucceeds(t) PROVE LocalStage'
  BY <1>8 DEF LoadSucceeds, TypeOK, Control, LocalStage, Ownership,
     CreatingPCs, FiniPCs, DrainPCs, PCs
<1>9. ASSUME NEW t \in Threads, LoadFails(t) PROVE LocalStage'
  <2>1. local[t] \in Backends
    BY <1>9 DEF LoadFails, TypeOK, Control, CreatingPCs
  <2>2. \A u \in Threads \ {t} : local[u] # local[t]
    BY <2>1 DEF Ownership, TypeOK
  <2>3. Destroy(t, local[t], "failFini", "failed")
    BY <1>9 DEF LoadFails, FailCreate
  <2> QED
    BY <2>1, <2>2, <2>3, LocalStageDestroyed DEF FiniPCs
<1>10. ASSUME NEW t \in Threads, SkipInit(t) PROVE LocalStage'
  BY <1>10 DEF SkipInit, TypeOK, Control, LocalStage, Ownership,
     CreatingPCs, FiniPCs, DrainPCs, PCs
<1>11. ASSUME NEW t \in Threads, AcquireInit(t) PROVE LocalStage'
  BY <1>11 DEF AcquireInit, TypeOK, Control, LocalStage, Ownership,
     CreatingPCs, FiniPCs, DrainPCs, PCs
<1>12. ASSUME NEW t \in Threads, InitSucceeds(t) PROVE LocalStage'
  BY <1>12 DEF InitSucceeds, TypeOK, Control, LocalStage, Ownership,
     CreatingPCs, FiniPCs, DrainPCs, PCs
<1>13. ASSUME NEW t \in Threads, InitFails(t) PROVE LocalStage'
  <2>1. local[t] \in Backends
    BY <1>13 DEF InitFails, TypeOK, Control, CreatingPCs
  <2>2. \A u \in Threads \ {t} : local[u] # local[t]
    BY <2>1 DEF Ownership, TypeOK
  <2>3. Destroy(t, local[t], "failFini", "failed")
    BY <1>13 DEF InitFails, FailCreate
  <2> QED
    BY <2>1, <2>2, <2>3, LocalStageDestroyed DEF FiniPCs
<1>14. ASSUME NEW t \in Threads, UpdateAttributes(t) PROVE LocalStage'
  BY <1>14 DEF UpdateAttributes, TypeOK, Control, LocalStage, Ownership,
     CreatingPCs, FiniPCs, DrainPCs, PCs
<1>15. ASSUME NEW t \in Threads, Publish(t) PROVE LocalStage'
  BY <1>15 DEF Publish, TypeOK, Control, LocalStage, Ownership,
     CreatingPCs, FiniPCs, DrainPCs, PCs
<1>16. ASSUME NEW t \in Threads, FailedFinalized(t) PROVE LocalStage'
  BY <1>16 DEF FailedFinalized, Gone, TypeOK, Control, LocalStage, Ownership,
     CreatingPCs, FiniPCs, DrainPCs, PCs
<1>17. ASSUME NEW t \in Threads, ReleaseFinalized(t) PROVE LocalStage'
  BY <1>17 DEF ReleaseFinalized, Gone, TypeOK, Control, LocalStage, Ownership,
     CreatingPCs, FiniPCs, DrainPCs, PCs
<1>18. ASSUME NEW t \in Threads, NEW l \in Libs, DrainEntry(t, l)
       PROVE  LocalStage'
  <2>1. PICK b \in Backends : /\ Unreference(t, b, "drainFini", "drain")
                                /\ b = backendMap[draining[t]][l]
    BY <1>18 DEF DrainEntry
  <2>2. Referenced(b)
    BY <1>18, <2>1 DEF DrainEntry, TypeOK, Control, DrainPCs, Referenced,
       Registered
  <2>3. \A u \in Threads : local[u] # b
    BY <2>1, <2>2 DEF Ownership
  <2>4. CASE Destroy(t, b, "drainFini", "drain")
    BY <2>3, <2>4, LocalStageDestroyed DEF FiniPCs
  <2>5. CASE /\ pc' = [pc EXCEPT ![t] = "drain"]
             /\ UNCHANGED <<local, stage, key>>
    BY <2>5 DEF TypeOK, LocalStage, FiniPCs
  <2> QED
    BY <2>1, <2>4, <2>5 DEF Unreference
<1>19. ASSUME NEW t \in Threads, DrainFinalized(t) PROVE LocalStage'
  BY <1>19 DEF DrainFinalized, Gone, TypeOK, Control, LocalStage, Ownership,
     CreatingPCs, FiniPCs, DrainPCs, PCs
<1>20. ASSUME NEW t \in Threads, DrainDone(t) PROVE LocalStage'
  BY <1>20 DEF DrainDone, TypeOK, Control, LocalStage, Ownership,
     CreatingPCs, FiniPCs, DrainPCs, PCs
<1>21. ASSUME NEW t \in Threads, DropOut(t) PROVE LocalStage'
  <2>1. CASE /\ pc' = [pc EXCEPT ![t] = "idle"]
             /\ UNCHANGED <<local, stage, key>>
    BY <2>1 DEF TypeOK, LocalStage, FiniPCs
  <2>2. ASSUME NEW b \in Backends, b = out[t], Destroy(t, b, "fini", "idle")
        PROVE  LocalStage'
    <3>1. Referenced(b)
      BY <2>2 DEF Referenced
    <3>2. \A u \in Threads : local[u] # b
      BY <3>1 DEF Ownership
    <3> QED
      BY <2>2, <3>2, LocalStageDestroyed DEF FiniPCs
  <2> QED
    BY <1>21, <2>1, <2>2 DEF DropOut, Unreference
<1>22. ASSUME NEW t \in Threads, NEW b \in Backends, AcquireModelInit(t, b)
       PROVE  LocalStage'
  BY <1>22 DEF AcquireModelInit, TypeOK, Control, LocalStage, Ownership,
     CreatingPCs, FiniPCs, DrainPCs, PCs
<1>23. ASSUME NEW t \in Threads, ModelInitEnds(t) PROVE LocalStage'
  BY <1>23 DEF ModelInitEnds, TypeOK, Control, LocalStage, Ownership,
     CreatingPCs, FiniPCs, DrainPCs, PCs
<1> QED
  BY <1>1, <1>2, <1>3, <1>4, <1>5, <1>6, <1>7, <1>8, <1>9, <1>10, <1>11,
     <1>12, <1>13, <1>14, <1>15, <1>16, <1>17, <1>18, <1>19, <1>20,
     <1>21, <1>22, <1>23
     DEF Next, Call, Continue
\* Whatever is in a thread's hands exists.
LocalExists == \A t \in Threads : local[t] # None => stage[local[t]] # "none"

LEMMA LocalObjectExists == ASSUME Control, LocalStage PROVE LocalExists
BY DEF Control, LocalStage, LocalExists, CreatingPCs, FiniPCs

\* The output argument of a failed call goes while its entry stays registered.
LEMMA DropOutSpares ==
    ASSUME IInv, NEW t \in Threads, DropOut(t)
    PROVE  /\ pc[t] = "failed" /\ pc' = [pc EXCEPT ![t] = "idle"]
           /\ UNCHANGED <<local, stage, key>>
           /\ \A c \in Backends : Referenced(c)' <=> Referenced(c)
<1>1. ASSUME NEW c \in Backends, out[t] = c
      PROVE  Registered(c) /\ Registered(c)'
  <2>1. manager[t] \in Managers
    BY DEF IInv, TypeOK, Control, DropOut
  <2> QED
    BY <1>1, <2>1 DEF IInv, MismatchRegistered, Registered, DropOut
<1>2. \A c \in Backends : Referenced(c)' <=> Referenced(c)
  BY <1>1 DEF IInv, TypeOK, DropOut, Referenced, Registered
<1>3. /\ pc' = [pc EXCEPT ![t] = "idle"]
      /\ UNCHANGED <<local, stage, key>>
  BY <1>1 DEF DropOut, Unreference, Referenced
<1> QED
  BY <1>2, <1>3 DEF DropOut

\* A successful call registers and hands out its own object only.
LEMMA PublishedReferences ==
    ASSUME IInv, NEW t \in Threads, Publish(t)
    PROVE  \A c \in Backends \ {local[t]} : Referenced(c)' <=> Referenced(c)
<1> DEFINE m == manager[t]
           l == key[local[t]].lib
<1>1. m \in Managers /\ local[t] \in Backends /\ l \in Libs
  BY LocalObjectExists DEF IInv, TypeOK, Control, Ownership, LocalExists,
     Publish, CreatingPCs
<1>2. \A k \in Managers, j \in Libs :
          \/ backendMap'[k][j] = backendMap[k][j]
          \/ backendMap[k][j] = None /\ backendMap'[k][j] = local[t]
  BY <1>1 DEF Publish, Inserted, IInv, TypeOK
<1>3. ASSUME NEW c \in Backends \ {local[t]}
      PROVE  Registered(c)' <=> Registered(c)
  BY <1>1, <1>2, <1>3 DEF Registered
<1>4. out[t] # None => Registered(out[t])
  BY <1>1 DEF IInv, MismatchRegistered, Registered
<1> QED
  BY <1>1, <1>3, <1>4 DEF Publish, Referenced, IInv, TypeOK

LEMMA OwnershipStep ==
    ASSUME IInv, [Next]_vars
    PROVE  Ownership'
<1> USE DEF IInv
<1> USE LocalObjectExists
<1>1. CASE UNCHANGED vars
  BY <1>1, ReferencesUnchanged, OwnershipUntouched DEF vars
<1>2. ASSUME NEW t \in Threads, CreateManager(t) PROVE Ownership'
  <2>1. \A m \in Managers, l \in Libs : backendMap'[m][l] = backendMap[m][l]
    BY <1>2 DEF CreateManager, TypeOK, ManagerLife
  <2> QED
    BY <1>2, <2>1, ReferencesUnchanged, OwnershipUntouched DEF CreateManager
<1>3. ASSUME NEW t \in Threads, NEW r \in Requests, ReuseBackend(t, r)
      PROVE  Ownership'
  <2>1. Registered(backendMap[manager[t]][r.lib])
    BY <1>3 DEF ReuseBackend, MayCreate, Matches, Registered, TypeOK
  <2>2. \A b \in Backends : Referenced(b)' <=> Referenced(b)
    BY <1>3, <2>1 DEF ReuseBackend, Referenced, Registered, TypeOK
  <2> QED
    BY <1>3, <2>2, OwnershipUntouched DEF ReuseBackend
<1>4. ASSUME NEW t \in Threads, NEW r \in Requests, BeginCreate(t, r)
      PROVE  Ownership'
  <2>1. PICK b \in Backends : /\ stage[b] = "none"
                              /\ local' = [local EXCEPT ![t] = b]
                              /\ stage' = [stage EXCEPT ![b] = "constructed"]
                              /\ key' = [key EXCEPT ![b] = r]
    BY <1>4 DEF BeginCreate
  <2>2. manager[t] \in Managers /\ r.lib \in Libs
    BY <1>4 DEF BeginCreate, MayCreate, TypeOK
  <2>3. \A c \in Backends : Referenced(c)' => Referenced(c)
    <3>1. ASSUME NEW c \in Backends, out'[t] = c PROVE Registered(c)
      BY <1>4, <2>2, <3>1 DEF BeginCreate, TypeOK, Registered
    <3> QED
      BY <1>4, <3>1 DEF BeginCreate, Referenced, Registered, TypeOK
  <2>4. \A c \in Backends : Referenced(c) => Referenced(c)'
    BY <1>4 DEF BeginCreate, MayCreate, Referenced, Registered, TypeOK,
       Control, CreatingPCs
  <2>5. ~Referenced(b) /\ \A u \in Threads : local[u] # b
    BY <2>1 DEF ReferencedUsable, LocalExists
  <2>6. \A c \in Backends : Referenced(c)' <=> Referenced(c)
    BY <2>3, <2>4
  <2>7. local[t] = None
    BY <1>4 DEF BeginCreate, MayCreate, Control, CreatingPCs, FiniPCs
  <2>8. \A u, v \in Threads : local'[u] # None /\ local'[u] = local'[v] => u = v
    BY <2>1, <2>5 DEF Ownership, TypeOK
  <2>9. \A u \in Threads, c \in Backends : local'[u] = c => ~Referenced(c)'
    BY <2>1, <2>5, <2>6 DEF Ownership, TypeOK
  <2>10. \A c \in Backends : stage'[c] # "none" =>
             Referenced(c)' \/ \E u \in Threads : local'[u] = c
    BY <2>1, <2>6, <2>7 DEF Ownership, TypeOK
  <2>11. \A c \in Backends : key'[c] = None <=> stage'[c] = "none"
    BY <2>1 DEF Ownership, TypeOK
  <2> QED
    BY <2>8, <2>9, <2>10, <2>11 DEF Ownership
<1>5. ASSUME NEW t \in Threads, NEW b \in Backends, ReleaseBackend(t, b)
      PROVE  Ownership'
  <2>1. /\ Unreference(t, b, "fini", "idle")
        /\ Referenced(b)
        /\ local[t] = None
    BY <1>5 DEF ReleaseBackend, Referenced, Control, CreatingPCs, FiniPCs
  <2>2. \A c \in Backends \ {b} : Referenced(c)' <=> Referenced(c)
    BY <1>5 DEF ReleaseBackend, Referenced, Registered, TypeOK
  <2> QED
    BY <2>1, <2>2, UnreferenceOwned DEF ReferencedUsable
<1>6. ASSUME NEW t \in Threads, ReleaseManager(t) PROVE Ownership'
  BY <1>6, ReferencesUnchanged, OwnershipUntouched DEF ReleaseManager
<1>7. ASSUME NEW t \in Threads, AcquireLoad(t) PROVE Ownership'
  BY <1>7, ReferencesUnchanged, OwnershipUntouched DEF AcquireLoad
<1>8. ASSUME NEW t \in Threads, LoadSucceeds(t) PROVE Ownership'
  <2>1. \A b \in Backends : stage'[b] = "none" <=> stage[b] = "none"
    BY <1>8 DEF LoadSucceeds, LocalStage, TypeOK
  <2> QED
    BY <1>8, <2>1, ReferencesUnchanged, OwnershipUntouched DEF LoadSucceeds
<1>9. ASSUME NEW t \in Threads, LoadFails(t) PROVE Ownership'
  <2>1. PICK b \in Backends : b = local[t]
    BY <1>9 DEF LoadFails, TypeOK, Control, CreatingPCs
  <2>2. Destroy(t, b, "failFini", "failed")
    BY <1>9, <2>1 DEF LoadFails, FailCreate
  <2>3. \A c \in Backends : Referenced(c)' <=> Referenced(c)
    BY <1>9, ReferencesUnchanged DEF LoadFails, FailCreate
  <2>4. /\ stage[b] # "none"
        /\ \A u \in Threads \ {t} : local[u] # b
        /\ ~Referenced(b)
    BY <1>9, <2>1 DEF LoadFails, LocalStage, Ownership
  <2> QED
    BY <2>1, <2>2, <2>3, <2>4, OwnershipDestroyed
<1>10. ASSUME NEW t \in Threads, SkipInit(t) PROVE Ownership'
  BY <1>10, ReferencesUnchanged, OwnershipUntouched DEF SkipInit
<1>11. ASSUME NEW t \in Threads, AcquireInit(t) PROVE Ownership'
  BY <1>11, ReferencesUnchanged, OwnershipUntouched DEF AcquireInit
<1>12. ASSUME NEW t \in Threads, InitSucceeds(t) PROVE Ownership'
  BY <1>12, ReferencesUnchanged, OwnershipUntouched DEF InitSucceeds
<1>13. ASSUME NEW t \in Threads, InitFails(t) PROVE Ownership'
  <2>1. PICK b \in Backends : b = local[t]
    BY <1>13 DEF InitFails, TypeOK, Control, CreatingPCs
  <2>2. Destroy(t, b, "failFini", "failed")
    BY <1>13, <2>1 DEF InitFails, FailCreate
  <2>3. \A c \in Backends : Referenced(c)' <=> Referenced(c)
    BY <1>13, ReferencesUnchanged DEF InitFails, FailCreate
  <2>4. /\ stage[b] # "none"
        /\ \A u \in Threads \ {t} : local[u] # b
        /\ ~Referenced(b)
    BY <1>13, <2>1 DEF InitFails, LocalStage, Ownership
  <2> QED
    BY <2>1, <2>2, <2>3, <2>4, OwnershipDestroyed
<1>14. ASSUME NEW t \in Threads, UpdateAttributes(t) PROVE Ownership'
  <2>1. \A b \in Backends : stage'[b] = "none" <=> stage[b] = "none"
    BY <1>14 DEF UpdateAttributes, LocalStage, TypeOK
  <2> QED
    BY <1>14, <2>1, ReferencesUnchanged, OwnershipUntouched DEF
       UpdateAttributes
<1>15. ASSUME NEW t \in Threads, Publish(t) PROVE Ownership'
  <2>1. PICK b \in Backends : b = local[t]
    BY <1>15 DEF Publish, TypeOK, Control, CreatingPCs
  <2>2. /\ local' = [local EXCEPT ![t] = None]
        /\ UNCHANGED <<stage, key>>
    BY <1>15 DEF Publish
  <2>3. Referenced(b)'
    BY <1>15, <2>1 DEF Publish, Referenced, TypeOK
  <2>4. \A c \in Backends \ {b} : Referenced(c)' <=> Referenced(c)
    BY <1>15, <2>1, PublishedReferences
  <2> QED
    BY <2>1, <2>2, <2>3, <2>4 DEF Ownership, TypeOK
<1>16. ASSUME NEW t \in Threads, FailedFinalized(t) PROVE Ownership'
  <2>1. PICK b \in Backends : b = local[t]
    BY <1>16 DEF FailedFinalized, TypeOK, Control, FiniPCs, CreatingPCs
  <2>2. Gone(t, b)
    BY <1>16, <2>1 DEF FailedFinalized
  <2>3. \A c \in Backends : Referenced(c)' <=> Referenced(c)
    BY <1>16, ReferencesUnchanged DEF FailedFinalized
  <2>4. /\ \A u \in Threads \ {t} : local[u] # b
        /\ ~Referenced(b)
    BY <2>1 DEF Ownership
  <2> QED
    BY <2>1, <2>2, <2>3, <2>4, OwnershipGone
<1>17. ASSUME NEW t \in Threads, ReleaseFinalized(t) PROVE Ownership'
  <2>1. PICK b \in Backends : b = local[t]
    BY <1>17 DEF ReleaseFinalized, TypeOK, Control, FiniPCs, CreatingPCs
  <2>2. Gone(t, b)
    BY <1>17, <2>1 DEF ReleaseFinalized
  <2>3. \A c \in Backends : Referenced(c)' <=> Referenced(c)
    BY <1>17, ReferencesUnchanged DEF ReleaseFinalized
  <2>4. /\ \A u \in Threads \ {t} : local[u] # b
        /\ ~Referenced(b)
    BY <2>1 DEF Ownership
  <2> QED
    BY <2>1, <2>2, <2>3, <2>4, OwnershipGone
<1>18. ASSUME NEW t \in Threads, NEW l \in Libs, DrainEntry(t, l)
       PROVE  Ownership'
  <2>1. PICK b \in Backends : /\ b = backendMap[draining[t]][l]
                              /\ Unreference(t, b, "drainFini", "drain")
    BY <1>18 DEF DrainEntry
  <2>2. draining[t] \in Managers /\ local[t] = None
    BY <1>18 DEF DrainEntry, TypeOK, Control, CreatingPCs, FiniPCs, DrainPCs
  <2>3. Referenced(b)
    BY <2>1, <2>2 DEF Referenced, Registered
  <2>4. \A c \in Backends \ {b} : Referenced(c)' <=> Referenced(c)
    BY <1>18, <2>1, <2>2 DEF DrainEntry, Referenced, Registered, TypeOK
  <2> QED
    BY <2>1, <2>2, <2>3, <2>4, UnreferenceOwned DEF ReferencedUsable
<1>19. ASSUME NEW t \in Threads, DrainFinalized(t) PROVE Ownership'
  <2>1. PICK b \in Backends : b = local[t]
    BY <1>19 DEF DrainFinalized, TypeOK, Control, FiniPCs, CreatingPCs
  <2>2. Gone(t, b)
    BY <1>19, <2>1 DEF DrainFinalized
  <2>3. \A c \in Backends : Referenced(c)' <=> Referenced(c)
    BY <1>19, ReferencesUnchanged DEF DrainFinalized
  <2>4. /\ \A u \in Threads \ {t} : local[u] # b
        /\ ~Referenced(b)
    BY <2>1 DEF Ownership
  <2> QED
    BY <2>1, <2>2, <2>3, <2>4, OwnershipGone
<1>20. ASSUME NEW t \in Threads, DrainDone(t) PROVE Ownership'
  BY <1>20, ReferencesUnchanged, OwnershipUntouched DEF DrainDone
<1>21. ASSUME NEW t \in Threads, DropOut(t) PROVE Ownership'
  BY <1>21, DropOutSpares, OwnershipUntouched
<1>22. ASSUME NEW t \in Threads, NEW b \in Backends, AcquireModelInit(t, b)
       PROVE  Ownership'
  BY <1>22, ReferencesUnchanged, OwnershipUntouched DEF AcquireModelInit
<1>23. ASSUME NEW t \in Threads, ModelInitEnds(t) PROVE Ownership'
  BY <1>23, ReferencesUnchanged, OwnershipUntouched DEF ModelInitEnds
<1> QED
  BY <1>1, <1>2, <1>3, <1>4, <1>5, <1>6, <1>7, <1>8, <1>9, <1>10, <1>11,
     <1>12, <1>13, <1>14, <1>15, <1>16, <1>17, <1>18, <1>19, <1>20,
     <1>21, <1>22, <1>23
     DEF Next, Call, Continue
\* Dropping a reference changes nothing about an object that stays referenced.
LEMMA UnreferenceSpares ==
    ASSUME TypeOK, NEW t \in Threads, NEW b \in Backends,
           NEW running, NEW done, Unreference(t, b, running, done)
    PROVE  \A c \in Backends : Referenced(c)' =>
               stage'[c] = stage[c] /\ key'[c] = key[c]
<1>1. CASE UNCHANGED <<stage, key>>
  BY <1>1
<1>2. CASE ~Referenced(b)' /\ Destroy(t, b, running, done)
  <2>1. \A c \in Backends \ {b} : stage'[c] = stage[c] /\ key'[c] = key[c]
    BY <1>2 DEF Destroy, Gone, TypeOK
  <2> QED
    BY <1>2, <2>1
<1> QED
  BY <1>1, <1>2 DEF Unreference

LEMMA UsableKept ==
    ASSUME TypeOK, ReferencedUsable,
           \A b \in Backends : Referenced(b)' => Referenced(b),
           \A b \in Backends : Referenced(b)' =>
               stage'[b] = stage[b] /\ key'[b] = key[b],
           \A m \in Managers, l \in Libs :
               backendMap'[m][l] \in {backendMap[m][l], None}
    PROVE  ReferencedUsable'
<1>1. ASSUME NEW m \in Managers, NEW l \in Libs, backendMap'[m][l] # None
      PROVE  key'[backendMap'[m][l]].lib = l
  <2>1. PICK b \in Backends : b = backendMap[m][l] /\ b = backendMap'[m][l]
    BY <1>1 DEF TypeOK
  <2>2. Referenced(b)'
    BY <2>1 DEF Referenced, Registered
  <2> QED
    BY <2>1, <2>2 DEF ReferencedUsable
<1> QED
  BY <1>1 DEF ReferencedUsable

LEMMA ReferencedUsableStep ==
    ASSUME IInv, [Next]_vars
    PROVE  ReferencedUsable'
<1> USE DEF IInv
<1>1. CASE UNCHANGED vars
  BY <1>1, ReferencesUnchanged, UsableKept DEF vars
<1>2. ASSUME NEW t \in Threads, CreateManager(t) PROVE ReferencedUsable'
  <2>1. \A m \in Managers, l \in Libs : backendMap'[m][l] = backendMap[m][l]
    BY <1>2 DEF CreateManager, TypeOK, ManagerLife
  <2> QED
    BY <1>2, <2>1, ReferencesUnchanged, UsableKept DEF CreateManager
<1>3. ASSUME NEW t \in Threads, NEW r \in Requests, ReuseBackend(t, r)
      PROVE  ReferencedUsable'
  <2>1. Registered(backendMap[manager[t]][r.lib])
    BY <1>3 DEF ReuseBackend, MayCreate, Matches, Registered, TypeOK
  <2>2. \A b \in Backends : Referenced(b)' => Referenced(b)
    BY <1>3, <2>1 DEF ReuseBackend, Referenced, Registered, TypeOK
  <2> QED
    BY <1>3, <2>2, UsableKept DEF ReuseBackend
<1>4. ASSUME NEW t \in Threads, NEW r \in Requests, BeginCreate(t, r)
      PROVE  ReferencedUsable'
  <2>1. PICK b \in Backends : /\ stage[b] = "none"
                              /\ stage' = [stage EXCEPT ![b] = "constructed"]
                              /\ key' = [key EXCEPT ![b] = r]
    BY <1>4 DEF BeginCreate
  <2>2. manager[t] \in Managers /\ r.lib \in Libs
    BY <1>4 DEF BeginCreate, MayCreate, TypeOK
  <2>3. \A c \in Backends : Referenced(c)' => Referenced(c)
    <3>1. ASSUME NEW c \in Backends, out'[t] = c PROVE Registered(c)
      BY <1>4, <2>2, <3>1 DEF BeginCreate, TypeOK, Registered
    <3> QED
      BY <1>4, <3>1 DEF BeginCreate, Referenced, Registered, TypeOK
  <2>4. \A c \in Backends : Referenced(c)' =>
            stage'[c] = stage[c] /\ key'[c] = key[c]
    BY <2>1, <2>3 DEF ReferencedUsable, TypeOK
  <2> QED
    BY <1>4, <2>3, <2>4, UsableKept DEF BeginCreate
<1>5. ASSUME NEW t \in Threads, NEW b \in Backends, ReleaseBackend(t, b)
      PROVE  ReferencedUsable'
  <2>1. \A c \in Backends : Referenced(c)' => Referenced(c)
    BY <1>5 DEF ReleaseBackend, Referenced, Registered, TypeOK
  <2>2. \A c \in Backends : Referenced(c)' =>
            stage'[c] = stage[c] /\ key'[c] = key[c]
    <3>1. Unreference(t, b, "fini", "idle")
      BY <1>5 DEF ReleaseBackend
    <3> QED
      BY <3>1, UnreferenceSpares
  <2> QED
    BY <1>5, <2>1, <2>2, UsableKept DEF ReleaseBackend
<1>6. ASSUME NEW t \in Threads, ReleaseManager(t) PROVE ReferencedUsable'
  BY <1>6, ReferencesUnchanged, UsableKept DEF ReleaseManager
<1>7. ASSUME NEW t \in Threads, AcquireLoad(t) PROVE ReferencedUsable'
  BY <1>7, ReferencesUnchanged, UsableKept DEF AcquireLoad
<1>8. ASSUME NEW t \in Threads, LoadSucceeds(t) PROVE ReferencedUsable'
  <2>1. \A b \in Backends : Referenced(b)' <=> Referenced(b)
    BY <1>8, ReferencesUnchanged DEF LoadSucceeds
  <2>2. \A b \in Backends : Referenced(b) => stage'[b] = stage[b]
    BY <1>8 DEF LoadSucceeds, Ownership, TypeOK
  <2> QED
    BY <1>8, <2>1, <2>2, UsableKept DEF LoadSucceeds
<1>9. ASSUME NEW t \in Threads, LoadFails(t) PROVE ReferencedUsable'
  <2>1. \A c \in Backends : Referenced(c)' <=> Referenced(c)
    BY <1>9, ReferencesUnchanged DEF LoadFails, FailCreate
  <2>2. \A c \in Backends : Referenced(c) =>
            stage'[c] = stage[c] /\ key'[c] = key[c]
    BY <1>9 DEF LoadFails, FailCreate, Destroy, Gone, Ownership, TypeOK
  <2> QED
    BY <1>9, <2>1, <2>2, UsableKept DEF LoadFails
<1>10. ASSUME NEW t \in Threads, SkipInit(t) PROVE ReferencedUsable'
  BY <1>10, ReferencesUnchanged, UsableKept DEF SkipInit
<1>11. ASSUME NEW t \in Threads, AcquireInit(t) PROVE ReferencedUsable'
  BY <1>11, ReferencesUnchanged, UsableKept DEF AcquireInit
<1>12. ASSUME NEW t \in Threads, InitSucceeds(t) PROVE ReferencedUsable'
  BY <1>12, ReferencesUnchanged, UsableKept DEF InitSucceeds
<1>13. ASSUME NEW t \in Threads, InitFails(t) PROVE ReferencedUsable'
  <2>1. \A c \in Backends : Referenced(c)' <=> Referenced(c)
    BY <1>13, ReferencesUnchanged DEF InitFails, FailCreate
  <2>2. \A c \in Backends : Referenced(c) =>
            stage'[c] = stage[c] /\ key'[c] = key[c]
    BY <1>13 DEF InitFails, FailCreate, Destroy, Gone, Ownership, TypeOK
  <2> QED
    BY <1>13, <2>1, <2>2, UsableKept DEF InitFails
<1>14. ASSUME NEW t \in Threads, UpdateAttributes(t) PROVE ReferencedUsable'
  <2>1. \A b \in Backends : Referenced(b)' <=> Referenced(b)
    BY <1>14, ReferencesUnchanged DEF UpdateAttributes
  <2>2. \A b \in Backends : Referenced(b) => stage'[b] = stage[b]
    BY <1>14 DEF UpdateAttributes, Ownership, TypeOK
  <2> QED
    BY <1>14, <2>1, <2>2, UsableKept DEF UpdateAttributes
<1>15. ASSUME NEW t \in Threads, Publish(t) PROVE ReferencedUsable'
  <2>1. PICK b \in Backends : b = local[t]
    BY <1>15 DEF Publish, TypeOK, Control, CreatingPCs
  <2>2. \A c \in Backends \ {b} : Referenced(c)' <=> Referenced(c)
    BY <1>15, <2>1, PublishedReferences
  <2>3. \A c \in Backends : Referenced(c)' => stage'[c] = "ready"
    BY <1>15, <2>1, <2>2 DEF Publish, LocalStage, ReferencedUsable
  <2>4. ASSUME NEW m \in Managers, NEW l \in Libs, backendMap'[m][l] # None
        PROVE  key'[backendMap'[m][l]].lib = l
    BY <1>15, <2>1, <2>4 DEF Publish, Inserted, ReferencedUsable, TypeOK
  <2> QED
    BY <2>3, <2>4 DEF ReferencedUsable
<1>16. ASSUME NEW t \in Threads, FailedFinalized(t) PROVE ReferencedUsable'
  <2>1. \A c \in Backends : Referenced(c)' <=> Referenced(c)
    BY <1>16, ReferencesUnchanged DEF FailedFinalized
  <2>2. \A c \in Backends : Referenced(c) =>
            stage'[c] = stage[c] /\ key'[c] = key[c]
    BY <1>16 DEF FailedFinalized, Gone, Ownership, TypeOK
  <2> QED
    BY <1>16, <2>1, <2>2, UsableKept DEF FailedFinalized
<1>17. ASSUME NEW t \in Threads, ReleaseFinalized(t) PROVE ReferencedUsable'
  <2>1. \A c \in Backends : Referenced(c)' <=> Referenced(c)
    BY <1>17, ReferencesUnchanged DEF ReleaseFinalized
  <2>2. \A c \in Backends : Referenced(c) =>
            stage'[c] = stage[c] /\ key'[c] = key[c]
    BY <1>17 DEF ReleaseFinalized, Gone, Ownership, TypeOK
  <2> QED
    BY <1>17, <2>1, <2>2, UsableKept DEF ReleaseFinalized
<1>18. ASSUME NEW t \in Threads, NEW l \in Libs, DrainEntry(t, l)
       PROVE  ReferencedUsable'
  <2>1. PICK b \in Backends : Unreference(t, b, "drainFini", "drain")
    BY <1>18 DEF DrainEntry
  <2>2. \A m \in Managers, j \in Libs :
            backendMap'[m][j] \in {backendMap[m][j], None}
    BY <1>18 DEF DrainEntry, TypeOK
  <2>3. \A c \in Backends : Referenced(c)' => Referenced(c)
    BY <1>18, <2>2 DEF DrainEntry, Referenced, Registered
  <2>4. \A c \in Backends : Referenced(c)' =>
            stage'[c] = stage[c] /\ key'[c] = key[c]
    BY <2>1, UnreferenceSpares
  <2> QED
    BY <2>2, <2>3, <2>4, UsableKept
<1>19. ASSUME NEW t \in Threads, DrainFinalized(t) PROVE ReferencedUsable'
  <2>1. \A c \in Backends : Referenced(c)' <=> Referenced(c)
    BY <1>19, ReferencesUnchanged DEF DrainFinalized
  <2>2. \A c \in Backends : Referenced(c) =>
            stage'[c] = stage[c] /\ key'[c] = key[c]
    BY <1>19 DEF DrainFinalized, Gone, Ownership, TypeOK
  <2> QED
    BY <1>19, <2>1, <2>2, UsableKept DEF DrainFinalized
<1>20. ASSUME NEW t \in Threads, DrainDone(t) PROVE ReferencedUsable'
  BY <1>20, ReferencesUnchanged, UsableKept DEF DrainDone
<1>21. ASSUME NEW t \in Threads, DropOut(t) PROVE ReferencedUsable'
  BY <1>21, DropOutSpares, UsableKept DEF DropOut
<1>22. ASSUME NEW t \in Threads, NEW b \in Backends, AcquireModelInit(t, b)
       PROVE  ReferencedUsable'
  BY <1>22, ReferencesUnchanged, UsableKept DEF AcquireModelInit
<1>23. ASSUME NEW t \in Threads, ModelInitEnds(t) PROVE ReferencedUsable'
  BY <1>23, ReferencesUnchanged, UsableKept DEF ModelInitEnds
<1> QED
  BY <1>1, <1>2, <1>3, <1>4, <1>5, <1>6, <1>7, <1>8, <1>9, <1>10, <1>11,
     <1>12, <1>13, <1>14, <1>15, <1>16, <1>17, <1>18, <1>19, <1>20,
     <1>21, <1>22, <1>23
     DEF Next, Call, Continue
\* Dropping a reference to b leaves other threads and other objects alone.
LEMMA UnreferenceLeaves ==
    ASSUME TypeOK, NEW t \in Threads, NEW b \in Backends,
           NEW running, NEW done, Unreference(t, b, running, done)
    PROVE  /\ \A u \in Threads \ {t} : local'[u] = local[u]
           /\ \A c \in Backends \ {b} : key'[c] = key[c]
<1>1. CASE UNCHANGED <<local, key>>
  BY <1>1
<1>2. CASE Destroy(t, b, running, done)
  BY <1>2 DEF Destroy, Gone, TypeOK
<1> QED
  BY <1>1, <1>2 DEF Unreference

\* A step that gives no thread an output argument, and leaves alone the map of
\* a thread that has one.
LEMMA OutKept ==
    ASSUME MismatchRegistered,
           \A u \in Threads : out'[u] # None =>
               /\ out'[u] = out[u] /\ manager'[u] = manager[u]
               /\ \A l \in Libs : backendMap[manager[u]][l] = out[u] =>
                      backendMap'[manager[u]][l] = out[u]
    PROVE  MismatchRegistered'
BY DEF MismatchRegistered

LEMMA MismatchStep ==
    ASSUME IInv, [Next]_vars
    PROVE  MismatchRegistered'
<1> USE DEF IInv
<1>1. CASE UNCHANGED <<manager, backendMap, out>>
  BY <1>1, OutKept
<1>2. ASSUME NEW t \in Threads, CreateManager(t) PROVE MismatchRegistered'
  <2>1. \A m \in Managers, l \in Libs : backendMap'[m][l] = backendMap[m][l]
    BY <1>2 DEF CreateManager, TypeOK, ManagerLife
  <2>2. \A u \in Threads : out[u] # None =>
            manager'[u] = manager[u] /\ manager[u] \in Managers
    BY <1>2 DEF CreateManager, TypeOK, Control
  <2> QED
    BY <1>2, <2>1, <2>2, OutKept DEF CreateManager
<1>3. ASSUME NEW t \in Threads, NEW r \in Requests, BeginCreate(t, r)
      PROVE  MismatchRegistered'
  <2>1. /\ UNCHANGED <<manager, backendMap>> /\ r.lib \in Libs
        /\ out' = [out EXCEPT ![t] = backendMap[manager[t]][r.lib]]
    BY <1>3 DEF BeginCreate
  <2> QED
    BY <2>1 DEF MismatchRegistered, TypeOK
<1>4. ASSUME NEW t \in Threads, ReleaseManager(t) PROVE MismatchRegistered'
  <2>1. \A u \in Threads : out[u] # None => u # t
    BY <1>4 DEF ReleaseManager, Control, CreatingPCs
  <2> QED
    BY <1>4, <2>1, OutKept DEF ReleaseManager, TypeOK
<1>5. ASSUME NEW t \in Threads, Publish(t) PROVE MismatchRegistered'
  <2>1. /\ manager[t] \in Managers
        /\ UNCHANGED manager /\ out' = [out EXCEPT ![t] = None]
    BY <1>5 DEF Publish, TypeOK, Control, CreatingPCs
  <2>2. \A m \in Managers, l \in Libs : backendMap[m][l] # None =>
            backendMap'[m][l] = backendMap[m][l]
    BY <1>5, <2>1 DEF Publish, Inserted, TypeOK
  <2>3. \A u \in Threads : out'[u] # None =>
            out'[u] = out[u] /\ manager[u] \in Managers
    BY <2>1 DEF TypeOK, Control
  <2> QED
    BY <2>1, <2>2, <2>3, OutKept
<1>6. ASSUME NEW t \in Threads, NEW l \in Libs, DrainEntry(t, l)
      PROVE  MismatchRegistered'
  <2>1. UNCHANGED <<manager, out>>
    BY <1>6 DEF DrainEntry
  <2>2. ASSUME NEW u \in Threads, out[u] # None
        PROVE  backendMap'[manager[u]] = backendMap[manager[u]]
    <3>1. manager[u] = weak /\ manager[u] \in Managers
      BY <2>2 DEF Control, ManagerLife, OneLiveManager, TypeOK
    <3>2. draining[t] # weak
      BY <1>6 DEF DrainEntry, ManagerLife, Control, DrainPCs
    <3> QED
      BY <1>6, <3>1, <3>2 DEF DrainEntry, TypeOK
  <2> QED
    BY <2>1, <2>2, OutKept
<1>7. ASSUME NEW t \in Threads, DropOut(t) PROVE MismatchRegistered'
  BY <1>7, OutKept DEF DropOut, TypeOK
<1> QED
  BY <1>1, <1>2, <1>3, <1>4, <1>5, <1>6, <1>7 DEF Next, Call, Continue, vars,
     ReuseBackend, ReleaseBackend, AcquireLoad, LoadSucceeds, LoadFails,
     FailCreate, SkipInit, AcquireInit, InitSucceeds, InitFails,
     UpdateAttributes, FailedFinalized, AcquireModelInit, ModelInitEnds,
     ReleaseFinalized, DrainFinalized, DrainDone
-----------------------------------------------------------------------------
\* The theorems.

\* The inductive invariant holds at the start, and each step keeps it.
LEMMA InitIInv == Init => IInv
<1> SUFFICES ASSUME Init PROVE IInv
  OBVIOUS
<1>1. TypeOK
  BY DEF Init, TypeOK, PCs, Stages
<1>2. Control
  BY DEF Init, Control, LockNesting, CreatingPCs, LoaderPCs, DrainPCs,
     FiniPCs
<1>3. ManagerLife /\ LocalStage /\ MismatchRegistered
  BY DEF Init, ManagerLife, OneLiveManager, LocalStage, FiniPCs,
     MismatchRegistered
<1>4. \A b \in Backends : ~Referenced(b)
  BY DEF Init, Referenced, Registered
<1>5. Ownership
  BY <1>4 DEF Init, Ownership
<1>6. ReferencedUsable
  BY <1>4 DEF Init, ReferencedUsable
<1> QED
  BY <1>1, <1>2, <1>3, <1>5, <1>6 DEF IInv

LEMMA NextIInv == IInv /\ [Next]_vars => IInv'
<1> QED
  BY TypesStep, ControlStep, ManagerLifeStep, LocalStageStep, OwnershipStep,
     ReferencedUsableStep, MismatchStep DEF IInv

\* The inductive invariant of every behaviour of the registry.
THEOREM Invariance == Spec => []IInv
<1> QED
  BY InitIInv, NextIInv, PTL DEF Spec

\* The variables keep their types.
THEOREM TypeCorrect == Spec => []TypeOK
BY Invariance, PTL DEF IInv

\* Threads that hold a manager hold the one backend_manager_ points to.
THEOREM SingleManager == Spec => []OneLiveManager
BY Invariance, PTL DEF IInv, ManagerLife

\* mu_ is held by the thread inside Backend::Create, the loader lock by that
\* thread or by one that initializes a model, which waits for no lock.
THEOREM LocksNest == Spec => []LockNesting
BY Invariance, PTL DEF IInv, Control

\* Nothing reachable is half-built, failed or finalized.
THEOREM ReferencesAreUsable == Spec => []ReferencedUsable
BY Invariance, PTL DEF IInv

\* Every object is referenced or in the hands of one thread, never both.
THEOREM NoObjectLeaks == Spec => []NoLeak
<1>1. IInv => NoLeak
  BY DEF IInv, Ownership, NoLeak, TypeOK
<1> QED
  BY <1>1, Invariance, PTL

\* What a call in progress or a failed one has in its output argument stays
\* registered until the argument goes, mu_ being free by then.
THEOREM MismatchKept == Spec => []MismatchRegistered
BY Invariance, PTL DEF IInv

\* The entries of a live manager's map are never removed or replaced.
THEOREM EntriesAreStable == Spec => EntriesStable
<1> DEFINE Stable(m, l) ==
        (backendMap[m][l] # None /\ weak = m /\ weak' = m)
            => backendMap'[m][l] = backendMap[m][l]
<1>1. ASSUME IInv, [Next]_vars, NEW m \in Managers, NEW l \in Libs
      PROVE  Stable(m, l)
  <2>1. CASE backendMap' = backendMap
    BY <2>1
  <2>2. ASSUME NEW t \in Threads, CreateManager(t) PROVE Stable(m, l)
    BY <2>2 DEF CreateManager
  <2>3. ASSUME NEW t \in Threads, Publish(t) PROVE Stable(m, l)
    BY <1>1, <2>3 DEF Publish, Inserted, IInv, TypeOK
  <2>4. ASSUME NEW t \in Threads, NEW j \in Libs, DrainEntry(t, j)
        PROVE  Stable(m, l)
    <3>1. draining[t] \in Managers /\ draining[t] # weak
      BY <1>1, <2>4 DEF DrainEntry, IInv, TypeOK, Control, ManagerLife,
         DrainPCs
    <3> QED
      BY <1>1, <2>4, <3>1 DEF DrainEntry, IInv, TypeOK
  <2>5. \/ backendMap' = backendMap
        \/ \E t \in Threads :
              \/ CreateManager(t) \/ Publish(t)
              \/ \E j \in Libs : DrainEntry(t, j)
    <3>1. CASE UNCHANGED vars
      BY <3>1 DEF vars
    <3>2. ASSUME NEW t \in Threads, Call(t)
          PROVE  CreateManager(t) \/ backendMap' = backendMap
      BY <3>2 DEF Call, ReuseBackend, BeginCreate, ReleaseBackend,
         AcquireModelInit, ReleaseManager
    <3>3. ASSUME NEW t \in Threads, Continue(t)
          PROVE  \/ Publish(t) \/ \E j \in Libs : DrainEntry(t, j)
                 \/ backendMap' = backendMap
      BY <3>3 DEF Continue, AcquireLoad, LoadSucceeds, LoadFails, SkipInit,
         AcquireInit, InitSucceeds, InitFails, UpdateAttributes,
         FailedFinalized, DropOut, ModelInitEnds, ReleaseFinalized,
         DrainFinalized, DrainDone
    <3> QED
      BY <1>1, <3>1, <3>2, <3>3 DEF Next
  <2> HIDE DEF Stable
  <2> QED
    BY <2>1, <2>2, <2>3, <2>4, <2>5
<1>2. IInv /\ [Next]_vars =>
          [\A m \in Managers, l \in Libs : Stable(m, l)]_vars
  BY <1>1
<1> QED
  BY <1>2, Invariance, PTL DEF Spec, EntriesStable

-----------------------------------------------------------------------------
\* One object per library that has one name, while no manager was dropped.

LEMMA SoleKept ==
    ASSUME SoleObjects, UNCHANGED <<weak, backendMap, draining, dropped>>,
           \A b \in Backends : stage'[b] # "none" =>
               /\ stage[b] # "none"
               /\ key'[b] = key[b]
               /\ \A u \in Threads : pc[u] \in CreatingPCs /\ local[u] = b =>
                      pc'[u] \in CreatingPCs /\ local'[u] = b
    PROVE  SoleObjects'
BY DEF SoleObjects, Sole

LEMMA SoleObjectsStep ==
    ASSUME IInv, SoleObjects, [Next]_vars
    PROVE  SoleObjects'
<1>1. CASE UNCHANGED vars
  BY <1>1 DEF vars, SoleObjects, Sole, IInv, TypeOK, Control,
     ManagerLife, OneLiveManager, CreatingPCs, DrainPCs, FiniPCs
<1>2. ASSUME NEW t \in Threads, CreateManager(t) PROVE SoleObjects'
  BY <1>2 DEF CreateManager, SoleObjects, Sole, IInv, TypeOK, Control,
     ManagerLife, OneLiveManager, CreatingPCs, DrainPCs, FiniPCs
<1>3. ASSUME NEW t \in Threads, NEW r \in Requests, ReuseBackend(t, r)
      PROVE  SoleObjects'
  BY <1>3 DEF ReuseBackend, MayCreate, SoleObjects, Sole, IInv, TypeOK, Control,
     ManagerLife, OneLiveManager, CreatingPCs, DrainPCs, FiniPCs
<1>4. ASSUME NEW t \in Threads, NEW r \in Requests, BeginCreate(t, r)
      PROVE  SoleObjects'
  <2>1. PICK b \in Backends : /\ stage[b] = "none"
                              /\ local' = [local EXCEPT ![t] = b]
                              /\ stage' = [stage EXCEPT ![b] = "constructed"]
                              /\ key' = [key EXCEPT ![b] = r]
    BY <1>4 DEF BeginCreate
  <2>2. /\ UNCHANGED <<weak, backendMap, draining, dropped>>
        /\ pc' = [pc EXCEPT ![t] = "load"]
        /\ pc[t] = "idle"
        /\ weak \in Managers /\ manager[t] = weak /\ r.lib \in Libs
    BY <1>4 DEF BeginCreate, MayCreate, IInv, TypeOK, ManagerLife,
       OneLiveManager
  <2>3. AskedOnce(r.lib) => backendMap[weak][r.lib] = None
    <3> SUFFICES ASSUME AskedOnce(r.lib),
                        NEW e \in Backends, e = backendMap[weak][r.lib]
                 PROVE  FALSE
      BY <2>2 DEF IInv, TypeOK
    <3>1. key[e].lib = r.lib /\ Referenced(e)
      BY <2>2 DEF IInv, ReferencedUsable, Referenced, Registered
    <3>2. key[e] \in Requests
      BY <3>1 DEF IInv, ReferencedUsable, Ownership, TypeOK
    <3>3. key[e] = r
      BY <3>1, <3>2 DEF AskedOnce
    <3> QED
      BY <1>4, <2>2, <3>3 DEF BeginCreate, Matches
  <2>4. AskedOnce(key'[b].lib) => Sole(b)'
    <3>1. pc'[t] \in CreatingPCs /\ local'[t] = b /\ key'[b] = r
      BY <2>1, <2>2 DEF IInv, TypeOK, CreatingPCs
    <3>2. weak # None
      BY <2>2
    <3> QED
      BY <2>2, <2>3, <3>1, <3>2 DEF Sole
  <2>5. ASSUME NEW c \in Backends \ {b}, stage'[c] # "none",
               ~dropped, AskedOnce(key'[c].lib)
        PROVE  Sole(c)'
    <3>1. stage[c] # "none" /\ key'[c] = key[c]
      BY <2>1, <2>5 DEF IInv, TypeOK
    <3>2. \A u \in Threads : pc[u] \in CreatingPCs =>
              u # t /\ pc'[u] = pc[u] /\ local'[u] = local[u]
      BY <2>1, <2>2 DEF IInv, TypeOK, CreatingPCs
    <3>3. Sole(c)
      BY <2>5, <3>1 DEF SoleObjects
    <3> QED
      BY <2>2, <3>1, <3>2, <3>3 DEF Sole
  <2> QED
    BY <2>2, <2>4, <2>5 DEF SoleObjects
<1>5. ASSUME NEW t \in Threads, NEW b \in Backends, ReleaseBackend(t, b)
      PROVE  SoleObjects'
  <2>1. Referenced(b) /\ stage[b] # "none" /\ \A u \in Threads : local[u] # b
    BY <1>5 DEF ReleaseBackend, Referenced, IInv, ReferencedUsable, Ownership
  <2>2. /\ UNCHANGED <<weak, backendMap, draining, dropped>>
        /\ pc[t] = "idle" /\ Unreference(t, b, "fini", "idle")
    BY <1>5 DEF ReleaseBackend
  <2>3. \A u \in Threads : pc[u] \in CreatingPCs =>
            u # t /\ pc'[u] = pc[u] /\ local'[u] = local[u]
    BY <2>2 DEF Unreference, Destroy, Gone, IInv, TypeOK, CreatingPCs
  <2>4. ASSUME NEW c \in Backends, ~dropped, stage'[c] # "none",
               AskedOnce(key'[c].lib)
        PROVE  Sole(c)'
    <3>1. CASE c = b
      <4>1. key'[b] = key[b]
        BY <2>2, <2>4, <3>1 DEF Unreference, Destroy, Gone, IInv, TypeOK
      <4>2. Sole(b)
        BY <2>1, <2>4, <3>1, <4>1 DEF SoleObjects
      <4> QED
        BY <2>2, <2>3, <3>1, <4>1, <4>2 DEF Sole
    <3>2. CASE c # b
      <4>1. stage'[c] = stage[c] /\ key'[c] = key[c]
        BY <2>2, <3>2 DEF Unreference, Destroy, Gone, IInv, TypeOK
      <4>2. Sole(c)
        BY <2>4, <4>1 DEF SoleObjects
      <4> QED
        BY <2>2, <2>3, <4>1, <4>2 DEF Sole
    <3> QED
      BY <3>1, <3>2
  <2> QED
    BY <2>2, <2>4 DEF SoleObjects
<1>6. ASSUME NEW t \in Threads, ReleaseManager(t) PROVE SoleObjects'
  <2>1. CASE dropped'
    BY <2>1 DEF SoleObjects
  <2>2. CASE UNCHANGED <<weak, draining, dropped, pc>>
    BY <1>6, <2>2, SoleKept DEF ReleaseManager
  <2> QED
    BY <1>6, <2>1, <2>2 DEF ReleaseManager
<1>7. ASSUME NEW t \in Threads, AcquireLoad(t) PROVE SoleObjects'
  BY <1>7 DEF AcquireLoad, SoleObjects, Sole, IInv, TypeOK, Control,
     ManagerLife, OneLiveManager, CreatingPCs, DrainPCs, FiniPCs
<1>8. ASSUME NEW t \in Threads, LoadSucceeds(t) PROVE SoleObjects'
  <2>1. \A b \in Backends : stage'[b] # "none" => stage[b] # "none"
    BY <1>8 DEF LoadSucceeds, IInv, LocalStage, TypeOK
  <2>2. \A u \in Threads : pc[u] \in CreatingPCs => pc'[u] \in CreatingPCs
    BY <1>8 DEF LoadSucceeds, IInv, TypeOK, CreatingPCs
  <2> QED
    BY <1>8, <2>1, <2>2, SoleKept DEF LoadSucceeds
<1>9. ASSUME NEW t \in Threads, LoadFails(t) PROVE SoleObjects'
  <2>1. PICK b \in Backends : b = local[t]
    BY <1>9 DEF LoadFails, IInv, TypeOK, Control, CreatingPCs
  <2>2. Destroy(t, b, "failFini", "failed")
    BY <1>9, <2>1 DEF LoadFails, FailCreate
  <2>3. UNCHANGED <<weak, backendMap, draining, dropped>>
    BY <1>9 DEF LoadFails
  <2>4. stage[b] # "none"
    BY <1>9, <2>1 DEF LoadFails, IInv, LocalStage
  <2>5. CASE Gone(t, b) /\ pc' = [pc EXCEPT ![t] = "failed"]
    BY <2>1, <2>3, <2>5, SoleKept DEF Gone, IInv, TypeOK
  <2>6. CASE /\ stage' = [stage EXCEPT ![b] = "finalizing"]
             /\ local' = [local EXCEPT ![t] = b]
             /\ pc' = [pc EXCEPT ![t] = "failFini"]
             /\ UNCHANGED key
    BY <2>1, <2>3, <2>4, <2>6, SoleKept DEF IInv, TypeOK, CreatingPCs
  <2> QED
    BY <2>2, <2>5, <2>6 DEF Destroy
<1>10. ASSUME NEW t \in Threads, SkipInit(t) PROVE SoleObjects'
  BY <1>10 DEF SkipInit, SoleObjects, Sole, IInv, TypeOK, Control,
     ManagerLife, OneLiveManager, CreatingPCs, DrainPCs, FiniPCs
<1>11. ASSUME NEW t \in Threads, AcquireInit(t) PROVE SoleObjects'
  BY <1>11 DEF AcquireInit, SoleObjects, Sole, IInv, TypeOK, Control,
     ManagerLife, OneLiveManager, CreatingPCs, DrainPCs, FiniPCs
<1>12. ASSUME NEW t \in Threads, InitSucceeds(t) PROVE SoleObjects'
  BY <1>12 DEF InitSucceeds, SoleObjects, Sole, IInv, TypeOK, Control,
     ManagerLife, OneLiveManager, CreatingPCs, DrainPCs, FiniPCs
<1>13. ASSUME NEW t \in Threads, InitFails(t) PROVE SoleObjects'
  <2>1. PICK b \in Backends : b = local[t]
    BY <1>13 DEF InitFails, IInv, TypeOK, Control, CreatingPCs
  <2>2. Destroy(t, b, "failFini", "failed")
    BY <1>13, <2>1 DEF InitFails, FailCreate
  <2>3. UNCHANGED <<weak, backendMap, draining, dropped>>
    BY <1>13 DEF InitFails
  <2>4. stage[b] # "none"
    BY <1>13, <2>1 DEF InitFails, IInv, LocalStage
  <2>5. CASE Gone(t, b) /\ pc' = [pc EXCEPT ![t] = "failed"]
    BY <2>1, <2>3, <2>5, SoleKept DEF Gone, IInv, TypeOK
  <2>6. CASE /\ stage' = [stage EXCEPT ![b] = "finalizing"]
             /\ local' = [local EXCEPT ![t] = b]
             /\ pc' = [pc EXCEPT ![t] = "failFini"]
             /\ UNCHANGED key
    BY <2>1, <2>3, <2>4, <2>6, SoleKept DEF IInv, TypeOK, CreatingPCs
  <2> QED
    BY <2>2, <2>5, <2>6 DEF Destroy
<1>14. ASSUME NEW t \in Threads, UpdateAttributes(t) PROVE SoleObjects'
  <2>1. \A b \in Backends : stage'[b] # "none" => stage[b] # "none"
    BY <1>14 DEF UpdateAttributes, IInv, LocalStage, TypeOK
  <2>2. \A u \in Threads : pc[u] \in CreatingPCs => pc'[u] \in CreatingPCs
    BY <1>14 DEF UpdateAttributes, IInv, TypeOK, CreatingPCs
  <2> QED
    BY <1>14, <2>1, <2>2, SoleKept DEF UpdateAttributes
<1>15. ASSUME NEW t \in Threads, Publish(t) PROVE SoleObjects'
  <2> DEFINE b == local[t]
             l == key[b].lib
  <2>1. /\ manager[t] = weak /\ weak \in Managers
        /\ b \in Backends /\ l \in Libs
        /\ stage[b] # "none" /\ ~Referenced(b)
    BY <1>15 DEF Publish, IInv, TypeOK, Control, CreatingPCs, LocalStage,
       Ownership, ManagerLife, OneLiveManager
  <2>2. UNCHANGED <<weak, draining, dropped, stage, key>>
    BY <1>15 DEF Publish
  <2>3. \A j \in Libs : backendMap'[weak][j] =
            IF j = l /\ backendMap[weak][j] = None THEN b
            ELSE backendMap[weak][j]
    BY <1>15, <2>1 DEF Publish, Inserted, IInv, TypeOK
  <2>4. \A u \in Threads : pc[u] \in CreatingPCs => u = t
    BY <1>15 DEF Publish, IInv, Control, LockNesting, CreatingPCs
  <2>5. ASSUME NEW c \in Backends, ~dropped, stage[c] # "none",
               AskedOnce(key[c].lib)
        PROVE  backendMap'[weak][key[c].lib] = c
    <3>1. Sole(c) /\ key[c].lib \in Libs
      BY <2>5 DEF SoleObjects, IInv, Ownership, TypeOK
    <3>2. CASE c = b
      <4>1. backendMap[weak][l] # b
        BY <2>1 DEF Referenced, Registered
      <4>2. backendMap[weak][l] = None
        BY <3>1, <3>2, <4>1 DEF Sole
      <4> QED
        BY <2>1, <2>3, <3>2, <4>2
    <3>3. CASE c # b
      <4>1. backendMap[weak][key[c].lib] = c
        BY <2>4, <3>1, <3>3 DEF Sole
      <4>2. c # None
        BY <2>5
      <4> QED
        BY <2>3, <3>1, <4>1, <4>2
    <3> QED
      BY <3>2, <3>3
  <2>6. weak # None
    BY <2>1
  <2> QED
    BY <2>2, <2>5, <2>6 DEF SoleObjects, Sole
<1>16. ASSUME NEW t \in Threads, FailedFinalized(t) PROVE SoleObjects'
  BY <1>16 DEF FailedFinalized, Gone, SoleObjects, Sole, IInv, TypeOK, Control,
     ManagerLife, OneLiveManager, CreatingPCs, DrainPCs, FiniPCs
<1>17. ASSUME NEW t \in Threads, ReleaseFinalized(t) PROVE SoleObjects'
  BY <1>17 DEF ReleaseFinalized, Gone, SoleObjects, Sole, IInv, TypeOK, Control,
     ManagerLife, OneLiveManager, CreatingPCs, DrainPCs, FiniPCs
<1>18. ASSUME NEW t \in Threads, NEW l \in Libs, DrainEntry(t, l)
       PROVE  SoleObjects'
  BY <1>18 DEF DrainEntry, Unreference, Destroy, Gone, SoleObjects, IInv,
     TypeOK, Control,
     ManagerLife, OneLiveManager, CreatingPCs, DrainPCs, FiniPCs
<1>19. ASSUME NEW t \in Threads, DrainFinalized(t) PROVE SoleObjects'
  BY <1>19 DEF DrainFinalized, Gone, SoleObjects, Sole, IInv, TypeOK, Control,
     ManagerLife, OneLiveManager, CreatingPCs, DrainPCs, FiniPCs
<1>20. ASSUME NEW t \in Threads, DrainDone(t) PROVE SoleObjects'
  BY <1>20 DEF DrainDone, SoleObjects, Sole, IInv, TypeOK, Control,
     ManagerLife, OneLiveManager, CreatingPCs, DrainPCs, FiniPCs
<1>21. ASSUME NEW t \in Threads, DropOut(t) PROVE SoleObjects'
  <2>1. /\ pc[t] = "failed" /\ pc' = [pc EXCEPT ![t] = "idle"]
        /\ UNCHANGED <<weak, backendMap, draining, dropped, local, stage, key>>
    BY <1>21, DropOutSpares DEF DropOut
  <2>2. \A u \in Threads : pc[u] \in CreatingPCs => pc'[u] \in CreatingPCs
    BY <2>1 DEF IInv, TypeOK, CreatingPCs
  <2> QED
    BY <2>1, <2>2, SoleKept
<1>22. ASSUME NEW t \in Threads, NEW b \in Backends, AcquireModelInit(t, b)
       PROVE  SoleObjects'
  <2>1. \A u \in Threads : pc[u] \in CreatingPCs => pc'[u] \in CreatingPCs
    BY <1>22 DEF AcquireModelInit, IInv, TypeOK, CreatingPCs
  <2> QED
    BY <1>22, <2>1, SoleKept DEF AcquireModelInit
<1>23. ASSUME NEW t \in Threads, ModelInitEnds(t) PROVE SoleObjects'
  <2>1. \A u \in Threads : pc[u] \in CreatingPCs => pc'[u] \in CreatingPCs
    BY <1>23 DEF ModelInitEnds, IInv, TypeOK, CreatingPCs
  <2> QED
    BY <1>23, <2>1, SoleKept DEF ModelInitEnds
<1> QED
  BY <1>1, <1>2, <1>3, <1>4, <1>5, <1>6, <1>7, <1>8, <1>9, <1>10, <1>11,
     <1>12, <1>13, <1>14, <1>15, <1>16, <1>17, <1>18, <1>19, <1>20,
     <1>21, <1>22, <1>23
     DEF Next, Call, Continue

\* As long as no manager was dropped, a library that is asked for under one
\* name has at most one Backend object.
THEOREM OneObject == Spec => []OneObjectPerLibrary
<1>1. Init => SoleObjects
  BY DEF Init, SoleObjects
<1>2. IInv /\ SoleObjects /\ [Next]_vars => SoleObjects'
  BY SoleObjectsStep
<1>3. IInv /\ SoleObjects => OneObjectPerLibrary
  <2> SUFFICES ASSUME IInv, SoleObjects, ~dropped,
                      NEW l \in Libs, AskedOnce(l),
                      NEW b \in Backends, NEW c \in Backends,
                      LibraryInUse(b, l), LibraryInUse(c, l)
               PROVE  b = c
    BY DEF OneObjectPerLibrary
  <2>1. \A t, u \in Threads :
            pc[t] \in CreatingPCs /\ pc[u] \in CreatingPCs => t = u
    BY DEF IInv, Control, LockNesting
  <2> QED
    BY <2>1 DEF LibraryInUse, SoleObjects, Sole
<1> QED
  BY <1>1, <1>2, <1>3, Invariance, PTL DEF Spec

-----------------------------------------------------------------------------
(* What the actions do, in the terms that the refinement needs *)

Frame == <<weak, manager, backendMap, held, draining>>

\* Thread t works on the object b that it creates or throws away.
HandStep(t, b) ==
    /\ UNCHANGED Frame
    /\ \A u \in Threads \ {t} : pc'[u] = pc[u] /\ local'[u] = local[u]
    /\ pc[t] \in CreatingPCs /\ local[t] = b
    /\ \A c \in Backends \ {b} : stage'[c] = stage[c] /\ key'[c] = key[c]
    /\ \/ pc'[t] \in CreatingPCs /\ local'[t] = b /\ key'[b] = key[b]
       \/ pc'[t] = "failed" /\ local'[t] = None /\ stage'[b] = "none"

\* Thread t has run the end of b, which was handed out before.
EndStep(t, b) ==
    /\ UNCHANGED Frame
    /\ \A u \in Threads \ {t} : pc'[u] = pc[u] /\ local'[u] = local[u]
    /\ pc[t] \in {"fini", "drainFini"} /\ local[t] = b
    /\ pc'[t] \in {"idle", "drain"} /\ local'[t] = None
    /\ \A c \in Backends \ {b} : stage'[c] = stage[c] /\ key'[c] = key[c]
    /\ stage[b] = "finalizing" /\ stage'[b] = "none"

\* A step that touches neither objects nor references but out, nor a creation.
AsideStep ==
    /\ UNCHANGED Frame
    /\ UNCHANGED <<local, stage, key>>
    /\ \A u \in Threads : pc'[u] \in CreatingPCs <=> pc[u] \in CreatingPCs

\* The end of a failed call and a model's initialization are such steps.
LEMMA AsideSteps ==
    ASSUME IInv, NEW t \in Threads,
           \/ DropOut(t) \/ ModelInitEnds(t)
           \/ \E b \in Backends : AcquireModelInit(t, b)
    PROVE  AsideStep
  <1>1. CASE DropOut(t)
    <2>1. /\ pc[t] = "failed" /\ pc' = [pc EXCEPT ![t] = "idle"]
          /\ UNCHANGED <<local, stage, key>>
      BY <1>1, DropOutSpares
    <2> QED
      BY <1>1, <2>1 DEF DropOut, AsideStep, Frame, IInv, TypeOK, CreatingPCs
  <1>2. CASE ModelInitEnds(t)
    BY <1>2 DEF ModelInitEnds, AsideStep, Frame, IInv, TypeOK, CreatingPCs
  <1>3. CASE \E b \in Backends : AcquireModelInit(t, b)
    BY <1>3 DEF AcquireModelInit, AsideStep, Frame, IInv, TypeOK, CreatingPCs
  <1> QED
    BY <1>1, <1>2, <1>3

\* What is in a thread's hands is an object.
LEMMA InHands ==
    ASSUME IInv, NEW t \in Threads, local[t] # None
    PROVE  /\ local[t] \in Backends /\ stage[local[t]] # "none"
           /\ key[local[t]] \in Requests
  BY LocalObjectExists DEF IInv, TypeOK, Ownership, LocalExists

LEMMA FailIsHandStep ==
    ASSUME IInv, NEW t \in Threads, pc[t] \in CreatingPCs, FailCreate(t),
           UNCHANGED Frame
    PROVE  HandStep(t, local[t])
  <1> DEFINE b == local[t]
  <1>1. b \in Backends
    BY InHands DEF IInv, Control, TypeOK
  <1>2. CASE /\ stage' = [stage EXCEPT ![b] = "finalizing"]
             /\ local' = [local EXCEPT ![t] = b]
             /\ pc' = [pc EXCEPT ![t] = "failFini"]
             /\ UNCHANGED key
    BY <1>1, <1>2 DEF HandStep, IInv, TypeOK, CreatingPCs
  <1>3. CASE Gone(t, b) /\ pc' = [pc EXCEPT ![t] = "failed"]
    BY <1>1, <1>3 DEF HandStep, IInv, TypeOK, Gone
  <1> QED
    BY <1>2, <1>3 DEF FailCreate, Destroy

LEMMA CreationIsHandStep ==
    ASSUME IInv, NEW t \in Threads,
           \/ AcquireLoad(t) \/ LoadSucceeds(t) \/ LoadFails(t)
           \/ SkipInit(t) \/ AcquireInit(t) \/ InitSucceeds(t) \/ InitFails(t)
           \/ UpdateAttributes(t) \/ FailedFinalized(t)
    PROVE  HandStep(t, local[t])
  <1> USE DEF Frame
  <1>1. CASE LoadFails(t)
    BY <1>1, FailIsHandStep DEF LoadFails, CreatingPCs
  <1>2. CASE InitFails(t)
    BY <1>2, FailIsHandStep DEF InitFails, CreatingPCs
  <1>3. CASE FailedFinalized(t)
    BY <1>3, InHands DEF FailedFinalized, Gone, HandStep, IInv, TypeOK,
       Control, CreatingPCs
  <1>4. CASE AcquireLoad(t) \/ SkipInit(t) \/ AcquireInit(t) \/ InitSucceeds(t)
    BY <1>4 DEF AcquireLoad, SkipInit, AcquireInit, InitSucceeds, HandStep,
       IInv, TypeOK, CreatingPCs
  <1>5. CASE LoadSucceeds(t) \/ UpdateAttributes(t)
    BY <1>5 DEF LoadSucceeds, UpdateAttributes, HandStep, IInv, TypeOK,
       CreatingPCs
  <1> QED
    BY <1>1, <1>2, <1>3, <1>4, <1>5

LEMMA EndIsEndStep ==
    ASSUME IInv, NEW t \in Threads, ReleaseFinalized(t) \/ DrainFinalized(t)
    PROVE  EndStep(t, local[t])
  <1>1. pc[t] \in {"fini", "drainFini"} /\ Gone(t, local[t])
    BY DEF ReleaseFinalized, DrainFinalized
  <1>2. local[t] \in Backends /\ stage[local[t]] = "finalizing"
    BY <1>1, InHands DEF IInv, TypeOK, Control, LocalStage, FiniPCs, DrainPCs
  <1> QED
    BY <1>1, <1>2 DEF ReleaseFinalized, DrainFinalized, Frame, EndStep, Gone,
       IInv, TypeOK

-----------------------------------------------------------------------------
(* The two facts about names and entries that IInv does not state *)

\* Entries only go, and no creating thread or registered object changes.
LEMMA UnservedKept ==
    ASSUME IInv, Unserved,
           \A u \in Threads : pc'[u] \in CreatingPCs =>
               /\ pc[u] \in CreatingPCs
               /\ local'[u] = local[u] /\ manager'[u] = manager[u]
               /\ key'[local[u]] = key[local[u]],
           \A m \in Managers, l \in Libs :
               \/ backendMap'[m][l] = None
               \/ /\ backendMap'[m][l] = backendMap[m][l]
                  /\ key'[backendMap[m][l]] = key[backendMap[m][l]]
    PROVE  Unserved'
  <1> SUFFICES ASSUME NEW u \in Threads, pc'[u] \in CreatingPCs
               PROVE  ~Matches(manager[u], key[local[u]])'
    BY DEF Unserved
  <1>1. manager[u] \in Managers /\ key[local[u]].lib \in Libs
    BY InHands DEF IInv, TypeOK, Control
  <1>2. manager'[u] = manager[u] /\ key'[local'[u]] = key[local[u]]
    OBVIOUS
  <1>3. ~Matches(manager[u], key[local[u]])
    BY DEF Unserved
  <1> DEFINE e == backendMap[manager[u]][key[local[u]].lib]
             f == backendMap'[manager[u]][key[local[u]].lib]
  <1>4. f = None \/ (f = e /\ key'[e] = key[e])
    BY <1>1
  <1>5. Matches(manager[u], key[local[u]])'
           <=> f # None /\ key'[f].name = key[local[u]].name
    BY <1>2 DEF Matches
  <1>6. ~(e # None /\ key[e].name = key[local[u]].name)
    BY <1>3 DEF Matches
  <1> HIDE DEF e, f
  <1> QED
    BY <1>4, <1>5, <1>6

\* No thread is creating a backend while mu_ is free.
LEMMA NobodyCreates ==
    ASSUME IInv, mu = None
    PROVE  \A u \in Threads : pc[u] \notin CreatingPCs
  BY DEF IInv, Control, LockNesting

\* The creating thread holds mu_, so it is the only one.
LEMMA OneCreates ==
    ASSUME IInv, NEW t \in Threads, pc[t] \in CreatingPCs
    PROVE  \A u \in Threads \ {t} : pc[u] \notin CreatingPCs
  BY DEF IInv, Control, LockNesting

LEMMA SoleEntryKept ==
    ASSUME SoleEntry,
           \A m \in Managers, l \in Libs :
               backendMap'[m][l] \in {backendMap[m][l], None}
    PROVE  SoleEntry'
  BY DEF SoleEntry

\* A registered object is in nobody's hands.
LEMMA EntryNotInHands ==
    ASSUME IInv, NEW m \in Managers, NEW l \in Libs, backendMap[m][l] # None
    PROVE  /\ backendMap[m][l] \in Backends
           /\ \A u \in Threads : local[u] # backendMap[m][l]
           /\ stage[backendMap[m][l]] = "ready"
  BY DEF IInv, TypeOK, Ownership, ReferencedUsable, Referenced, Registered

\* A call on b that only drops references to it.
LEMMA UnreferenceServes ==
    ASSUME IInv, Unserved, NEW t \in Threads, NEW b \in Backends,
           NEW running \in {"fini", "drainFini"}, NEW done \in {"idle", "drain"},
           Referenced(b), Unreference(t, b, running, done), UNCHANGED manager,
           \A m \in Managers, l \in Libs :
               backendMap'[m][l] \in {backendMap[m][l], None}
    PROVE  Unserved'
  <1>1. \A u \in Threads : local[u] # b
    BY DEF IInv, Ownership
  <1>2. pc' \in {[pc EXCEPT ![t] = running], [pc EXCEPT ![t] = done]}
    BY DEF Unreference, Destroy
  <1>3. \A u \in Threads : pc'[u] \in CreatingPCs =>
            /\ pc[u] \in CreatingPCs
            /\ local'[u] = local[u]
            /\ key'[local[u]] = key[local[u]]
    <2> SUFFICES ASSUME NEW u \in Threads, pc'[u] \in CreatingPCs
                 PROVE  /\ pc[u] \in CreatingPCs
                        /\ local'[u] = local[u]
                        /\ key'[local[u]] = key[local[u]]
      OBVIOUS
    <2>1. u # t /\ pc[u] \in CreatingPCs
      BY <1>2 DEF IInv, TypeOK, CreatingPCs
    <2>2. local[u] \in Backends \ {b}
      BY <1>1, <2>1 DEF IInv, TypeOK, Control
    <2> QED
      BY <2>1, <2>2, UnreferenceLeaves DEF IInv
  <1>4. \A m \in Managers, l \in Libs : backendMap'[m][l] # None =>
            key'[backendMap[m][l]] = key[backendMap[m][l]]
    <2> SUFFICES ASSUME NEW m \in Managers, NEW l \in Libs,
                        backendMap'[m][l] # None
                 PROVE  key'[backendMap[m][l]] = key[backendMap[m][l]]
      OBVIOUS
    <2>1. backendMap'[m][l] = backendMap[m][l] /\ backendMap[m][l] \in Backends
      BY DEF IInv, TypeOK
    <2>2. Referenced(backendMap[m][l])'
      BY <2>1 DEF Referenced, Registered
    <2> QED
      BY <2>1, <2>2, UnreferenceSpares DEF IInv
  <1> QED
    BY <1>3, <1>4, UnservedKept

LEMMA HandStepServes ==
    ASSUME IInv, Unserved, NEW t \in Threads, HandStep(t, local[t])
    PROVE  Unserved'
  <1> DEFINE b == local[t]
  <1>1. b \in Backends /\ \A u \in Threads \ {t} : pc[u] \notin CreatingPCs
    BY InHands, OneCreates DEF HandStep, IInv, Control, TypeOK
  <1>2. \A u \in Threads : pc'[u] \in CreatingPCs =>
            /\ pc[u] \in CreatingPCs
            /\ local'[u] = local[u] /\ manager'[u] = manager[u]
            /\ key'[local[u]] = key[local[u]]
    BY <1>1 DEF HandStep, Frame, CreatingPCs
  <1>3. \A m \in Managers, l \in Libs : backendMap[m][l] # None =>
            key'[backendMap[m][l]] = key[backendMap[m][l]]
    BY <1>1, EntryNotInHands DEF HandStep
  <1> QED
    BY <1>2, <1>3, UnservedKept DEF HandStep, Frame

LEMMA EndStepServes ==
    ASSUME IInv, Unserved, NEW t \in Threads, EndStep(t, local[t])
    PROVE  Unserved'
  <1> DEFINE b == local[t]
  <1>1. b \in Backends
    BY DEF EndStep, IInv, Control, TypeOK, FiniPCs
  <1>2. \A u \in Threads : pc'[u] \in CreatingPCs =>
            /\ u # t /\ pc[u] \in CreatingPCs
            /\ local'[u] = local[u] /\ manager'[u] = manager[u]
    BY <1>1 DEF EndStep, Frame, CreatingPCs
  <1>3. \A u \in Threads : pc'[u] \in CreatingPCs =>
            key'[local[u]] = key[local[u]]
    BY <1>1, <1>2, InHands DEF EndStep, IInv, Ownership, Control
  <1>4. \A m \in Managers, l \in Libs : backendMap[m][l] # None =>
            key'[backendMap[m][l]] = key[backendMap[m][l]]
    BY <1>1, EntryNotInHands DEF EndStep
  <1> QED
    BY <1>2, <1>3, <1>4, UnservedKept DEF EndStep, Frame

\* The new entry is for a library that had none, and for no other.
LEMMA PublishesSoleEntry ==
    ASSUME IInv, SoleEntry, NEW t \in Threads, Publish(t)
    PROVE  SoleEntry'
  <1> DEFINE m == manager[t]
             b == local[t]
             l == key[b].lib
  <1>1. m \in Managers /\ b \in Backends /\ l \in Libs
    BY InHands DEF IInv, TypeOK, Control, Publish, CreatingPCs
  <1>2. \A k \in Managers, j \in Libs :
            \/ backendMap'[k][j] = backendMap[k][j]
            \/ k = m /\ j = l /\ backendMap'[k][j] = b
    BY <1>1 DEF Publish, Inserted, IInv, TypeOK
  <1>3. \A k \in Managers, j \in Libs : backendMap[k][j] # b
    BY <1>1, EntryNotInHands
  <1> QED
    BY <1>1, <1>2, <1>3 DEF SoleEntry

\* The destructor drops entry l of the manager in its hands.
LEMMA DrainedEntry ==
    ASSUME IInv, NEW t \in Threads, NEW l \in Libs, DrainEntry(t, l)
    PROVE  /\ draining[t] \in Managers /\ backendMap[draining[t]][l] \in Backends
           /\ local[t] = None /\ Referenced(backendMap[draining[t]][l])
           /\ Unreference(t, backendMap[draining[t]][l], "drainFini", "drain")
           /\ \A k \in Managers, j \in Libs : backendMap'[k][j] =
                  IF k = draining[t] /\ j = l THEN None ELSE backendMap[k][j]
  <1>1. draining[t] \in Managers /\ local[t] = None
    BY DEF DrainEntry, IInv, TypeOK, Control, CreatingPCs, FiniPCs, DrainPCs
  <1>2. PICK b \in Backends : /\ b = backendMap[draining[t]][l]
                              /\ Unreference(t, b, "drainFini", "drain")
    BY DEF DrainEntry
  <1>3. Referenced(b)
    BY <1>1, <1>2 DEF Referenced, Registered
  <1>4. \A k \in Managers, j \in Libs : backendMap'[k][j] =
           IF k = draining[t] /\ j = l THEN None ELSE backendMap[k][j]
    BY <1>1 DEF DrainEntry, IInv, TypeOK
  <1> QED
    BY <1>1, <1>2, <1>3, <1>4

LEMMA NewManagerEmpty ==
    ASSUME IInv, NEW t \in Threads, CreateManager(t)
    PROVE  \A m \in Managers, l \in Libs : backendMap'[m][l] = backendMap[m][l]
  BY DEF CreateManager, IInv, TypeOK, ManagerLife

LEMMA UnservedStep ==
    ASSUME IInv, Unserved, [Next]_vars
    PROVE  Unserved'
  <1>1. CASE UNCHANGED vars
    BY <1>1 DEF vars, Unserved, Matches
  <1>2. ASSUME NEW t \in Threads, CreateManager(t) PROVE Unserved'
    BY <1>2, NobodyCreates DEF CreateManager, Unserved
  <1>3. ASSUME NEW t \in Threads, NEW r \in Requests, ReuseBackend(t, r)
        PROVE  Unserved'
    BY <1>3, NobodyCreates DEF ReuseBackend, MayCreate, Unserved
  <1>4. ASSUME NEW t \in Threads, NEW r \in Requests, BeginCreate(t, r)
        PROVE  Unserved'
    <2>1. PICK b \in Backends : /\ stage[b] = "none"
                                /\ local' = [local EXCEPT ![t] = b]
                                /\ key' = [key EXCEPT ![b] = r]
      BY <1>4 DEF BeginCreate
    <2>2. \A u \in Threads : pc'[u] \in CreatingPCs => u = t
      BY <1>4, NobodyCreates DEF BeginCreate, MayCreate, IInv, TypeOK
    <2>3. /\ key'[local'[t]] = r
          /\ UNCHANGED <<manager, backendMap>>
          /\ manager[t] \in Managers /\ r.lib \in Libs
          /\ ~Matches(manager[t], r)
      BY <1>4, <2>1 DEF BeginCreate, MayCreate, IInv, TypeOK
    <2>4. backendMap[manager[t]][r.lib] # None =>
              key'[backendMap[manager[t]][r.lib]]
                  = key[backendMap[manager[t]][r.lib]]
      BY <2>1, <2>3, EntryNotInHands DEF IInv, TypeOK
    <2> QED
      BY <2>2, <2>3, <2>4 DEF Unserved, Matches
  <1>5. ASSUME NEW t \in Threads, NEW b \in Backends, ReleaseBackend(t, b)
        PROVE  Unserved'
    BY <1>5, UnreferenceServes DEF ReleaseBackend, Referenced
  <1>6. ASSUME NEW t \in Threads, ReleaseManager(t) PROVE Unserved'
    <2>1. \A u \in Threads : pc'[u] \in CreatingPCs =>
              u # t /\ pc[u] \in CreatingPCs /\ manager'[u] = manager[u]
      BY <1>6 DEF ReleaseManager, IInv, TypeOK, CreatingPCs
    <2> QED
      BY <1>6, <2>1, UnservedKept DEF ReleaseManager
  <1>7. ASSUME NEW t \in Threads, HandStep(t, local[t]) PROVE Unserved'
    BY <1>7, HandStepServes
  <1>8. ASSUME NEW t \in Threads, Publish(t) PROVE Unserved'
    <2>1. pc[t] \in CreatingPCs /\ pc' = [pc EXCEPT ![t] = "idle"]
      BY <1>8 DEF Publish, CreatingPCs
    <2> QED
      BY <2>1, OneCreates DEF Unserved, IInv, TypeOK, CreatingPCs
  <1>9. ASSUME NEW t \in Threads, EndStep(t, local[t]) PROVE Unserved'
    BY <1>9, EndStepServes
  <1>10. ASSUME NEW t \in Threads, NEW l \in Libs, DrainEntry(t, l)
         PROVE  Unserved'
    <2>1. \A m \in Managers, k \in Libs :
              backendMap'[m][k] \in {backendMap[m][k], None}
      BY <1>10, DrainedEntry
    <2>2. PICK b \in Backends :
              Referenced(b) /\ Unreference(t, b, "drainFini", "drain")
      BY <1>10, DrainedEntry
    <2> QED
      BY <1>10, <2>1, <2>2, UnreferenceServes DEF DrainEntry
  <1>11. ASSUME NEW t \in Threads, DrainDone(t) PROVE Unserved'
    <2>1. \A u \in Threads : pc'[u] \in CreatingPCs => pc[u] \in CreatingPCs
      BY <1>11 DEF DrainDone, IInv, TypeOK, CreatingPCs
    <2> QED
      BY <1>11, <2>1, UnservedKept DEF DrainDone
  <1>12. CASE AsideStep
    BY <1>12, UnservedKept DEF AsideStep, Frame
  <1> QED
    BY <1>1, <1>2, <1>3, <1>4, <1>5, <1>6, <1>7, <1>8, <1>9, <1>10, <1>11,
       <1>12, CreationIsHandStep, EndIsEndStep, AsideSteps DEF Next, Call, Continue

LEMMA SoleEntryStep ==
    ASSUME IInv, SoleEntry, [Next]_vars
    PROVE  SoleEntry'
  <1>1. CASE UNCHANGED backendMap
    BY <1>1, SoleEntryKept
  <1>2. ASSUME NEW t \in Threads, CreateManager(t) PROVE SoleEntry'
    BY <1>2, NewManagerEmpty, SoleEntryKept
  <1>3. ASSUME NEW t \in Threads, Publish(t) PROVE SoleEntry'
    BY <1>3, PublishesSoleEntry
  <1>4. ASSUME NEW t \in Threads, NEW l \in Libs, DrainEntry(t, l)
        PROVE  SoleEntry'
    BY <1>4, DrainedEntry, SoleEntryKept
  <1> QED
    BY <1>1, <1>2, <1>3, <1>4 DEF Next, Call, Continue, vars, ReuseBackend,
       BeginCreate, ReleaseBackend, ReleaseManager, AcquireLoad, LoadSucceeds,
       LoadFails, SkipInit, AcquireInit, InitSucceeds, InitFails,
       UpdateAttributes, FailedFinalized, DropOut, AcquireModelInit,
       ModelInitEnds, ReleaseFinalized, DrainFinalized, DrainDone

\* The invariant that the refinement rests on.
THEOREM RefinementInvariance == Spec => []RInv
  <1>1. Init => Unserved /\ SoleEntry
    BY DEF Init, Unserved, SoleEntry, CreatingPCs
  <1>2. RInv /\ [Next]_vars => RInv'
    BY NextIInv, UnservedStep, SoleEntryStep DEF RInv
  <1> QED
    BY <1>1, <1>2, InitIInv, PTL DEF Spec, RInv
-----------------------------------------------------------------------------
(* What a step does to the mapped state *)

\* Being in use means the same in both specifications.
SameUse == \A b \in Backends : Registry!InUse(b) <=> Referenced(b)

LEMMA InUseIff == IInv => SameUse
  <1> SUFFICES ASSUME IInv, NEW b \in Backends
               PROVE  Registry!InUse(b) <=> Referenced(b)
    BY DEF SameUse
  <1>1. Registry!InUse(b) => Referenced(b)
    BY DEF Registry!InUse, Registry!Registered, Entries, Leftover, Referenced,
       Registered, IInv, TypeOK
  <1>2. Registered(b) => Registry!InUse(b)
    BY DEF Registry!InUse, Registry!Registered, Entries, Leftover, Registered,
       IInv, TypeOK, ManagerLife, OneLiveManager, FreeManager
  <1>3. ASSUME NEW t \in Threads, out[t] = b PROVE Registered(b)
    <2>1. manager[t] \in Managers
      BY <1>3 DEF IInv, TypeOK, Control
    <2> QED
      BY <1>3, <2>1 DEF IInv, MismatchRegistered, Registered
  <1> QED
    BY <1>1, <1>2, <1>3 DEF Referenced, Registry!InUse

\* An object that nobody creates or throws away is mapped to what it is.
LEMMA Mapped ==
    ASSUME IInv, NEW b \in Backends, \A t \in Threads : local[t] # b,
           stage[b] = "ready"
    PROVE  Life[b] = "usable" /\ Identity[b] = key[b] /\ key[b] \in Requests
  BY DEF Life, LifeOf, Identity, IdentityOf, Visible, IInv, TypeOK, Ownership

\* Nothing is seen of a step that leaves each object in the hands it is in.
LEMMA SameLife ==
    ASSUME NEW c \in Backends, stage'[c] = stage[c], key'[c] = key[c],
           \A u \in Threads : local'[u] = c /\ pc'[u] \in CreatingPCs
               <=> local[u] = c /\ pc[u] \in CreatingPCs
    PROVE  Life'[c] = Life[c] /\ Identity'[c] = Identity[c]
  BY DEF Life, LifeOf, Identity, IdentityOf, Visible

LEMMA SameLives ==
    ASSUME \A c \in Backends : Life'[c] = Life[c] /\ Identity'[c] = Identity[c]
    PROVE  UNCHANGED <<Life, Identity>>
  BY DEF Life, Identity

LEMMA NextLives ==
    ASSUME NEW b \in Backends, NEW x, NEW y,
           Life'[b] = x, Identity'[b] = y,
           \A c \in Backends \ {b} :
               Life'[c] = Life[c] /\ Identity'[c] = Identity[c]
    PROVE  /\ Life' = [Life EXCEPT ![b] = x]
           /\ Identity' = [Identity EXCEPT ![b] = y]
  BY DEF Life, Identity

LEMMA SameFrame ==
    ASSUME UNCHANGED Frame
    PROVE  UNCHANGED <<Users, Entries, held, Leftover>>
  BY DEF Frame, Users, Entries, Leftover

\* The registry sees nothing of a creation before it ends.
LEMMA HandStepStutters ==
    ASSUME IInv, NEW t \in Threads, HandStep(t, local[t])
    PROVE  UNCHANGED Registry!vars
  <1>1. PICK b \in Backends : b = local[t] /\ HandStep(t, b)
    BY DEF HandStep, IInv, Control, TypeOK
  <1>2. ASSUME NEW c \in Backends \ {b}
        PROVE  Life'[c] = Life[c] /\ Identity'[c] = Identity[c]
    BY <1>1, <1>2, SameLife DEF HandStep
  <1>3. ~Visible(b) /\ ~Visible(b)'
    BY <1>1 DEF HandStep, Visible
  <1>4. Life'[b] = Life[b] /\ Identity'[b] = Identity[b]
    BY <1>1, <1>3 DEF Life, LifeOf, Identity, IdentityOf
  <1> QED
    BY <1>2, <1>4, SameLives, SameFrame DEF HandStep, Registry!vars

LEMMA BeginStutters ==
    ASSUME IInv, NEW t \in Threads, NEW r \in Requests, BeginCreate(t, r)
    PROVE  UNCHANGED Registry!vars
  <1>1. PICK b \in Backends : /\ stage[b] = "none"
                              /\ local' = [local EXCEPT ![t] = b]
                              /\ stage' = [stage EXCEPT ![b] = "constructed"]
                              /\ key' = [key EXCEPT ![b] = r]
    BY DEF BeginCreate
  <1>2. local[t] = None /\ pc' = [pc EXCEPT ![t] = "load"]
    BY DEF BeginCreate, MayCreate, IInv, Control, CreatingPCs, FiniPCs
  <1>3. ASSUME NEW c \in Backends \ {b}
        PROVE  Life'[c] = Life[c] /\ Identity'[c] = Identity[c]
    BY <1>1, <1>2, <1>3, SameLife DEF IInv, TypeOK
  <1>4. ~Visible(b) /\ ~Visible(b)'
    BY <1>1, <1>2 DEF Visible, IInv, TypeOK, CreatingPCs
  <1>5. Life'[b] = Life[b] /\ Identity'[b] = Identity[b]
    BY <1>4 DEF Life, LifeOf, Identity, IdentityOf
  <1>6. UNCHANGED Frame
    BY DEF BeginCreate, Frame
  <1> QED
    BY <1>3, <1>5, <1>6, SameLives, SameFrame DEF Registry!vars

\* The end of an object's finalizer is the abstract one's.
LEMMA EndStepFinalizes ==
    ASSUME IInv, NEW t \in Threads, EndStep(t, local[t])
    PROVE  \E b \in Backends : Registry!Finalized(b)
  <1>1. PICK b \in Backends : b = local[t] /\ EndStep(t, b)
    BY DEF EndStep, IInv, Control, TypeOK, FiniPCs
  <1>2. ASSUME NEW c \in Backends \ {b}
        PROVE  Life'[c] = Life[c] /\ Identity'[c] = Identity[c]
    BY <1>1, <1>2, SameLife DEF EndStep
  <1>3. Visible(b) /\ ~Visible(b)'
    BY <1>1 DEF EndStep, Visible, IInv, Ownership, CreatingPCs
  <1>4. Life[b] = "finalizing" /\ Life'[b] = "absent" /\ Identity'[b] = None
    BY <1>1, <1>3 DEF Life, LifeOf, Identity, IdentityOf, EndStep, Visible
  <1>5. /\ Life' = [Life EXCEPT ![b] = "absent"]
        /\ Identity' = [Identity EXCEPT ![b] = None]
    BY <1>1, <1>2, <1>4, NextLives
  <1> QED
    BY <1>1, <1>4, <1>5, SameFrame DEF EndStep, Registry!Finalized

\* Dropping a reference means the same in both specifications.
LEMMA UnreferenceDrops ==
    ASSUME IInv, IInv', NEW t \in Threads, NEW b \in Backends,
           NEW running \in {"fini", "drainFini"}, NEW done \in {"idle", "drain"},
           Referenced(b), local[t] = None,
           Unreference(t, b, running, done)
    PROVE  Registry!Dropped(b)
  <1>1. /\ \A u \in Threads : local[u] # b
        /\ stage[b] = "ready" /\ Identity[b] = key[b]
    BY Mapped DEF IInv, Ownership, ReferencedUsable
  <1>2. Registry!InUse(b)' <=> Referenced(b)'
    <2>1. SameUse'
      BY InUseIff, PTL
    <2> QED
      BY <2>1 DEF SameUse
  <1>3. CASE Referenced(b)'
    <2>1. pc' = [pc EXCEPT ![t] = done] /\ UNCHANGED <<local, stage, key>>
      BY <1>3 DEF Unreference
    <2>2. \A c \in Backends : Life'[c] = Life[c] /\ Identity'[c] = Identity[c]
      BY <2>1, SameLife DEF IInv, TypeOK
    <2> QED
      BY <1>2, <1>3, <2>2, SameLives DEF Registry!Dropped
  <1>4. ASSUME ~Referenced(b)', Destroy(t, b, running, done)
        PROVE  Registry!Dropped(b)
    <2>1. ASSUME NEW c \in Backends \ {b}
          PROVE  Life'[c] = Life[c] /\ Identity'[c] = Identity[c]
      <3>1. stage'[c] = stage[c] /\ key'[c] = key[c]
        BY <1>4 DEF Destroy, Gone, IInv, TypeOK
      <3>2. /\ \A u \in Threads \ {t} : local'[u] = local[u] /\ pc'[u] = pc[u]
            /\ local'[t] # c /\ local[t] # c
        BY <1>4 DEF Destroy, Gone, IInv, TypeOK
      <3> QED
        BY <3>1, <3>2, SameLife
    <2>2. CASE key[b].lib \in FiniLibs
      <3>1. Visible(b)' /\ stage'[b] = "finalizing" /\ key'[b] = key[b]
        BY <1>1, <1>4, <2>2 DEF Destroy, Visible, IInv, TypeOK, CreatingPCs
      <3>2. Life'[b] = "finalizing" /\ Identity'[b] = Identity[b]
        BY <1>1, <3>1 DEF Life, LifeOf, Identity, IdentityOf
      <3>3. /\ Life' = [Life EXCEPT ![b] = "finalizing"]
            /\ Identity' = [Identity EXCEPT ![b] = Identity[b]]
        BY <2>1, <3>2, NextLives
      <3> QED
        BY <1>1, <1>2, <1>4, <2>2, <3>3 DEF Registry!Dropped, Identity
    <2>3. CASE key[b].lib \notin FiniLibs
      <3>1. ~Visible(b)'
        BY <1>1, <1>4, <2>3 DEF Destroy, Gone, Visible, IInv, TypeOK
      <3>2. Life'[b] = "absent" /\ Identity'[b] = None
        BY <3>1 DEF Life, LifeOf, Identity, IdentityOf
      <3>3. /\ Life' = [Life EXCEPT ![b] = "absent"]
            /\ Identity' = [Identity EXCEPT ![b] = None]
        BY <2>1, <3>2, NextLives
      <3> QED
        BY <1>1, <1>2, <1>4, <2>3, <3>3 DEF Registry!Dropped
    <2> QED
      BY <2>2, <2>3
  <1> QED
    BY <1>3, <1>4 DEF Unreference

-----------------------------------------------------------------------------
(* Each step of the code is a step of the registry, or none *)

LEMMA CreateManagerJoins ==
    ASSUME IInv, NEW t \in Threads, CreateManager(t)
    PROVE  Registry!Join(t)
  <1>1. Users' = Users \cup {t}
    BY DEF CreateManager, Users, IInv, TypeOK
  <1>2. Entries' = Entries
    BY DEF CreateManager, Entries, IInv, TypeOK
  <1>3. Leftover' = Leftover
    BY NewManagerEmpty DEF CreateManager, Leftover, IInv, TypeOK
  <1>4. UNCHANGED <<Life, Identity>>
    BY SameLife, SameLives DEF CreateManager
  <1>5. held' = held
    BY DEF CreateManager
  <1> QED
    BY <1>1, <1>2, <1>3, <1>4, <1>5 DEF Registry!Join

\* The thread's manager is the live one, so its entries are the registry's.
LEMMA EntriesOf ==
    ASSUME IInv, NEW t \in Threads, manager[t] # None
    PROVE  /\ t \in Users /\ manager[t] = weak /\ weak \in Managers
           /\ Entries = [l \in Libs |-> backendMap[manager[t]][l]]
  BY DEF Users, Entries, IInv, TypeOK, ManagerLife, OneLiveManager

LEMMA ReuseShares ==
    ASSUME IInv, NEW t \in Threads, NEW r \in Requests, ReuseBackend(t, r)
    PROVE  Registry!Share(t, r)
  <1> DEFINE e == backendMap[manager[t]][r.lib]
  <1>1. /\ manager[t] \in Managers /\ r.lib \in Libs
        /\ t \in Users /\ Entries[r.lib] = e /\ e # None
        /\ key[e].name = r.name
    BY EntriesOf DEF ReuseBackend, MayCreate, Matches, IInv, TypeOK
  <1>2. /\ e \in Backends /\ Identity[e] = key[e] /\ key[e] \in Requests
        /\ key[e].lib = r.lib
    BY <1>1, EntryNotInHands, Mapped DEF IInv, ReferencedUsable
  <1>3. key[e] = r
    BY <1>1, <1>2
  <1>4. UNCHANGED <<Users, Entries, Leftover>>
    BY DEF ReuseBackend, Users, Entries, Leftover
  <1>5. UNCHANGED <<Life, Identity>>
    BY SameLife, SameLives DEF ReuseBackend
  <1> QED
    BY <1>1, <1>2, <1>3, <1>4, <1>5
       DEF Registry!Share, Registry!Serves, ReuseBackend

LEMMA PublishAdds ==
    ASSUME RInv, NEW t \in Threads, Publish(t)
    PROVE  \E r \in Requests, b \in Backends : Registry!Add(t, r, b)
  <1> USE DEF RInv
  <1>1. PICK b \in Backends : b = local[t] /\ stage[b] = "ready"
    BY DEF Publish, IInv, TypeOK, Control, LocalStage, CreatingPCs
  <1>2. PICK r \in Requests : r = key[b]
    BY <1>1, InHands DEF IInv
  <1>3. /\ pc[t] \in CreatingPCs /\ manager[t] # None
        /\ ~Matches(manager[t], r) /\ r.lib \in Libs
    BY <1>1, <1>2 DEF Publish, CreatingPCs, IInv, Control, Unserved
  <1>4. /\ t \in Users /\ manager[t] = weak /\ weak \in Managers
        /\ Entries = [l \in Libs |-> backendMap[weak][l]]
    BY <1>3, EntriesOf
  <1>5. ~Registry!Serves(r)
    <2> SUFFICES ASSUME Entries[r.lib] # None PROVE Identity[Entries[r.lib]] # r
      BY DEF Registry!Serves
    <2>1. Identity[Entries[r.lib]] = key[Entries[r.lib]]
      BY <1>3, <1>4, EntryNotInHands, Mapped
    <2> QED
      BY <1>3, <1>4, <2>1 DEF Matches
  <1>6. ~Visible(b) /\ Visible(b)'
    <2>1. \A u \in Threads : local'[u] # b
      BY <1>1 DEF Publish, IInv, TypeOK, Ownership
    <2> QED
      BY <1>1, <1>3, <2>1 DEF Visible, Publish
  <1>7. Life[b] = "absent" /\ Life'[b] = "usable" /\ Identity'[b] = r
    BY <1>1, <1>2, <1>6 DEF Life, LifeOf, Identity, IdentityOf, Publish
  <1>8. ASSUME NEW c \in Backends \ {b}
        PROVE  Life'[c] = Life[c] /\ Identity'[c] = Identity[c]
    BY <1>1, <1>8, SameLife DEF Publish, IInv, TypeOK
  <1>9. /\ Life' = [Life EXCEPT ![b] = "usable"]
        /\ Identity' = [Identity EXCEPT ![b] = r]
    BY <1>7, <1>8, NextLives
  <1>10. \A k \in Managers, j \in Libs : backendMap'[k][j] =
            IF k = weak /\ j = r.lib
            THEN IF backendMap[k][j] = None THEN b ELSE backendMap[k][j]
            ELSE backendMap[k][j]
    BY <1>1, <1>2, <1>3, <1>4 DEF Publish, Inserted, IInv, TypeOK
  <1>11. UNCHANGED <<weak, manager, draining>>
    BY DEF Publish
  <1>12. Entries' = [Entries EXCEPT ![r.lib] = IF @ = None THEN b ELSE @]
    BY <1>3, <1>4, <1>10, <1>11 DEF Entries
  <1>13. Leftover' = Leftover
    BY <1>10, <1>11 DEF Leftover, IInv, TypeOK, ManagerLife
  <1>14. Users' = Users /\ held' = [held EXCEPT ![t] = @ \cup {b}]
    BY <1>1, <1>11 DEF Users, Publish
  <1> QED
    BY <1>4, <1>5, <1>7, <1>9, <1>12, <1>13, <1>14 DEF Registry!Add

LEMMA ReleaseReleases ==
    ASSUME IInv, IInv', NEW t \in Threads, NEW b \in Backends,
           ReleaseBackend(t, b)
    PROVE  Registry!Release(t, b)
  <1>1. Referenced(b) /\ local[t] = None
    BY DEF ReleaseBackend, Referenced, IInv, Control, CreatingPCs, FiniPCs
  <1>2. Registry!Dropped(b)
    BY <1>1, UnreferenceDrops DEF ReleaseBackend
  <1>3. UNCHANGED <<Users, Entries, Leftover>>
    BY DEF ReleaseBackend, Users, Entries, Leftover
  <1> QED
    BY <1>2, <1>3 DEF ReleaseBackend, Registry!Release

LEMMA ReleaseManagerLeaves ==
    ASSUME IInv, NEW t \in Threads, ReleaseManager(t)
    PROVE  Registry!Leave(t)
  <1>1. /\ t \in Users /\ manager[t] = weak /\ weak \in Managers
        /\ Entries = [l \in Libs |-> backendMap[weak][l]]
    BY EntriesOf DEF ReleaseManager
  <1>2. Users' = Users \ {t} /\ draining[t] = None
    BY DEF ReleaseManager, Users, IInv, TypeOK, Control, DrainPCs
  <1>3. UNCHANGED <<held, Life, Identity>>
    <2>1. \A u \in Threads : pc'[u] \in CreatingPCs <=> pc[u] \in CreatingPCs
      BY DEF ReleaseManager, IInv, TypeOK, CreatingPCs
    <2> QED
      BY <2>1, SameLife, SameLives DEF ReleaseManager
  <1>4. CASE \E u \in Threads \ {t} : manager[u] = manager[t]
    <2>1. Users' # {}
      BY <1>1, <1>2, <1>4 DEF Users
    <2>2. UNCHANGED <<Entries, Leftover>>
      BY <1>4 DEF ReleaseManager, Entries, Leftover
    <2> QED
      BY <1>1, <1>2, <1>3, <2>1, <2>2 DEF ReleaseManager, Registry!Leave
  <1>5. CASE \A u \in Threads \ {t} : manager[u] # manager[t]
    <2>1. /\ weak' = None /\ backendMap' = backendMap
          /\ draining' = [draining EXCEPT ![t] = weak]
      BY <1>1, <1>5 DEF ReleaseManager
    <2>2. Users' = {}
      BY <1>1, <1>2, <1>5 DEF Users, IInv, ManagerLife, OneLiveManager
    <2>3. Entries' = [l \in Libs |-> None]
      BY <2>1 DEF Entries
    <2>4. \A b \in Backends : Registry!Registered(b)
              <=> \E l \in Libs : backendMap[weak][l] = b
      BY <1>1 DEF Registry!Registered
    <2>5. Leftover' = Leftover \cup {b \in Backends : Registry!Registered(b)}
      <3>1. \A u \in Threads : draining'[u] =
                IF u = t THEN weak ELSE draining[u]
        BY <2>1 DEF IInv, TypeOK
      <3>2. ASSUME NEW b \in Backends
            PROVE  (\E u \in Threads, l \in Libs : /\ draining'[u] # None
                        /\ backendMap'[draining'[u]][l] = b)
                   <=> \/ \E u \in Threads, l \in Libs : /\ draining[u] # None
                              /\ backendMap[draining[u]][l] = b
                       \/ \E l \in Libs : backendMap[weak][l] = b
        BY <1>1, <1>2, <2>1, <3>1
      <3> QED
        BY <2>4, <3>2 DEF Leftover
    <2> QED
      BY <1>1, <1>2, <1>3, <2>2, <2>3, <2>5 DEF ReleaseManager, Registry!Leave
  <1> QED
    BY <1>4, <1>5

LEMMA DrainLetsGo ==
    ASSUME RInv, IInv', NEW t \in Threads, NEW l \in Libs, DrainEntry(t, l)
    PROVE  \E b \in Backends : Registry!LetGo(b)
  <1> USE DEF RInv
  <1>1. PICK b \in Backends :
            /\ b = backendMap[draining[t]][l]
            /\ Referenced(b) /\ Unreference(t, b, "drainFini", "drain")
    BY DrainedEntry
  <1>2. /\ draining[t] \in Managers /\ local[t] = None
        /\ \A k \in Managers, j \in Libs : backendMap'[k][j] =
               IF k = draining[t] /\ j = l THEN None ELSE backendMap[k][j]
    BY DrainedEntry
  <1>3. Registry!Dropped(b)
    BY <1>1, <1>2, UnreferenceDrops
  <1>4. UNCHANGED <<weak, manager, held, draining>>
    BY DEF DrainEntry
  <1>5. UNCHANGED <<Users, held>>
    BY <1>4 DEF Users
  <1>6. Entries' = Entries
    <2>1. weak # draining[t] /\ (weak # None => weak \in Managers)
      BY <1>2 DEF IInv, TypeOK, ManagerLife
    <2>2. weak # None => \A j \in Libs : backendMap'[weak][j] = backendMap[weak][j]
      BY <1>2, <2>1
    <2> QED
      BY <1>4, <2>2 DEF Entries
  <1>7. b \in Leftover
    BY <1>1, <1>2 DEF Leftover
  <1>8. Leftover' = Leftover \ {b}
    <2>1. \A k \in Managers, j \in Libs :
              backendMap[k][j] = b => k = draining[t] /\ j = l
      BY <1>1, <1>2 DEF SoleEntry
    <2>2. ASSUME NEW c \in Backends, NEW u \in Threads, draining[u] # None,
                 NEW j \in Libs
          PROVE  backendMap'[draining'[u]][j] = c
                     <=> backendMap[draining[u]][j] = c /\ c # b
      <3>1. PICK k \in Managers : k = draining[u] /\ k = draining'[u]
        BY <1>4, <2>2 DEF IInv, TypeOK
      <3>2. backendMap'[k][j] =
                IF k = draining[t] /\ j = l THEN None ELSE backendMap[k][j]
        BY <1>2
      <3>3. CASE k = draining[t] /\ j = l
        BY <1>1, <2>2, <3>1, <3>2, <3>3
      <3>4. CASE ~(k = draining[t] /\ j = l)
        BY <2>1, <3>1, <3>2, <3>4
      <3> QED
        BY <3>3, <3>4
    <2> QED
      BY <1>4, <2>2 DEF Leftover
  <1> QED
    BY <1>3, <1>5, <1>6, <1>7, <1>8 DEF Registry!LetGo

LEMMA DrainDoneStutters ==
    ASSUME IInv, NEW t \in Threads, DrainDone(t)
    PROVE  UNCHANGED Registry!vars
  <1>1. UNCHANGED <<Users, Entries, held>>
    BY DEF DrainDone, Users, Entries
  <1>2. Leftover' = Leftover
    BY DEF DrainDone, Leftover, IInv, TypeOK, Control
  <1>3. \A u \in Threads : pc'[u] \in CreatingPCs <=> pc[u] \in CreatingPCs
    BY DEF DrainDone, IInv, TypeOK, CreatingPCs
  <1>4. UNCHANGED <<Life, Identity>>
    BY <1>3, SameLife, SameLives DEF DrainDone
  <1> QED
    BY <1>1, <1>2, <1>4 DEF Registry!vars

LEMMA StepImplements == RInv /\ RInv' /\ [Next]_vars => [Registry!Next]_(Registry!vars)
  <1> SUFFICES ASSUME RInv, RInv', [Next]_vars
               PROVE  Registry!Next \/ UNCHANGED Registry!vars
    OBVIOUS
  <1> USE DEF RInv
  <1>1. CASE UNCHANGED vars
    BY <1>1, SameLife, SameLives, SameFrame DEF vars, Frame, Registry!vars
  <1>2. ASSUME NEW t \in Threads, CreateManager(t) PROVE Registry!Next
    BY <1>2, CreateManagerJoins DEF Registry!Next
  <1>3. ASSUME NEW t \in Threads, NEW r \in Requests, ReuseBackend(t, r)
        PROVE  Registry!Next
    BY <1>3, ReuseShares DEF Registry!Next
  <1>4. ASSUME NEW t \in Threads, NEW r \in Requests, BeginCreate(t, r)
        PROVE  UNCHANGED Registry!vars
    BY <1>4, BeginStutters
  <1>5. ASSUME NEW t \in Threads, NEW b \in Backends, ReleaseBackend(t, b)
        PROVE  Registry!Next
    BY <1>5, ReleaseReleases DEF Registry!Next
  <1>6. ASSUME NEW t \in Threads, ReleaseManager(t) PROVE Registry!Next
    BY <1>6, ReleaseManagerLeaves DEF Registry!Next
  <1>7. ASSUME NEW t \in Threads, HandStep(t, local[t])
        PROVE  UNCHANGED Registry!vars
    BY <1>7, HandStepStutters
  <1>8. ASSUME NEW t \in Threads, Publish(t) PROVE Registry!Next
    BY <1>8, PublishAdds DEF Registry!Next
  <1>9. ASSUME NEW t \in Threads, EndStep(t, local[t]) PROVE Registry!Next
    BY <1>9, EndStepFinalizes DEF Registry!Next
  <1>10. ASSUME NEW t \in Threads, NEW l \in Libs, DrainEntry(t, l)
         PROVE  Registry!Next
    BY <1>10, DrainLetsGo DEF Registry!Next
  <1>11. ASSUME NEW t \in Threads, DrainDone(t) PROVE UNCHANGED Registry!vars
    BY <1>11, DrainDoneStutters
  <1>12. CASE AsideStep
    BY <1>12, SameLife, SameLives, SameFrame DEF AsideStep, Registry!vars
  <1> QED
    BY <1>1, <1>2, <1>3, <1>4, <1>5, <1>6, <1>7, <1>8, <1>9, <1>10, <1>11,
       <1>12, CreationIsHandStep, EndIsEndStep, AsideSteps DEF Next, Call, Continue

\* The registry's threads, locks and destructors implement the atomic one.
THEOREM Implements == Spec => ImplementsRegistry
  <1>1. Init => Registry!Init
    BY DEF Init, Registry!Init, Users, Entries, Leftover, Life, LifeOf,
       Identity, IdentityOf, Visible
  <1> QED
    BY <1>1, RefinementInvariance, StepImplements, PTL
       DEF Spec, ImplementsRegistry, Registry!Spec
=============================================================================
