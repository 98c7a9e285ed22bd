-------------------------- MODULE ModelLoadProofs --------------------------
(***************************************************************************)
(* Proofs that the loads of any number of models keep the backends they    *)
(* share in use and get the ones they asked for, and that a model which is *)
(* published has the inputs and shapes its checks promise.                 *)
(***************************************************************************)
EXTENDS ModelLoad, ModelConfigProofs

USE ConstantsAssumption

\* The first search path with the library gives a file of the machine.
LEMMA LibraryFound ==
    ASSUME NEW s, NEW c, FindBackendLibraryPath(s, c) # None
    PROVE  FindBackendLibraryPath(s, c) \in files
  <1> DEFINE paths == GetBackendLibrarySearchPaths(s, c)
             at == {i \in DOMAIN paths : <<paths[i], LibraryName(c)>> \in files}
  <1>1. at # {} /\ FindBackendLibraryPath(s, c) = <<paths[Min(at)], LibraryName(c)>>
    BY DEF FindBackendLibraryPath
  <1>2. at \subseteq 1..3
    BY DEF GetBackendLibrarySearchPaths
  <1>3. \E x \in at : \A y \in at : x <= y
    <2> HIDE DEF at
    <2>1. CASE 1 \in at
      BY <1>2, <2>1
    <2>2. CASE 1 \notin at /\ 2 \in at
      BY <1>2, <2>2
    <2>3. CASE 1 \notin at /\ 2 \notin at
      <3>1. \A y \in at : y = 3
        BY <1>2, <2>3
      <3>2. PICK y \in at : TRUE
        BY <1>1
      <3> QED
        BY <3>1, <3>2
    <2> QED
      BY <2>1, <2>2, <2>3
  <1>4. Min(at) \in at
    <2> HIDE DEF at
    <2> QED
      BY <1>3 DEF Min
  <1> QED
    BY <1>1, <1>4

\* A pair is a sequence.
LEMMA PairIsSeq ==
    ASSUME NEW S, NEW a \in S, NEW b \in S
    PROVE  <<a, b>> \in Seq(S)
  OBVIOUS

\* Naming the library that is used anyway changes nothing of the search.
LEMMA RuntimeNamed ==
    ASSUME NEW c \in Configs
    PROVE  LET named == [c EXCEPT !.runtime = LibraryName(c)]
           IN /\ named \in Configs
              /\ named.backend = c.backend
              /\ LibraryName(named) = LibraryName(c)
  <1> DEFINE name == LibraryName(c)
             named == [c EXCEPT !.runtime = name]
  <1>1. c.backend \in STRING /\ c.runtime \in Seq(STRING)
    BY DEF Configs
  <1>2. name \in Seq(STRING) /\ name # <<>>
    <2>1. CASE c.runtime = <<>>
      <3>1. name = <<RuntimePrefix, c.backend>>
        BY <2>1 DEF LibraryName, AssembleCPPRuntimeLibraryName
      <3>2. <<RuntimePrefix, c.backend>> \in Seq(STRING)
        BY <1>1, PairIsSeq
      <3>3. Len(<<RuntimePrefix, c.backend>>) = 2 /\ Len(<<>>) = 0
        OBVIOUS
      <3> QED
        BY <3>1, <3>2, <3>3
    <2>2. CASE c.runtime # <<>>
      BY <1>1, <2>2 DEF LibraryName
    <2> QED
      BY <2>1, <2>2
  <1> HIDE DEF name
  <1>3. named \in Configs /\ named.backend = c.backend /\ named.runtime = name
    BY <1>2 DEF Configs
  <1>4. LibraryName(named) = name
    BY <1>2, <1>3 DEF LibraryName
  <1> QED
    BY <1>3, <1>4 DEF name

-----------------------------------------------------------------------------
(* The inductive invariant *)

\* The files of a run never change.
LEMMA FilesSame ==
    ASSUME UNCHANGED files, NEW s, NEW c
    PROVE  FindBackendLibraryPath(s, c)' = FindBackendLibraryPath(s, c)
  BY DEF FindBackendLibraryPath

LEMMA InitIInv == Init => IInv
  <1> SUFFICES ASSUME Init PROVE IInv
    OBVIOUS
  <1>1. TypeOK
    BY DEF Init, TypeOK, Stages, Bound
  <1>2. BackendInUse /\ BackendFits
    BY DEF Init, BackendInUse, BackendFits, Bound
  <1>3. RegisteredUsable /\ SettingsKept /\ LibraryFirst
    BY DEF Init, RegisteredUsable, SettingsKept, LibraryFirst
  <1> QED
    BY <1>1, <1>2, <1>3 DEF IInv

\* What the registry does when s lets go: the backends that others have or that
\* are registered are not touched.
LEMMA LetGoKeeps ==
    ASSUME IInv, NEW s \in Slots, LetGoOf(s)
    PROVE  /\ registry' = registry
           /\ models' = [models EXCEPT ![s] = {}]
           /\ life' \in [Backends -> {"absent", "usable", "finalizing"}]
           /\ identity' = [b \in Backends |-> identity'[b]]
           /\ \A b \in Backends :
                 \/ \E l \in Libs : registry[l] = b
                 \/ \E x \in Slots \ {s} : b \in models[x]
                 => life'[b] = life[b]
           /\ \A b \in Backends :
                 life'[b] = "usable" =>
                    life[b] = "usable" /\ identity'[b] = identity[b]
  <1>1. CASE backend[s] = None
    <2>1. UNCHANGED registryVars
      BY <1>1 DEF LetGoOf
    <2>2. models[s] = {}
      BY <1>1 DEF IInv, TypeOK, BackendInUse
    <2>3. models \in [Slots -> SUBSET Backends]
      BY DEF IInv, TypeOK
    <2>4. models' = [models EXCEPT ![s] = {}]
      BY <2>1, <2>2, <2>3 DEF registryVars
    <2> QED
      BY <2>1, <2>4 DEF IInv, TypeOK, registryVars
  <1>2. CASE backend[s] # None
    <2>1. PICK b \in Backends : b = backend[s] /\ R!Release(s, b)
      BY <1>2 DEF LetGoOf
    <2>2. models[s] = {b}
      BY <1>2, <2>1 DEF IInv, TypeOK, BackendInUse
    <2>3. registry' = registry /\ models' = [models EXCEPT ![s] = {}]
      BY <2>1, <2>2 DEF R!Release
    <2>4. CASE R!InUse(b)'
      <3>1. UNCHANGED <<life, identity>>
        BY <2>1, <2>4 DEF R!Release, R!Dropped
      <3> QED
        BY <2>3, <3>1 DEF IInv, TypeOK
    <2>5. CASE ~R!InUse(b)'
      <3>1. /\ \A l \in Libs : registry[l] # b
            /\ \A x \in Slots \ {s} : b \notin models[x]
        BY <2>3, <2>5 DEF IInv, TypeOK, R!InUse, R!Registered
      <3>2. /\ \/ life' = [life EXCEPT ![b] = "finalizing"]
               \/ life' = [life EXCEPT ![b] = "absent"]
            /\ \/ identity' = identity
               \/ identity' = [identity EXCEPT ![b] = None]
        BY <2>1, <2>5 DEF R!Release, R!Dropped
      <3> QED
        BY <2>3, <3>1, <3>2 DEF IInv, TypeOK
    <2> QED
      BY <2>4, <2>5
  <1> QED
    BY <1>1, <1>2

\* A slot that lets go of all it has disturbs no other.
LEMMA DestroyInv ==
    ASSUME IInv, NEW s \in Slots, Destroy(s)
    PROVE  IInv'
  <1> USE DEF Destroy
  <1> DEFINE Mine(b) == \/ \E l \in Libs : registry[l] = b
                        \/ \E x \in Slots \ {s} : b \in models[x]
  <1>1. /\ registry' = registry
        /\ models' = [models EXCEPT ![s] = {}]
        /\ life' \in [Backends -> {"absent", "usable", "finalizing"}]
        /\ identity' = [b \in Backends |-> identity'[b]]
        /\ \A b \in Backends : Mine(b) => life'[b] = life[b]
        /\ \A b \in Backends :
              life'[b] = "usable" =>
                 life[b] = "usable" /\ identity'[b] = identity[b]
    BY LetGoKeeps
  <1>2. TypeOK'
    BY <1>1 DEF IInv, TypeOK, Stages, Bound, ForgetSettings
  <1>3. RegisteredUsable'
    BY <1>1 DEF IInv, TypeOK, RegisteredUsable
  <1>4. BackendInUse'
    BY <1>1 DEF IInv, TypeOK, BackendInUse, Bound
  <1>5. \A b \in Backends : life'[b] = "usable" => made'[b] = made[b]
    BY <1>1 DEF ForgetSettings
  <1>6. SettingsKept'
    <2> SUFFICES ASSUME NEW b \in Backends, life'[b] = "usable"
                 PROVE  made'[b] \in SettingsFor(identity[b].name)'
      BY DEF SettingsKept
    <2>1. life[b] = "usable" /\ identity'[b] = identity[b] /\ made'[b] = made[b]
      BY <1>1, <1>5
    <2>2. made[b] \in SettingsFor(identity[b].name)
      BY <2>1 DEF IInv, SettingsKept
    <2> QED
      BY <2>1, <2>2
  <1>7. BackendFits'
    <2> SUFFICES ASSUME NEW x \in Slots, stage'[x] \in Bound
                 PROVE  /\ identity'[backend'[x]] =
                              [name |-> config'[x].backend, lib |-> lib'[x]]
                        /\ lib'[x] = FindBackendLibraryPath(x, config[x])'
                        /\ made'[backend'[x]] \in SettingsFor(config[x].backend)'
      BY DEF BackendFits, Bound
    <2>1. x # s /\ stage[x] \in Bound
      BY DEF IInv, TypeOK, Bound
    <2>2. /\ config'[x] = config[x] /\ lib'[x] = lib[x]
          /\ backend'[x] = backend[x]
      BY <2>1 DEF IInv, TypeOK
    <2>3. backend[x] \in Backends /\ life'[backend[x]] = "usable"
      BY <1>4, <2>1, <2>2 DEF IInv, TypeOK, BackendInUse
    <2>4. /\ identity[backend[x]] = [name |-> config[x].backend, lib |-> lib[x]]
          /\ lib[x] = FindBackendLibraryPath(x, config[x])
          /\ made[backend[x]] \in SettingsFor(config[x].backend)
      BY <2>1 DEF IInv, BackendFits
    <2>5. lib[x] = FindBackendLibraryPath(x, config[x])'
      BY <2>2, <2>4, FilesSame
    <2>6. made[backend[x]] \in SettingsFor(config[x].backend)'
      BY <2>2, <2>4, FilesSame
    <2> QED
      BY <1>1, <1>5, <2>2, <2>3, <2>4, <2>5, <2>6
  <1>8. LibraryFirst'
    <2> SUFFICES ASSUME NEW x \in Slots, stage'[x] \notin {"empty", "begun"}
                 PROVE  lib'[x] = FindBackendLibraryPath(x, config[x])'
      BY DEF LibraryFirst
    <2>1. /\ stage[x] \notin {"empty", "begun"}
          /\ config'[x] = config[x] /\ lib'[x] = lib[x]
      BY DEF IInv, TypeOK
    <2>2. lib[x] = FindBackendLibraryPath(x, config[x])
      BY <2>1 DEF IInv, LibraryFirst
    <2> QED
      BY <2>1, <2>2, FilesSame
  <1> QED
    BY <1>2, <1>3, <1>4, <1>6, <1>7, <1>8 DEF IInv

\* The steps of a load that leave the registry and the settings alone keep the
\* invariant if the slot is typed and what it has remains what it asked for.
LEMMA SlotInv ==
    ASSUME IInv, NEW s \in Slots, UNCHANGED <<made, files, registryVars>>,
           TypeOK', backend' = backend,
           \A x \in Slots \ {s} :
              /\ stage'[x] = stage[x] /\ config'[x] = config[x]
              /\ lib'[x] = lib[x],
           stage[s] \in Bound <=> stage'[s] \in Bound,
           stage[s] \in Bound => config'[s] = config[s] /\ lib'[s] = lib[s],
           \/ stage'[s] \in {"empty", "begun"}
           \/ lib'[s] = FindBackendLibraryPath(s, config[s])'
    PROVE  IInv'
  <1>1. RegisteredUsable'
    BY DEF IInv, RegisteredUsable, registryVars
  <1>2. BackendInUse'
    BY DEF IInv, BackendInUse, Bound, registryVars
  <1>3. SettingsKept'
    BY DEF IInv, SettingsKept, registryVars
  <1>4. BackendFits'
    <2> SUFFICES ASSUME NEW x \in Slots, stage'[x] \in Bound
                 PROVE  /\ identity'[backend'[x]] =
                              [name |-> config'[x].backend, lib |-> lib'[x]]
                        /\ lib'[x] = FindBackendLibraryPath(x, config[x])'
                        /\ made'[backend'[x]] \in SettingsFor(config[x].backend)'
      BY DEF BackendFits, Bound
    <2>1. /\ stage[x] \in Bound
          /\ config'[x] = config[x] /\ lib'[x] = lib[x]
      OBVIOUS
    <2>2. /\ identity[backend[x]] = [name |-> config[x].backend, lib |-> lib[x]]
          /\ lib[x] = FindBackendLibraryPath(x, config[x])
          /\ made[backend[x]] \in SettingsFor(config[x].backend)
      BY <2>1 DEF IInv, BackendFits
    <2>3. /\ lib[x] = FindBackendLibraryPath(x, config[x])'
          /\ made[backend[x]] \in SettingsFor(config[x].backend)'
      BY <2>1, <2>2, FilesSame
    <2> QED
      BY <2>1, <2>2, <2>3 DEF registryVars
  <1>5. LibraryFirst'
    <2> SUFFICES ASSUME NEW x \in Slots, stage'[x] \notin {"empty", "begun"}
                 PROVE  lib'[x] = FindBackendLibraryPath(x, config[x])'
      BY DEF LibraryFirst
    <2>1. CASE x = s
      BY <2>1
    <2>2. CASE x # s
      <3>1. /\ stage[x] \notin {"empty", "begun"}
            /\ config'[x] = config[x] /\ lib'[x] = lib[x]
        BY <2>2
      <3>2. lib[x] = FindBackendLibraryPath(x, config[x])
        BY <3>1 DEF IInv, LibraryFirst
      <3> QED
        BY <3>1, <3>2, FilesSame
    <2> QED
      BY <2>1, <2>2
  <1> QED
    BY <1>1, <1>2, <1>3, <1>4, <1>5 DEF IInv

LEMMA BeginInv ==
    ASSUME IInv, NEW s \in Slots, NEW load \in Loads, NEW map \in CommandLines,
           Begin(s, load, map)
    PROVE  IInv'
  <1>1. TypeOK'
    BY DEF Begin, Advance, IInv, TypeOK, registryVars, Stages, Bound
  <1> QED
    BY <1>1, SlotInv DEF Begin, Advance, IInv, TypeOK, Bound

LEMMA PrepareInv ==
    ASSUME IInv, NEW s \in Slots, Prepare(s)
    PROVE  IInv'
  <1>1. config[s] \in Configs
    BY DEF Prepare, Advance, IInv, TypeOK
  <1>2. FindBackendLibraryPath(s, config[s]) \in files
    BY LibraryFound DEF Prepare, Preparable
  <1>3. [config[s] EXCEPT !.runtime = LibraryName(config[s])] \in Configs
    BY <1>1, RuntimeNamed
  <1>4. config' = [config EXCEPT ![s] =
                     [config[s] EXCEPT !.runtime = LibraryName(config[s])]]
    BY DEF Prepare
  <1>5. TypeOK'
    BY <1>2, <1>3, <1>4 DEF Prepare, Advance, IInv, TypeOK, registryVars,
                            Stages, Bound
  <1>6. lib'[s] = FindBackendLibraryPath(s, config[s])'
    <2>1. lib'[s] = FindBackendLibraryPath(s, config[s])
      BY DEF Prepare, IInv, TypeOK
    <2>2. config'[s] = [config[s] EXCEPT !.runtime = LibraryName(config[s])]
      BY <1>4 DEF IInv, TypeOK
    <2>3. FindBackendLibraryPath(s, config[s])
             = FindBackendLibraryPath(s, config'[s])
      BY <1>1, <2>2, RuntimeNamed
         DEF FindBackendLibraryPath, GetBackendLibrarySearchPaths
    <2>4. FindBackendLibraryPath(s, config[s])'
             = FindBackendLibraryPath(s, config'[s])
      BY FilesSame DEF Prepare
    <2> QED
      BY <2>1, <2>3, <2>4
  <1> QED
    BY <1>4, <1>5, <1>6, SlotInv DEF Prepare, Advance, IInv, TypeOK, Bound

LEMMA AdvanceInv ==
    ASSUME IInv, NEW s \in Slots, NormalizeGroups(s) \/ ModelInit(s) \/ Publish(s)
    PROVE  IInv'
  <1>1. /\ stage[s] \in Bound
        /\ \E to \in Bound : stage' = [stage EXCEPT ![s] = to]
        /\ UNCHANGED <<config, cmdline, lib, backend, made, files, registryVars>>
    BY DEF NormalizeGroups, ModelInit, Publish, Advance, Bound
  <1>2. TypeOK'
    BY <1>1 DEF IInv, TypeOK, registryVars, Stages, Bound
  <1>3. lib'[s] = FindBackendLibraryPath(s, config[s])'
    <2>1. lib[s] = FindBackendLibraryPath(s, config[s])
      BY <1>1 DEF IInv, LibraryFirst, Bound
    <2> QED
      BY <1>1, <2>1, FilesSame
  <1> QED
    BY <1>1, <1>2, <1>3, SlotInv DEF IInv, TypeOK, Bound

LEMMA FinalizedInv ==
    ASSUME IInv, NEW b \in Backends, Finalized(b)
    PROVE  IInv'
  <1> USE DEF Finalized
  <1>1. /\ life[b] = "finalizing"
        /\ life' = [life EXCEPT ![b] = "absent"]
        /\ identity' = [identity EXCEPT ![b] = None]
        /\ registry' = registry /\ models' = models
    BY DEF R!Finalized
  <1>2. \A c \in Backends : life'[c] = "usable" =>
           /\ life[c] = "usable" /\ identity'[c] = identity[c]
           /\ made'[c] = made[c]
    BY <1>1 DEF IInv, TypeOK, ForgetSettings
  <1>3. TypeOK'
    BY <1>1 DEF IInv, TypeOK, Stages, Bound, ForgetSettings
  <1>4. BackendInUse' /\ RegisteredUsable'
    BY <1>1 DEF IInv, TypeOK, BackendInUse, RegisteredUsable, Bound
  <1>5. SettingsKept'
    <2> SUFFICES ASSUME NEW c \in Backends, life'[c] = "usable"
                 PROVE  made'[c] \in SettingsFor(identity[c].name)'
      BY DEF SettingsKept
    <2> QED
      BY <1>2 DEF IInv, SettingsKept
  <1>6. BackendFits'
    <2> SUFFICES ASSUME NEW x \in Slots, stage[x] \in Bound
                 PROVE  /\ identity'[backend[x]] =
                              [name |-> config[x].backend, lib |-> lib[x]]
                        /\ lib[x] = FindBackendLibraryPath(x, config[x])'
                        /\ made'[backend[x]] \in SettingsFor(config[x].backend)'
      BY DEF BackendFits, Bound
    <2>1. backend[x] \in Backends /\ life'[backend[x]] = "usable"
      BY <1>4 DEF IInv, TypeOK, BackendInUse
    <2>2. /\ identity[backend[x]] = [name |-> config[x].backend, lib |-> lib[x]]
          /\ lib[x] = FindBackendLibraryPath(x, config[x])
          /\ made[backend[x]] \in SettingsFor(config[x].backend)
      BY DEF IInv, BackendFits
    <2>3. /\ lib[x] = FindBackendLibraryPath(x, config[x])'
          /\ made[backend[x]] \in SettingsFor(config[x].backend)'
      BY <2>2, FilesSame
    <2> QED
      BY <1>2, <2>1, <2>2, <2>3
  <1>7. LibraryFirst'
    BY FilesSame DEF IInv, LibraryFirst
  <1> QED
    BY <1>3, <1>4, <1>5, <1>6, <1>7 DEF IInv

\* A load gets a usable backend, which no other slot is disturbed by.
LEMMA ShareInv ==
    ASSUME IInv, NEW s \in Slots, NEW r,
           r = [name |-> config[s].backend, lib |-> lib[s]],
           Advance(s, "prepared", "bound"), R!Share(s, r),
           backend' = [backend EXCEPT ![s] = registry[r.lib]],
           UNCHANGED <<config, cmdline, lib, made, files>>
    PROVE  IInv'
  <1> DEFINE b == registry[r.lib]
  <1>1. /\ stage[s] = "prepared" /\ lib[s] \in files /\ files \subseteq Libs
        /\ r.lib = lib[s] /\ r.name = config[s].backend
    BY DEF Advance, IInv, TypeOK
  <1>2. /\ b \in Backends /\ life[b] = "usable" /\ identity[b] = r
        /\ models' = [models EXCEPT ![s] = {b}]
    BY <1>1 DEF R!Share, R!Serves, IInv, TypeOK, RegisteredUsable,
                BackendInUse, Bound
  <1>3. UNCHANGED <<registry, life, identity>>
    BY DEF R!Share
  <1> HIDE DEF b
  <1>4. backend' = [backend EXCEPT ![s] = b]
    BY DEF b
  <1>5. TypeOK'
    BY <1>1, <1>2, <1>3, <1>4
       DEF Advance, IInv, TypeOK, Stages, Bound
  <1>6. RegisteredUsable' /\ BackendInUse'
    BY <1>1, <1>2, <1>3, <1>4
       DEF Advance, IInv, TypeOK, RegisteredUsable, BackendInUse, Bound
  <1>7. SettingsKept'
    BY <1>3 DEF IInv, SettingsKept
  <1>8. LibraryFirst'
    <2>1. \A x \in Slots :
             /\ stage'[x] \notin {"empty", "begun"} =>
                   stage[x] \notin {"empty", "begun"}
             /\ FindBackendLibraryPath(x, config[x])'
                   = FindBackendLibraryPath(x, config[x])
      BY <1>1, FilesSame DEF Advance, IInv, TypeOK
    <2> QED
      BY <2>1 DEF IInv, LibraryFirst
  <1>9. BackendFits'
    <2> SUFFICES ASSUME NEW x \in Slots, stage'[x] \in Bound
                 PROVE  /\ identity[backend'[x]] =
                              [name |-> config[x].backend, lib |-> lib[x]]
                        /\ lib[x] = FindBackendLibraryPath(x, config[x])
                        /\ made[backend'[x]] \in SettingsFor(config[x].backend)
      <3>1. \A x \in Slots :
               FindBackendLibraryPath(x, config[x])'
                  = FindBackendLibraryPath(x, config[x])
        BY FilesSame
      <3> QED
        BY <1>3, <3>1 DEF BackendFits, Bound
    <2>1. CASE x = s
      BY <1>1, <1>2, <1>4, <2>1
         DEF IInv, TypeOK, LibraryFirst, SettingsKept
    <2>2. CASE x # s
      BY <1>4, <2>2 DEF Advance, IInv, TypeOK, BackendFits
    <2> QED
      BY <2>1, <2>2
  <1> QED
    BY <1>5, <1>6, <1>7, <1>8, <1>9 DEF IInv

\* So does one that gets a backend of its own, made for it.
LEMMA AddInv ==
    ASSUME IInv, NEW s \in Slots, NEW r, NEW b \in Backends,
           r = [name |-> config[s].backend, lib |-> lib[s]],
           Advance(s, "prepared", "bound"), R!Add(s, r, b),
           backend' = [backend EXCEPT ![s] = b],
           made' = [made EXCEPT ![b] = SettingsOf(cmdline[s], config[s].backend)],
           UNCHANGED <<config, cmdline, lib, files>>
    PROVE  IInv'
  <1>1. /\ stage[s] = "prepared" /\ lib[s] \in files /\ files \subseteq Libs
        /\ r.lib = lib[s] /\ r.name = config[s].backend
        /\ stage' = [stage EXCEPT ![s] = "bound"]
    BY DEF Advance, IInv, TypeOK
  <1>2. /\ life[b] = "absent"
        /\ life' = [life EXCEPT ![b] = "usable"]
        /\ identity' = [identity EXCEPT ![b] = r]
        /\ models' = [models EXCEPT ![s] = @ \cup {b}]
        /\ registry' = [registry EXCEPT ![r.lib] = IF @ = None THEN b ELSE @]
    BY DEF R!Add
  <1>3. models' = [models EXCEPT ![s] = {b}]
    BY <1>1, <1>2 DEF IInv, TypeOK, BackendInUse, Bound
  <1>4. /\ made'[b] \in SettingsFor(r.name) /\ identity'[b] = r
        /\ \A c \in Backends \ {b} :
              /\ life'[c] = life[c] /\ identity'[c] = identity[c]
              /\ made'[c] = made[c]
    <2>1. cmdline[s] \in CommandLines
      BY <1>1 DEF IInv, TypeOK
    <2>2. SettingsOf(cmdline[s], config[s].backend) \in SettingsFor(r.name)
      BY <1>1, <2>1 DEF SettingsFor
    <2> QED
      BY <1>1, <1>2, <2>2 DEF IInv, TypeOK
  <1>5. TypeOK'
    <2>1. /\ registry' \in [Libs -> Backends \cup {None}]
          /\ models' \in [Slots -> SUBSET Backends]
          /\ life' \in [Backends -> {"absent", "usable", "finalizing"}]
      <3>1. registry' \in [Libs -> Backends \cup {None}]
        <4> DEFINE entry == IF registry[r.lib] = None THEN b ELSE registry[r.lib]
        <4>1. registry' = [registry EXCEPT ![r.lib] = entry]
          BY <1>2
        <4>2. entry \in Backends \cup {None}
          BY <1>1 DEF IInv, TypeOK
        <4> HIDE DEF entry
        <4> QED
          BY <4>1, <4>2 DEF IInv, TypeOK
      <3>2. models' \in [Slots -> SUBSET Backends]
        BY <1>3 DEF IInv, TypeOK
      <3>3. life' \in [Backends -> {"absent", "usable", "finalizing"}]
        BY <1>2 DEF IInv, TypeOK
      <3> QED
        BY <3>1, <3>2, <3>3
    <2>2. made' = [c \in Backends |-> made'[c]]
      BY DEF IInv, TypeOK
    <2>3. identity' = [c \in Backends |-> identity'[c]]
      BY <1>2 DEF IInv, TypeOK
    <2>4. /\ stage' \in [Slots -> Stages]
          /\ backend' \in [Slots -> Backends \cup {None}]
      BY <1>1 DEF IInv, TypeOK, Stages, Bound
    <2>5. \A x \in Slots :
             /\ IF stage'[x] = "empty" THEN config[x] = None /\ cmdline[x] = None
                ELSE config[x] \in Configs /\ cmdline[x] \in CommandLines
             /\ IF stage'[x] \in {"empty", "begun"} THEN lib[x] = None
                ELSE lib[x] \in files
             /\ IF stage'[x] \in Bound THEN backend'[x] \in Backends
                ELSE backend'[x] = None
      BY <1>1 DEF IInv, TypeOK, Bound
    <2> QED
      BY <2>1, <2>2, <2>3, <2>4, <2>5 DEF IInv, TypeOK, Stages, Bound
  <1>6. RegisteredUsable'
    BY <1>2 DEF IInv, TypeOK, RegisteredUsable
  <1>7. BackendInUse'
    BY <1>1, <1>2, <1>3 DEF IInv, TypeOK, BackendInUse, Bound
  <1>8. SettingsKept'
    <2> SUFFICES ASSUME NEW c \in Backends, life'[c] = "usable"
                 PROVE  made'[c] \in SettingsFor(identity[c].name)'
      BY DEF SettingsKept
    <2> QED
      BY <1>4 DEF IInv, SettingsKept
  <1>9. LibraryFirst'
    <2>1. \A x \in Slots :
             /\ stage'[x] \notin {"empty", "begun"} =>
                   stage[x] \notin {"empty", "begun"}
             /\ FindBackendLibraryPath(x, config[x])'
                   = FindBackendLibraryPath(x, config[x])
      BY <1>1, FilesSame DEF IInv, TypeOK
    <2> QED
      BY <2>1 DEF IInv, LibraryFirst
  <1>10. BackendFits'
    <2> SUFFICES ASSUME NEW x \in Slots, stage'[x] \in Bound
                 PROVE  /\ identity'[backend'[x]] =
                              [name |-> config[x].backend, lib |-> lib[x]]
                        /\ lib[x] = FindBackendLibraryPath(x, config[x])
                        /\ made'[backend'[x]] \in SettingsFor(config[x].backend)
      <3>1. \A x \in Slots :
               FindBackendLibraryPath(x, config[x])'
                  = FindBackendLibraryPath(x, config[x])
        BY FilesSame
      <3> QED
        BY <3>1 DEF BackendFits, Bound
    <2>1. CASE x = s
      BY <1>1, <1>4, <2>1 DEF IInv, TypeOK, LibraryFirst
    <2>2. CASE x # s
      <3>1. stage[x] \in Bound /\ backend'[x] = backend[x]
        BY <1>1, <2>2 DEF IInv, TypeOK
      <3>2. backend[x] \in Backends /\ backend[x] # b
        BY <1>2, <3>1 DEF IInv, TypeOK, BackendInUse
      <3> QED
        BY <1>4, <3>1, <3>2 DEF IInv, BackendFits
    <2> QED
      BY <2>1, <2>2
  <1> QED
    BY <1>5, <1>6, <1>7, <1>8, <1>9, <1>10 DEF IInv

-----------------------------------------------------------------------------
(* The checks *)

\* The map of inputs gives for each name one of the inputs of that name.
LEMMA InputFound ==
    ASSUME NEW c \in Configs
    PROVE  \E first \in [DOMAIN InputMap(c) -> 1..Len(c.input)] :
               \A n \in DOMAIN InputMap(c) :
                   /\ c.input[first[n]].name = n
                   /\ InputMap(c)[n] = c.input[first[n]]
  <1> DEFINE inputs == c.input
             named(n) == {i \in DOMAIN inputs : inputs[i].name = n}
             first == [n \in DOMAIN InputMap(c) |-> Min(named(n))]
  <1>1. DOMAIN inputs = 1..Len(inputs) /\ Len(inputs) \in Nat
    <2>1. inputs \in Seq(Tensors)
      BY DEF Configs
    <2> QED
      BY <2>1
  <1>2. InputMap(c) = [n \in {inputs[i].name : i \in DOMAIN inputs} |->
                          inputs[Min(named(n))]]
    BY DEF InputMap
  <1> HIDE DEF inputs
  <1>3. ASSUME NEW n \in DOMAIN InputMap(c)
        PROVE  Min(named(n)) \in named(n)
    <2>1. named(n) # {} /\ named(n) \in SUBSET Nat
      BY <1>1, <1>2, <1>3
    <2> HIDE DEF named
    <2> QED
      BY <2>1, MinIsLeast
  <1>4. \A n \in DOMAIN InputMap(c) : first[n] \in named(n)
    BY <1>3
  <1>5. \A n \in DOMAIN InputMap(c) : InputMap(c)[n] = inputs[first[n]]
    BY <1>2
  <1> HIDE DEF first
  <1>6. \A n \in DOMAIN InputMap(c) :
           first[n] \in 1..Len(inputs) /\ inputs[first[n]].name = n
    BY <1>1, <1>4
  <1>7. first \in [DOMAIN InputMap(c) -> 1..Len(inputs)]
    BY <1>6 DEF first
  <1> QED
    BY <1>5, <1>6, <1>7 DEF inputs

\* The names of the map that are required.
Required(c) == {n \in DOMAIN InputMap(c) : ~InputMap(c)[n].optional}

\* At least as many inputs are counted as are required by name, and no more
\* than those when no two have one name (model.cc:61).
LEMMA InputsCounted ==
    ASSUME NEW c \in Configs
    PROVE  /\ RequiredInputCount(c) >= Cardinality(Required(c))
           /\ Len(c.input) = Cardinality(DOMAIN InputMap(c)) =>
                 RequiredInputCount(c) = Cardinality(Required(c))
  <1> DEFINE inputs == c.input
             len == Len(inputs)
             names == DOMAIN InputMap(c)
             counted == {i \in DOMAIN inputs : ~inputs[i].optional}
  <1>1. len \in Nat /\ DOMAIN inputs = 1..len
    <2>1. inputs \in Seq(Tensors)
      BY DEF Configs
    <2> QED
      BY <2>1
  <1>2. names = {inputs[i].name : i \in 1..len}
    BY <1>1 DEF InputMap
  <1>3. RequiredInputCount(c) = Cardinality(counted)
    BY DEF RequiredInputCount
  <1>4. PICK first \in [names -> 1..len] :
            \A n \in names : /\ inputs[first[n]].name = n
                             /\ InputMap(c)[n] = inputs[first[n]]
    BY InputFound
  <1> HIDE DEF names, inputs, len
  <1>5. IsFiniteSet(1..len) /\ Cardinality(1..len) = len
    BY <1>1, FS_Interval
  <1>6. IsFiniteSet(counted)
    <2>1. counted \in SUBSET (1..len)
      BY <1>1
    <2> HIDE DEF counted
    <2> QED
      BY <1>5, <2>1, FS_Subset
  <1>7. Required(c) = {n \in names : ~inputs[first[n]].optional}
    BY <1>4 DEF Required, names
  <1> DEFINE choice == [n \in Required(c) |-> first[n]]
  <1>8. choice \in Injection(Required(c), counted)
    <2>1. choice \in [Required(c) -> counted]
      BY <1>1, <1>4, <1>7
    <2>2. \A m, n \in Required(c) : choice[m] = choice[n] => m = n
      BY <1>4, <1>7
    <2> HIDE DEF choice
    <2>3. DOMAIN choice = Required(c)
      BY <2>1
    <2> QED
      BY <2>1, <2>2, <2>3 DEF Injection, IsInjective
  <1>9. ASSUME len = Cardinality(names)
        PROVE  choice \in Surjection(Required(c), counted)
    <2> DEFINE name == [i \in 1..len |-> inputs[i].name]
    <2>1. name \in Surjection(1..len, names)
      <3>1. name \in [1..len -> names]
        BY <1>2
      <3>2. \A n \in names : \E i \in 1..len : name[i] = n
        BY <1>2
      <3> HIDE DEF name
      <3> QED
        BY <3>1, <3>2 DEF Surjection
    <2>2. name \in Injection(1..len, names)
      <3> HIDE DEF name
      <3> QED
        BY <1>5, <1>9, <2>1, FS_Surjection
    <2>3. \A i, j \in 1..len : inputs[i].name = inputs[j].name => i = j
      <3>1. \A i \in 1..len : name[i] = inputs[i].name
        OBVIOUS
      <3>2. DOMAIN name = 1..len
        OBVIOUS
      <3> HIDE DEF name
      <3>3. \A i, j \in 1..len : name[i] = name[j] => i = j
        BY <2>2, <3>2 DEF Injection, IsInjective
      <3> QED
        BY <3>1, <3>3
    <2>4. \A i \in 1..len : inputs[i].name \in names /\ first[inputs[i].name] = i
      <3>1. \A i \in 1..len : inputs[i].name \in names
        BY <1>2
      <3> QED
        BY <1>4, <2>3, <3>1
    <2>5. \A i \in counted : /\ inputs[i].name \in Required(c)
                             /\ choice[inputs[i].name] = i
      BY <1>1, <1>7, <2>4
    <2>6. choice \in [Required(c) -> counted]
      <3> HIDE DEF choice, counted
      <3> QED
        BY <1>8 DEF Injection
    <2> HIDE DEF choice, counted
    <2> QED
      BY <2>5, <2>6 DEF Surjection
  <1> HIDE DEF choice, counted
  <1>10. /\ IsFiniteSet(Required(c))
         /\ Cardinality(Required(c)) <= Cardinality(counted)
         /\ choice \in Surjection(Required(c), counted) =>
               Cardinality(Required(c)) = Cardinality(counted)
    BY <1>6, <1>8, FS_Injection
  <1>11. Cardinality(Required(c)) \in Nat /\ Cardinality(counted) \in Nat
    BY <1>6, <1>10, FS_CardinalityType
  <1>12. RequiredInputCount(c) >= Cardinality(Required(c))
    BY <1>3, <1>10, <1>11
  <1>13. len = Cardinality(names) => RequiredInputCount(c) = Cardinality(Required(c))
    BY <1>3, <1>9, <1>10
  <1> QED
    BY <1>12, <1>13 DEF names, len, inputs

\* What a configuration that is accepted promises of each input it lists.
LEMMA AcceptedShapes ==
    ASSUME NEW c \in Configs, ValidateModelIOConfig(c),
           NEW n \in DOMAIN InputMap(c)
    PROVE  /\ InputMap(c)[n].dims # <<>>
           /\ Fits(Product(InputMap(c)[n].dims)) =>
                 GetElementCount(InputMap(c)[n].dims) \in {-1} \cup (Nat \ {0})
  <1>1. PICK i \in 1..Len(c.input) : InputMap(c)[n] = c.input[i]
    <2>1. PICK first \in [DOMAIN InputMap(c) -> 1..Len(c.input)] :
              \A k \in DOMAIN InputMap(c) : InputMap(c)[k] = c.input[first[k]]
      BY InputFound
    <2> QED
      BY <2>1
  <1>2. c.input \in Seq(Tensors)
    BY DEF Configs
  <1>3. i \in DOMAIN c.input /\ c.input[i] \in Tensors
    BY <1>2
  <1>4. c.input[i].dims \in Seq(Int)
    BY <1>3 DEF Tensors
  <1>5. ValidateIOShape(c.input[i])
    BY <1>3 DEF ValidateModelIOConfig, ValidateModelInput
  <1> DEFINE dims == c.input[i].dims
  <1>6. /\ dims # <<>>
        /\ \A k \in DOMAIN dims : dims[k] >= 1 \/ dims[k] = WILDCARD_DIM
    BY <1>5 DEF ValidateIOShape
  <1>7. dims \in Seq(Int) /\ InputMap(c)[n].dims = dims
    BY <1>1, <1>4
  <1> HIDE DEF dims
  <1>8. Fits(Product(dims)) => GetElementCount(dims) \in {-1} \cup (Nat \ {0})
    BY <1>6, <1>7, ValidCount
  <1> QED
    BY <1>6, <1>7, <1>8

LEMMA LibraryNamed ==
    ASSUME NEW c \in Configs
    PROVE  LibraryName(c) # <<>>
  <1>1. CASE c.runtime = <<>>
    <2>1. LibraryName(c) = <<RuntimePrefix, c.backend>>
      BY <1>1 DEF LibraryName, AssembleCPPRuntimeLibraryName
    <2>2. Len(<<RuntimePrefix, c.backend>>) = 2 /\ Len(<<>>) = 0
      OBVIOUS
    <2> QED
      BY <2>1, <2>2
  <1>2. CASE c.runtime # <<>>
    BY <1>2 DEF LibraryName
  <1> QED
    BY <1>1, <1>2

LEMMA CheckedPreserved ==
    ASSUME IInv, Checked, [Next]_vars
    PROVE  Checked'
  <1> SUFFICES ASSUME NEW x \in Slots
               PROVE  /\ stage'[x] \notin {"empty", "begun"} =>
                            config'[x].backend # "" /\ config'[x].runtime # <<>>
                      /\ stage'[x] = "published" => Accepted(x)'
    BY DEF Checked
  <1>1. /\ stage[x] \notin {"empty", "begun"} =>
              config[x].backend # "" /\ config[x].runtime # <<>>
        /\ stage[x] = "published" => Accepted(x)
    BY DEF Checked
  <1>2. config'[x] = config[x] => Accepted(x)' = Accepted(x)
    BY DEF Accepted
  <1>3. /\ stage \in [Slots -> Stages] /\ DOMAIN config = Slots
        /\ stage[x] \in {"empty"} \/ config[x] \in Configs
    BY DEF IInv, TypeOK
  \* A step of another slot, or of the registry, does not touch this one.
  <1>4. CASE stage'[x] = stage[x] /\ config'[x] = config[x]
    BY <1>1, <1>2, <1>4
  <1>5. CASE stage'[x] \in {"empty", "begun"}
    BY <1>5
  <1>6. CASE Prepare(x)
    <2>1. config[x] \in Configs /\ stage'[x] = "prepared"
      BY <1>3, <1>6 DEF Prepare, Advance
    <2>2. config'[x] = [config[x] EXCEPT !.runtime = LibraryName(config[x])]
      BY <1>3, <1>6 DEF Prepare
    <2>3. /\ config'[x].backend = config[x].backend
          /\ config'[x].runtime = LibraryName(config[x])
      BY <2>1, <2>2 DEF Configs
    <2>4. config[x].backend # ""
      BY <1>6 DEF Prepare, Preparable
    <2> QED
      BY <2>1, <2>3, <2>4, LibraryNamed
  <1>7. CASE CreateBackend(x) \/ NormalizeGroups(x) \/ ModelInit(x)
    <2>1. /\ stage[x] \notin {"empty", "begun"} /\ config'[x] = config[x]
          /\ stage'[x] # "published"
      BY <1>3, <1>7 DEF CreateBackend, NormalizeGroups, ModelInit, Advance
    <2> QED
      BY <1>1, <2>1
  <1>8. CASE Publish(x)
    <2>1. /\ stage[x] \notin {"empty", "begun"} /\ config'[x] = config[x]
          /\ Accepted(x)
      BY <1>8 DEF Publish, Advance
    <2> QED
      BY <1>1, <1>2, <2>1
  \* Any other step is another's, or leaves the slot empty or begun.
  <1>9. ASSUME NEW s \in Slots, s # x,
               \/ LoadStep(s) \/ Unload(s)
               \/ \E load \in Loads, map \in CommandLines : Begin(s, load, map)
        PROVE  stage'[x] = stage[x] /\ config'[x] = config[x]
    <2>1. CASE \/ Prepare(s) \/ CreateBackend(s) \/ NormalizeGroups(s)
               \/ ModelInit(s) \/ Publish(s)
               \/ \E load \in Loads, map \in CommandLines : Begin(s, load, map)
      BY <1>3, <1>9, <2>1 DEF Prepare, CreateBackend, NormalizeGroups, ModelInit,
                              Publish, Begin, Advance
    <2>2. CASE Destroy(s)
      BY <1>3, <1>9, <2>2 DEF Destroy
    <2> QED
      BY <1>9, <2>1, <2>2 DEF LoadStep, Unload, PrepareFails, StepFails, PublishFails
  <1>10. CASE Destroy(x) \/ \E load \in Loads, map \in CommandLines :
                                Begin(x, load, map)
    <2>1. stage'[x] \in {"empty", "begun"}
      BY <1>3, <1>10 DEF Destroy, Begin, Advance
    <2> QED
      BY <1>5, <2>1
  <1>11. CASE \/ LoadStep(x) \/ Unload(x)
               \/ \E load \in Loads, map \in CommandLines : Begin(x, load, map)
    BY <1>6, <1>7, <1>8, <1>10, <1>11
       DEF LoadStep, Unload, PrepareFails, StepFails, PublishFails
  <1>12. CASE UNCHANGED vars \/ \E b \in Backends : Finalized(b)
    BY <1>4, <1>12 DEF vars, Finalized
  <1> QED
    BY <1>4, <1>9, <1>11, <1>12 DEF Next

-----------------------------------------------------------------------------
(* The theorems *)

LEMMA NextIInv == IInv /\ [Next]_vars => IInv'
  <1> SUFFICES ASSUME IInv, [Next]_vars PROVE IInv'
    OBVIOUS
  <1>1. ASSUME NEW s \in Slots, NEW load \in Loads, NEW map \in CommandLines,
               Begin(s, load, map)
        PROVE  IInv'
    BY <1>1, BeginInv
  <1>2. ASSUME NEW s \in Slots, Prepare(s) PROVE IInv'
    BY <1>2, PrepareInv
  <1>3. ASSUME NEW s \in Slots, CreateBackend(s) PROVE IInv'
    <2> DEFINE r == [name |-> config[s].backend, lib |-> lib[s]]
    <2>1. CASE R!Share(s, r) /\ backend' = [backend EXCEPT ![s] = registry[r.lib]]
               /\ UNCHANGED made
      BY <1>3, <2>1, ShareInv DEF CreateBackend
    <2>2. ASSUME NEW b \in Backends, R!Add(s, r, b),
                 backend' = [backend EXCEPT ![s] = b],
                 made' = [made EXCEPT ![b] = SettingsOf(cmdline[s], config[s].backend)]
          PROVE  IInv'
      BY <1>3, <2>2, AddInv DEF CreateBackend
    <2> QED
      BY <1>3, <2>1, <2>2 DEF CreateBackend
  <1>4. ASSUME NEW s \in Slots, NormalizeGroups(s) \/ ModelInit(s) \/ Publish(s)
        PROVE  IInv'
    BY <1>4, AdvanceInv
  <1>5. ASSUME NEW s \in Slots,
               PrepareFails(s) \/ StepFails(s) \/ PublishFails(s) \/ Unload(s)
        PROVE  IInv'
    BY <1>5, DestroyInv DEF PrepareFails, StepFails, PublishFails, Unload
  <1>6. ASSUME NEW b \in Backends, Finalized(b) PROVE IInv'
    BY <1>6, FinalizedInv
  <1>7. CASE UNCHANGED vars
    <2>1. /\ TypeOK' /\ RegisteredUsable' /\ BackendInUse'
      BY <1>7 DEF vars, registryVars, IInv, TypeOK, RegisteredUsable,
                  BackendInUse, Bound, Stages
    <2>2. SettingsKept' /\ LibraryFirst' /\ BackendFits'
      BY <1>7 DEF vars, registryVars, IInv, SettingsKept, LibraryFirst,
                  BackendFits, Bound, FindBackendLibraryPath
    <2> QED
      BY <2>1, <2>2 DEF IInv
  <1> QED
    BY <1>1, <1>2, <1>3, <1>4, <1>5, <1>6, <1>7 DEF Next, LoadStep

\* The strengthening of the properties below holds in every reachable state
\* (backend_model.cc:8-113, backend_manager.cc:21-38).
THEOREM Invariance == Spec => []IInv
  <1> QED
    BY InitIInv, NextIInv, PTL DEF Spec

\* A slot has at each stage of BackendModel::Create what that stage needs and
\* nothing else (backend_model.cc:8-113).
THEOREM TypeCorrect == Spec => []TypeOK
  <1>1. IInv => TypeOK
    BY DEF IInv
  <1> QED
    BY <1>1, Invariance, PTL

\* However many loads share backends, fail or are undone at any step, a model
\* keeps its backend in use and usable, and a failed load keeps none
\* (backend_model.cc:61-106, backend.cc:52-59).
THEOREM BackendsInUse == Spec => []BackendInUse
  <1>1. IInv => BackendInUse
    BY DEF IInv
  <1> QED
    BY <1>1, Invariance, PTL

\* However backends are shared, a model's was made under the name that the
\* model gives, from the first library of its search and with the settings that
\* one call's command line gives that name (backend_model.cc:153, 306,
\* backend_manager.cc:28-37).
THEOREM BackendsFit == Spec => []BackendFits
  <1>1. IInv => BackendFits
    BY DEF IInv
  <1> QED
    BY <1>1, Invariance, PTL

\* A load that came past the search has a backend and a runtime, and only what
\* passed the checks is published (backend_model.cc:19, 248, model.cc:51-59).
THEOREM OnlyChecked == Spec => []Checked
  <1>1. Init => Checked
    BY DEF Init, Checked
  <1>2. IInv /\ Checked /\ [Next]_vars => Checked'
    BY CheckedPreserved
  <1> QED
    BY <1>1, <1>2, Invariance, PTL DEF Spec

\* A published model names its backend and its runtime, each input it lists is
\* found with a shape that counts elements or has a wildcard, and at least the
\* inputs that are not optional are required, exactly those if no two have one
\* name (backend_model.cc:102, model.cc:51-66).
THEOREM PublishedIsSound == Spec => []PublishedSound
  <1>1. IInv /\ Checked => PublishedSound
    <2> SUFFICES ASSUME IInv, Checked, NEW s \in Slots, stage[s] = "published"
                 PROVE  LET c        == config[s]
                            names    == DOMAIN InputMap(c)
                            required == {n \in names : ~InputMap(c)[n].optional}
                        IN /\ c.name # "" /\ c.backend # "" /\ c.runtime # <<>>
                           /\ \A n \in names :
                                 /\ InputMap(c)[n].dims # <<>>
                                 /\ Fits(Product(InputMap(c)[n].dims)) =>
                                       GetElementCount(InputMap(c)[n].dims)
                                          \in {-1} \cup (Nat \ {0})
                           /\ RequiredInputCount(c) >= Cardinality(required)
                           /\ Len(c.input) = Cardinality(names) =>
                                 RequiredInputCount(c) = Cardinality(required)
      BY DEF PublishedSound
    <2> DEFINE c == config[s]
    <2>1. c \in Configs
      BY DEF IInv, TypeOK
    <2>2. c.backend # "" /\ c.runtime # <<>>
      BY DEF Checked
    <2>3. ValidateModelConfig(c) /\ ValidateModelIOConfig(c)
      BY DEF Checked, Accepted
    <2> HIDE DEF c
    <2>4. c.name # ""
      BY <2>3 DEF ValidateModelConfig
    <2>5. \A n \in DOMAIN InputMap(c) :
             /\ InputMap(c)[n].dims # <<>>
             /\ Fits(Product(InputMap(c)[n].dims)) =>
                   GetElementCount(InputMap(c)[n].dims) \in {-1} \cup (Nat \ {0})
      BY <2>1, <2>3, AcceptedShapes
    <2>6. /\ RequiredInputCount(c) >= Cardinality(Required(c))
          /\ Len(c.input) = Cardinality(DOMAIN InputMap(c)) =>
                RequiredInputCount(c) = Cardinality(Required(c))
      BY <2>1, InputsCounted
    <2>7. Required(c) = {n \in DOMAIN InputMap(c) : ~InputMap(c)[n].optional}
      BY DEF Required
    <2> QED
      BY ONLY <2>2, <2>4, <2>5, <2>6, <2>7 DEF c
  <1> QED
    BY <1>1, Invariance, OnlyChecked, PTL
=============================================================================
