----------------------------- MODULE ModelLoad -----------------------------
(***************************************************************************)
(* Loading models through BackendModel::Create, by threads that share the  *)
(* backends of one registry (core/backend_model.cc, core/model.cc).        *)
(*                                                                         *)
(* A slot is a place for one model: the out parameter of Create, together  *)
(* with the local variables of the call that fills it.  The registry takes *)
(* part with its atomic actions, those of BackendRegistry, which           *)
(* BackendManager implements; the server holds it for every slot.          *)
(***************************************************************************)
EXTENDS ModelConfig, BackendConfig, FilePaths, FiniteSets

CONSTANTS
    Slots, Backends, Libs, FiniLibs, None,
    RuntimePrefix,  \* "libtriton_", or "triton_" on Windows
    Loads,          \* the arguments of calls: a configuration with a field
                    \* is_config_provided for the parameter of that name
    FileSystems,    \* the sets of libraries a machine may have
    CommandLines    \* the maps of backend settings that calls may give

\* What the checks read of an input or output, and of a configuration.
Tensors ==
    [name : STRING, data_type : STRING, format : STRING, dims : Seq(Int),
     optional : BOOLEAN]

Configs ==
    [name : STRING, platform : STRING, backend : STRING, runtime : Seq(STRING),
     input : Seq(Tensors), output : Seq(Tensors), is_config_provided : BOOLEAN]

ASSUME ConstantsAssumption ==
    /\ Loads \subseteq Configs
    /\ \A f \in FileSystems : f \subseteq Libs
    /\ None \notin Backends
    /\ RuntimePrefix \in STRING

VARIABLES
    stage,      \* stage[s]: how far the load has come
    config,     \* config[s]: the configuration of the load and of its model
    cmdline,    \* cmdline[s]: the map of backend settings given with it
    lib,        \* lib[s]: the library found for it
    backend,    \* backend[s]: the backend the load and the model refer to
    made,       \* made[b]: the settings that backend b was created with
    files,                              \* the libraries of the machine
    registry, models, life, identity    \* as in BackendRegistry

R == INSTANCE BackendRegistry WITH
        Threads <- Slots, Requests <- {}, ManagerReleasable <- FALSE,
        users <- Slots, leftover <- {}

registryVars == <<registry, models, life, identity>>
vars == <<stage, config, cmdline, lib, backend, made, files, registryVars>>

NoSettings == [k \in {} |-> ""]

Init ==
    /\ stage = [s \in Slots |-> "empty"]
    /\ config = [s \in Slots |-> None]
    /\ cmdline = [s \in Slots |-> None]
    /\ lib = [s \in Slots |-> None]
    /\ backend = [s \in Slots |-> None]
    /\ made = [b \in Backends |-> NoSettings]
    /\ files \in FileSystems
    /\ registry = [l \in Libs |-> None]
    /\ models = [s \in Slots |-> {}]
    /\ life = [b \in Backends |-> "absent"]
    /\ identity = [b \in Backends |-> None]

-----------------------------------------------------------------------------
(* What a load computes by itself *)

\* The directories of the version, of the model and of the backend.
GetBackendLibrarySearchPaths(s, c) ==
    << <<"version", s>>, <<"model", s>>, <<"backend", c.backend>> >>

AssembleCPPRuntimeLibraryName(name) == <<RuntimePrefix, name>>

\* The runtime names the library, or else the backend does.
LibraryName(c) ==
    IF c.runtime = <<>> THEN AssembleCPPRuntimeLibraryName(c.backend)
    ELSE c.runtime

FindBackendLibraryPath(s, c) ==
    LET paths == GetBackendLibrarySearchPaths(s, c)
        at    == {i \in DOMAIN paths : <<paths[i], LibraryName(c)>> \in files}
    IN IF at = {} THEN None ELSE <<paths[Min(at)], LibraryName(c)>>

\* A path <<directory, name>> is the joined one: whatever the name is, its text
\* begins with the directory's, so that this refuses no library that was found.
EscapesDirectory(path) == IsChildPathEscapingParentPath(path, <<path[1]>>)

\* The settings that a map gives the backend of a name.
SettingsOf(map, name) ==
    SetBackendConfigDefaults(ResolveBackendConfigs(map, name))

\* Of several inputs of one name the map keeps the first.
InputMap(c) ==
    [n \in {c.input[i].name : i \in DOMAIN c.input} |->
        c.input[Min({i \in DOMAIN c.input : c.input[i].name = n})]]

\* Each input that is not optional is counted.
RequiredInputCount(c) ==
    Cardinality({i \in DOMAIN c.input : ~c.input[i].optional})

-----------------------------------------------------------------------------
(* The steps of a load *)

\* The settings of a backend go with it.
ForgetSettings ==
    made' = [b \in Backends |->
                IF life'[b] = "absent" THEN NoSettings ELSE made[b]]

\* The reference of a load or of a model to its backend, if it has one.
LetGoOf(s) ==
    \/ backend[s] = None /\ UNCHANGED registryVars
    \/ \E b \in Backends : b = backend[s] /\ R!Release(s, b)

\* The model, or what there is of one, is destroyed with its reference.
Destroy(s) ==
    /\ stage' = [stage EXCEPT ![s] = "empty"]
    /\ config' = [config EXCEPT ![s] = None]
    /\ cmdline' = [cmdline EXCEPT ![s] = None]
    /\ lib' = [lib EXCEPT ![s] = None]
    /\ backend' = [backend EXCEPT ![s] = None]
    /\ LetGoOf(s)
    /\ ForgetSettings
    /\ UNCHANGED files

Advance(s, from, to) ==
    /\ stage[s] = from
    /\ stage' = [stage EXCEPT ![s] = to]

\* The model is given up by its owner, or by a call of Create that is to
\* replace it, which begins with model->reset().
Unload(s) == stage[s] = "published" /\ Destroy(s)

Begin(s, load, map) ==
    /\ Advance(s, "empty", "begun")
    /\ config' = [config EXCEPT ![s] = load]
    /\ cmdline' = [cmdline EXCEPT ![s] = map]
    /\ UNCHANGED <<lib, backend, made, files, registryVars>>

Preparable(s) ==
    /\ config[s].backend # ""
    /\ GlobalsGiven(cmdline[s])
    /\ SpecializeBackendName(cmdline[s], config[s].backend)
    /\ FindBackendLibraryPath(s, config[s]) # None
    /\ config[s].runtime # <<>> =>
          ~EscapesDirectory(FindBackendLibraryPath(s, config[s]))

\* Mutant: a library that was not found is not reported.
PrepareUnfound(s) ==
    /\ Advance(s, "begun", "prepared")
    /\ lib' = [lib EXCEPT ![s] = FindBackendLibraryPath(s, config[s])]
    /\ UNCHANGED <<config, cmdline, backend, made, files, registryVars>>

\* The settings are read and the library found; its name becomes the runtime.
Prepare(s) ==
    /\ Advance(s, "begun", "prepared")
    /\ Preparable(s)
    /\ lib' = [lib EXCEPT ![s] = FindBackendLibraryPath(s, config[s])]
    /\ config' = [config EXCEPT ![s].runtime = LibraryName(config[s])]
    /\ UNCHANGED <<cmdline, backend, made, files, registryVars>>

PrepareFails(s) == stage[s] = "begun" /\ ~Preparable(s) /\ Destroy(s)

\* BackendManager::CreateBackend gives the backend there is, or a new one.
CreateBackend(s) ==
    LET r == [name |-> config[s].backend, lib |-> lib[s]]
    IN /\ Advance(s, "prepared", "bound")
       /\ \/ /\ R!Share(s, r)
             /\ backend' = [backend EXCEPT ![s] = registry[r.lib]]
             /\ UNCHANGED made
          \/ \E b \in Backends :
                /\ R!Add(s, r, b)
                /\ backend' = [backend EXCEPT ![s] = b]
                /\ made' = [made EXCEPT ![b] = SettingsOf(cmdline[s], config[s].backend)]
       /\ UNCHANGED <<config, cmdline, lib, files>>

\* The instance groups are completed and validated (module InstanceGroup)
\* and the model is constructed.
NormalizeGroups(s) ==
    /\ Advance(s, "bound", "constructed")
    /\ UNCHANGED <<config, cmdline, lib, backend, made, files, registryVars>>

\* The backend's own code prepares the model, if there is such code.
ModelInit(s) ==
    /\ Advance(s, "constructed", "initialized")
    /\ UNCHANGED <<config, cmdline, lib, backend, made, files, registryVars>>

Accepted(s) ==
    /\ config[s].is_config_provided
    /\ ValidateModelConfig(config[s])
    /\ ValidateModelIOConfig(config[s])

\* Model::Init accepts the configuration, what remains cannot fail, and the
\* caller gets the model.
Publish(s) ==
    /\ Advance(s, "initialized", "published")
    /\ Accepted(s)
    /\ UNCHANGED <<config, cmdline, lib, backend, made, files, registryVars>>

PublishFails(s) == stage[s] = "initialized" /\ ~Accepted(s) /\ Destroy(s)

\* Mutant: the return from a failed step keeps the reference to the backend.
StepFailsLeaking(s) ==
    /\ stage[s] \in {"prepared", "bound", "constructed"}
    /\ stage' = [stage EXCEPT ![s] = "empty"]
    /\ config' = [config EXCEPT ![s] = None]
    /\ cmdline' = [cmdline EXCEPT ![s] = None]
    /\ lib' = [lib EXCEPT ![s] = None]
    /\ backend' = [backend EXCEPT ![s] = None]
    /\ UNCHANGED <<made, files, registryVars>>

\* The backend cannot be created, the groups are refused, or the backend's
\* code refuses the model.
StepFails(s) ==
    /\ stage[s] \in {"prepared", "bound", "constructed"}
    /\ Destroy(s)

\* The registry's part: a backend without users has been finalized.
Finalized(b) ==
    /\ R!Finalized(b)
    /\ ForgetSettings
    /\ UNCHANGED <<stage, config, cmdline, lib, backend, files>>

LoadStep(s) ==
    \/ Prepare(s) \/ PrepareFails(s)
    \/ CreateBackend(s) \/ NormalizeGroups(s) \/ ModelInit(s) \/ StepFails(s)
    \/ Publish(s) \/ PublishFails(s)

Next ==
    \/ \E s \in Slots :
          \/ LoadStep(s)
          \/ Unload(s)
          \/ \E load \in Loads, map \in CommandLines : Begin(s, load, map)
    \/ \E b \in Backends : Finalized(b)

Spec == Init /\ [][Next]_vars

-----------------------------------------------------------------------------
(* Properties *)

Bound == {"bound", "constructed", "initialized", "published"}
Stages == {"empty", "begun", "prepared"} \cup Bound

\* Types, and what a slot has at each stage of the load (backend_model.cc:8):
\* a configuration once it has begun, a library that is on the machine once
\* that is found, a backend once there is one, and none of them before.
TypeOK ==
    /\ stage \in [Slots -> Stages]
    /\ config \in [Slots -> Configs \cup {None}]
    /\ cmdline \in [Slots -> CommandLines \cup {None}]
    /\ lib \in [Slots -> Libs \cup {None}]
    /\ backend \in [Slots -> Backends \cup {None}]
    /\ \A s \in Slots :
          /\ IF stage[s] = "empty" THEN config[s] = None /\ cmdline[s] = None
             ELSE config[s] \in Configs /\ cmdline[s] \in CommandLines
          /\ IF stage[s] \in {"empty", "begun"} THEN lib[s] = None
             ELSE lib[s] \in files
          /\ IF stage[s] \in Bound THEN backend[s] \in Backends
             ELSE backend[s] = None
    /\ made = [b \in Backends |-> made[b]]
    /\ files \subseteq Libs
    /\ registry \in [Libs -> Backends \cup {None}]
    /\ models \in [Slots -> SUBSET Backends]
    /\ life \in [Backends -> {"absent", "usable", "finalizing"}]
    /\ identity = [b \in Backends |-> identity[b]]

\* A model, or a load from the moment it has a backend, keeps exactly that
\* backend in use, and it is usable; a load that failed at any step
\* (backend_model.cc:61 to 106) and a model that is gone keep none.
BackendInUse ==
    \A s \in Slots :
        IF stage[s] \in Bound
        THEN models[s] = {backend[s]} /\ life[backend[s]] = "usable"
        ELSE models[s] = {}

\* The settings a backend of a name may have been created with: those that one
\* command line gives that name.
SettingsFor(name) == {SettingsOf(map, name) : map \in CommandLines}

\* However many models share a backend, one that a model has was made under
\* the name the model gives, from the first of its search paths that has the
\* library (backend_model.cc:306), and with the settings that one command line
\* gives that name (backend_model.cc:153), never with those of another backend
\* that the same library serves.  They need not be the settings of the model's
\* own call: a shared backend keeps those of the call that made it
\* (backend_manager.cc:28-33); only calls that all give one command line are
\* sure of them.
BackendFits ==
    \A s \in Slots :
        stage[s] \in Bound =>
            /\ identity[backend[s]] =
                  [name |-> config[s].backend, lib |-> lib[s]]
            /\ lib[s] = FindBackendLibraryPath(s, config[s])
            /\ made[backend[s]] \in SettingsFor(config[s].backend)

\* What is registered can be handed out, and a usable backend has settings of
\* the name it was made under, whatever it serves.
RegisteredUsable ==
    \A l \in Libs : registry[l] # None => life[registry[l]] = "usable"

SettingsKept ==
    \A b \in Backends :
        life[b] = "usable" => made[b] \in SettingsFor(identity[b].name)

\* The library of a load is the first that its search finds, from then on.
LibraryFirst ==
    \A s \in Slots :
        stage[s] \notin {"empty", "begun"} =>
            lib[s] = FindBackendLibraryPath(s, config[s])

\* The inductive invariant behind the safety of the registry's use.
IInv ==
    /\ TypeOK /\ BackendInUse /\ BackendFits
    /\ RegisteredUsable /\ SettingsKept /\ LibraryFirst

\* Once the library is found a load has a backend's name and a runtime, and
\* what is published has been accepted.
Checked ==
    \A s \in Slots :
        /\ stage[s] \notin {"empty", "begun"} =>
              config[s].backend # "" /\ config[s].runtime # <<>>
        /\ stage[s] = "published" => Accepted(s)

\* A published model has passed every check, though its backend's code ran
\* before the last of them (backend_model.cc:99, 106): each input it lists is
\* found, with a shape whose dimensions are known or wildcards, and as many
\* inputs are required as its map has that are not optional, provided that
\* no two have one name (model.cc:61); with a repeated name the count can
\* only be higher than that.
PublishedSound ==
    \A s \in Slots :
        stage[s] = "published" =>
            LET c        == config[s]
                names    == DOMAIN InputMap(c)
                required == {n \in names : ~InputMap(c)[n].optional}
            IN /\ c.name # "" /\ c.backend # "" /\ c.runtime # <<>>
               /\ \A n \in names :
                     /\ InputMap(c)[n].dims # <<>>
                     /\ Fits(Product(InputMap(c)[n].dims)) =>
                           GetElementCount(InputMap(c)[n].dims) \in {-1} \cup (Nat \ {0})
               /\ RequiredInputCount(c) >= Cardinality(required)
               /\ Len(c.input) = Cardinality(names) =>
                     RequiredInputCount(c) = Cardinality(required)
=============================================================================
