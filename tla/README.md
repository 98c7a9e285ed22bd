# AIEngine: verification project

AIEngine is an inference server core written in C++: it loads *backends*
(shared libraries that run models) and the *models* that use them.  This
directory holds TLA+ modules translated from that code, TLC configurations that
check them on small instances, and theorems about them whose proofs TLAPS
checks for every value of the constants.

Paths below are relative to `src/`.

1. [The system](#1-the-system): components, state, operations, interactions
2. [The modules](#2-the-modules): which module models what, and how
3. [The runs](#3-the-runs): what each shows, bounds, fairness
4. [What the runs found](#4-what-the-runs-found)
5. [The proofs](#5-the-proofs)
6. [What is not modelled](#6-what-is-not-modelled)
7. [Plan](#7-plan)

## 1. The system

The hand-written code is small (about 5,000 lines in `core/`, `common/`,
`interface/`; the rest is protobuf output and vendored rapidjson).  The request
path is not there yet: the server, the scheduler and the instances are
interfaces or stubs that return success.  What is there is the **load path**.

```
 InferenceServer (stub)
      |  keeps one reference
      v                                       process-wide state
 BackendManager  --- backend_map_ ---> Backend ------------------+
   Create (static weak_ptr, mu_)         | LoadBackendLibrary    |
   CreateBackend (under mu_)             | BACKEND_Initialize    v
      ^                                  | UpdateAttributes   SharedLibrary
      |                                  | ~Backend: _Finalize   Acquire (mu_)
 BackendModel::Create                                            DLL directory
   Model::Init -> library search -> CreateBackend
   -> NormalizeInstanceGroup -> ValidateInstanceGroup
   -> BACKEND_ModelInitialize -> instances, their threads
```

### Components

| Component | State it keeps | Operations that change state | What makes it correct |
|---|---|---|---|
| Backend registry, `core/backend_manager.{cc,h}` | the static `weak_ptr` to the manager, `mu_`, `backend_map_` (library path -> Backend) | `Create`, `CreateBackend`, the implicit destructor | one manager serves at a time; what is registered is usable and stays; concurrent requests for one library share one object; no object leaks |
| Backend, `core/backend.{cc,h}` | name, library path, handle, function pointers, attributes | `Create`, `LoadBackendLibrary`, `UpdateAttributes`, `ClearHandles`, destructor | no half-built object escapes; `BACKEND_Finalize` runs once, after the last user |
| Dynamic loader, `core/shared_library.{cc,h}` | process-wide `mu_`, on Windows the process's DLL directory | `Acquire`, `SetLibraryDirectory`, `ResetLibraryDirectory`, `OpenLibraryHandle`, `GetEntrypoint`, destructor | sessions exclude each other; a library's code sees its own directory; every path gives the lock back |
| Instance groups, `core/model_config_utils.cc:188-408` | the groups of the configuration | `NormalizeInstanceGroup`, `SetDefaultInstanceCount`, `ValidateInstanceGroup` | nothing given is overridden; what is accepted can be carried out |
| Device query, `core/platform.{cc,h}` | none | `GetSupportedGPUs` | it fails only when a device did |
| Model loading, `core/backend_model.{cc,h}` | configuration, backend reference, instances | `BackendModel::Create`, destructor | a load that fails keeps nothing; a model's backend is in use and is the one it asked for |
| Model, `core/model.{cc,h}` | configuration, input and output maps, scheduler, counters | `Init`, `SetModelConfig`, `SetScheduler` | the maps agree with the configuration |
| Configuration checks, rest of `core/model_config_utils.cc` | none | `ValidateModelConfig`, `ValidateModelIOConfig`, `ValidateIOShape`, version paths, `EquivalentInNonInstanceGroupConfig` | exactly the loadable configurations pass |
| Shapes, `core/model_config.{cc,h}` | none | element counts, byte sizes, comparison of dimensions | no wrap of the 64-bit arithmetic |
| Backend settings, `core/backend_config.{cc,h}` | none | lookup, merging, parsing | specific settings win over global ones |
| Instances, `core/backend_model_instance.{cc,h}` | instance, backend thread, signature | thread start and stop, signature hash | a stopped thread ends; equal signatures hash alike |
| Paths, `core/file_utils.{cc,h}` | file system | joining and splitting, containment | the parts of a path are the path again; a path that leads out of its directory is refused (the code refuses none that was joined, see section 4) |
| Status codes, `core/status.{cc,h}`, `common/error.{cc,h}`, `interface/` | none | conversions of three enumerations | a code survives the way out and back |
| JSON, `common/json.h` | documents, values that borrow their allocator | parsing, insertion, lookup, move, swap, removal | no value reaches memory of another document unless contents were moved between the two; documents are trees |

### Interactions, and what is hard in them

*Locks.*  There are two.  `backend_manager.cc`'s `mu_` is held for the whole
search, load and insertion of a backend, which includes code of the library
itself.  `shared_library.cc`'s `mu_` is taken inside it, twice, and once more
without it by the initialization of a model on Windows, so that a thread which
holds the first may wait for the second behind threads that never take the
first.  Early returns lie between acquiring and releasing.

*Reference counts.*  Managers and backends die when their last `shared_ptr`
goes, in whichever thread drops it and under whichever lock it holds at the
time; the destructor then calls `BACKEND_Finalize`.  `BackendManager::Create`
locks the weak pointer while the last reference may be going, so a new manager
can serve while the destructor of the previous one is still at work.

*Partial failure.*  Every step of a load may fail: opening the library, a
missing entry point, setting or resetting the DLL directory, initialization,
attributes, normalization, validation.  Nothing is persisted, no messages are
sent and nothing is retried, so crash recovery, lost messages and timeouts do
not arise in this code.

*Data.*  Instance groups are completed in several passes whose conditions depend
on what earlier passes set: kinds, GPU lists and counts, from the configuration,
the backend's preferred groups and the machine.  Sizes multiply 64-bit
dimensions that a configuration chooses.  Settings of a backend come from two
sections of the command line, with repeated keys.

*Ownership without locks.*  A `Json::Value` is a document with its own memory or
a pair of raw pointers into someone else's.  Whether an insertion copies or moves
depends on which of the two its argument is.

`PROJECT.json` lists the hazards one by one, each at its line and with the
properties that guard it.

## 2. The modules

| Module | Models | Uses |
|---|---|---|
| `BackendManager` | `backend_manager.cc`, `backend.cc` and the loader's lock | |
| `BackendRegistry` | abstract: what the registry promises, without locks, calls in progress or managers | |
| `BackendManagerRefines` | the refinement mapping | `BackendManager`, `BackendRegistry` |
| `BackendManagerProofs` | theorems of the registry, and that the mapping is a refinement | `BackendManagerRefines`, `TLAPS` |
| `MCBackendManager` | instances of them for TLC | `BackendManagerRefines` |
| `SharedLibrary` | `shared_library.cc` and its three users | |
| `MCSharedLibrary`, `SharedLibraryProofs` | instances, theorems | `SharedLibrary` |
| `InstanceGroup` | the instance group functions and `platform.cc` | |
| `MCInstanceGroup` | the configurations TLC tries | `InstanceGroup` |
| `InstanceGroupProofs` | its theorems | `InstanceGroup`, `NatRecursion` |
| `ModelConfig` | operators: sizes, comparison of shapes, names of data types (`model_config.cc`), checks of a configuration (`model_config_utils.cc`) | |
| `ModelConfigProofs` | theorems on sizes, comparison and names, for all shapes, widths and texts | `ModelConfig`, `NatRecursion` |
| `BackendConfig` | operators: settings of the command line (`backend_config.cc`) and their merging (`backend_model.cc:153-196`) | |
| `FilePaths` | operators: paths (`file_utils.cc`) | |
| `StatusCodes` | operators: codes of a status and of the C interface (`status.cc`, `server.cc`, `error.cc`) | |
| `Conversions`, `MCConversions` | the operators of the four modules against reference definitions | those four |
| `ConversionsProofs` | its theorems | `Conversions`, `ModelConfigProofs` |
| `ModelLoad`, `MCModelLoad` | `BackendModel::Create`, `Model::Init` and the end of a model | `ModelConfig`, `BackendConfig`, `BackendRegistry` |
| `ModelLoadProofs` | its theorems | `ModelLoad`, `ModelConfigProofs` |
| `JsonValue`, `MCJsonValue` | `Json::Value` over rapidjson | |
| `JsonValueProofs` | its theorems | `JsonValue`, `NatRecursion` |
| `NatRecursion` | lemmas on induction, functions defined by recursion, the least and greatest element of a set of numbers | `TLAPS` |
| `InstanceSignature`, `MCInstanceSignature` | `BackendModelInstance::Signature` | |

Operators named "Mutant" in a comment are variants of the definition below them
with a plausible bug.  They are part of no specification; each property is
known to fail when its mutant takes the place of the original.

### BackendManager

Threads load and unload models.  A `shared_ptr` is not a counter but the set of
places that hold it, so that the step which removes the last one is the step
that destroys the object, as in C++.

| Variable | Code |
|---|---|
| `mu`, `slibMu` | the holders of the two static mutexes |
| `weak` | `backend_manager_`, the static `weak_ptr` |
| `manager[t]` | the `shared_ptr<BackendManager>` of thread `t` |
| `backendMap[m][l]` | `backend_map_` of manager `m` |
| `held[t]` | backends that the models of `t` refer to |
| `out[t]` | `*backend`: the output argument of a call in progress, which is a local variable of `BackendModel::Create` and outlives a failed `CreateBackend` |
| `local[t]` | `local_backend`, or the object whose destructor `t` runs |
| `pc[t]` | the position of `t` in its call |
| `draining[t]` | the manager whose destructor `t` runs |
| `stage[b]`, `key[b]` | how far an object has come; its name and library |
| `dropped` | history, in no guard: whether a manager has lost its last reference |

| Actions | Code |
|---|---|
| `CreateManager` | `BackendManager::Create`: the live manager, or a new one |
| `ReuseBackend`, `BeginCreate` | the lookup in `CreateBackend`; the second also sets the output argument to an entry with another name, as line 29 does before the names are compared |
| `AcquireLoad`, `LoadSucceeds`, `LoadFails` | `LoadBackendLibrary` between taking and releasing the loader |
| `SkipInit`, `AcquireInit`, `InitSucceeds`, `InitFails` | the optional `BACKEND_Initialize` under the loader's lock |
| `UpdateAttributes`, `Publish` | the ignored outcome of the attributes; output argument and `map::insert`, which keeps an entry that is there |
| `FailCreate`, `FailedFinalized` | the error return: `local_backend` is destroyed under `mu_`, but after the loader's lock is gone; then `mu_` is released |
| `DropOut` | after a failed call, and without `mu_`, the caller's local variable goes with what the call left in it |
| `AcquireModelInit`, `ModelInitEnds` | on Windows, `BACKEND_ModelInitialize` of a model (`backend_model.cc:89-97`) under the loader's lock, without `mu_` |
| `ReleaseBackend`, `ReleaseFinalized` | a model goes; the last reference runs `~Backend` without any lock |
| `ReleaseManager`, `DrainEntry`, `DrainFinalized`, `DrainDone` | the implicit `~BackendManager`: entries go one by one, each finalized if nothing else refers to it |

`BackendManager::Create` is a single step because all it does under `mu_`
depends only on the weak pointer.  Libraries that export the optional functions
are constants (`InitLibs`, `FiniLibs`); `ModelInitLibs` are those whose models are
initialized under the loader's lock, none in a build for another system than
Windows.  Objects live in slots that are used
again once the object is gone: the number of slots bounds the objects alive at
one time, never the number of loads.

### BackendRegistry and BackendManagerRefines

The abstract registry is a map from libraries to backends with atomic `Share`,
`Add`, `Release`, `Leave`.  A backend is *absent*, *usable* or *finalizing*; its
end starts with the last user.  The mapping hides an object in the hands of a
creating thread (it is absent), and counts the entries of a manager under
destruction as *leftover*.  So `CreateBackend`, with its two locks, three calls
into the library and all of its failures, takes effect in the one step that
hands out the object (`Publish` or `ReuseBackend`).

### SharedLibrary

A session of a thread with the loader, of one of three kinds: loading a library,
`BACKEND_Initialize` (both `backend.cc`), `BACKEND_ModelInitialize`
(`backend_model.cc`, which takes the lock on Windows only).  `windows` is chosen
at the start and never changes, so both builds are covered; elsewhere the
directory calls do nothing and succeed.  The DLL directory is modelled by the
library it belongs to.  `failed[t]` says whether a call of the session failed and
`result[t]` what it returned, which lets `ErrorReported` tell a hidden failure.
The module is separate from `BackendManager`, which keeps the lock and drops the
directory, because the directory multiplies its states and meets none of its
properties.

### InstanceGroup

One model is loaded: `Normalize` is `NormalizeInstanceGroup`, `Validate` is
`ValidateInstanceGroup`, in the order of `BackendModel::Create`; an ensemble's
groups are left alone.  A group is a record of name, kind, count and GPUs.  The
passes over groups and preferences are recursive functions, one step for each
turn of the loop in the code; what the loops change are the arguments of the next
step.  The inputs (configuration, preferences, machine, backend) are
variables that never change.  The condition at `platform.cc:7` is an assignment,
which makes the device query fail always.  With it every other property would
hold for the empty reason that nothing is ever normalized, so `tested` chooses
between the condition as it stands and one that tests the pointer; both are
checked together in `groups_completed`.

### ModelLoad

A *slot* is a place for one model: the `unique_ptr` a caller of
`BackendModel::Create` passes, with the local variables of the call that fills
it.  Calls of different slots interleave; they share the registry.

| Variable | Code |
|---|---|
| `stage[s]` | how far the call has come, `"published"` once the caller has the model |
| `config[s]` | `model_config`, changed by the call where the code changes it (`runtime`) |
| `cmdline[s]` | `backend_cmdline_config_map`, given with each call |
| `lib[s]` | the library path the search found |
| `backend[s]` | the `shared_ptr` of the call and later of the model |
| `made[b]` | the settings a backend was created with |
| `files` | the machine's libraries, fixed at the start |
| `registry`, `models`, `life`, `identity` | as in `BackendRegistry` |

| Actions | Code |
|---|---|
| `Begin`, `Unload` | a call on an empty slot; a model that goes, also by the `model->reset()` with which the next call begins |
| `Prepare`, `PrepareFails` | lines 17-59: the name, the global settings, the specialized name, the search for the library and the check that it is inside its directory, the merged settings |
| `CreateBackend` | line 61, with `R!Share` or `R!Add` of the registry |
| `NormalizeGroups`, `ModelInit`, `Publish` | the steps up to the return of the model |
| `StepFails`, `PublishFails` | the error return after each: the reference to the backend goes with the locals |
| `Finalized` | `BACKEND_Finalize` returns |

The registry takes part with the atomic actions of `BackendRegistry`.  That
`BackendManager`, with its locks and calls, implements them is what
`registry_refined` checks and `BackendManagerProofs` proves, so locks do not
appear here a second time.  The outcome of the steps modelled elsewhere (the
groups, `InstanceGroup`; the loader's sessions, `SharedLibrary`) is a
nondeterministic choice between success and failure.  The check that a library's
path is inside its directory (`EscapesDirectory`) is a condition of `Preparable`; as
in the code it refuses nothing (section 4).  The module assumes that the server has a manager
(`backend_model.cc:61`), which no code of the repository gives it.

### Conversions

A behaviour builds an argument element by element, a shape, a path, a command
line or a text, so that the states are all arguments up to the bounds; the
invariants compare the operators with reference definitions: unbounded products,
sets of concrete shapes, the names on a path, the last value given.  `Width` is
the number of bits of an `int64_t`, small for TLC so that products overflow;
each multiplication of the loops is wrapped to it (`WrappedProduct`).  What the
arguments are made of are constants, so that the theorems range over all of
them: `Dimensions` and `BatchSizes` are any integers, `Sizes` any two or more
positive ones (with a single size nothing could tell a wildcard from it).

### JsonValue

`values[v]` has the members of a `Json::Value`: `document_` (`pool`, `root`),
`value_` (`ref`), `allocator_` (`alloc`).  `mem` and `home` give each rapidjson
element its content and the pool it was allocated in.  Memory that no value can
reach is dropped from the state.  Inserting a document gives each of its elements
a copy at an address of its own, chosen by an injection into the free ones; a
value in a document is moved, and null is left in its place.  What rapidjson does
in each operation is translated from the vendored source
(`thirdparty/rapidjson/include/rapidjson/document.h`, `allocators.h`).

Nothing in `json.h` asks which documents the arguments of `Add`, `Append` and
`Swap` are in, and neither does the model.  `crossed` remembers the documents
that exchanged contents without a copy, for the property `NodesOwned`; `moved`
the values whose document has lost its allocator to a move.

What the code would do with freed memory, or with an allocator that is not there,
has no outcome to model.  The header of the module lists what callers are therefore
taken to respect, and says where the code itself asks it of them: a document goes
after all that refers to its memory; a value that was moved from is not parsed,
set or swapped; a value is not added to one that it contains; no value refers to
the last member of an object when one is removed.  A value may refer to the removed
member, or to any other.  `Set` is enabled only with an allocator because
`SetString` dereferences it (`json.h:218`).

### InstanceSignature

The constructor of a signature computes its hash from members that are not
initialized yet; the reads yield any device and any configuration.

## 3. The runs

| Run | Configuration | Shows |
|---|---|---|
| `manager_released` | 3 threads, 2 managers, 3 slots, 2 libraries, one under two names; managers are dropped, models of one library initialized as on Windows | `OneLiveManager`, `LockNesting`, `ReferencedUsable` (only finished backends are visible), `NoLeak`, `MismatchRegistered`, `EntriesStable`, `TypeOK`; and `OneObjectPerLibrary`: until a manager is dropped, the library with one name never has two objects, so `BACKEND_Initialize` cannot run while it serves or is being finalized (599,048 states) |
| `registry_refined` | 2 threads, 2 managers, 2 slots, the same libraries; with fairness | `ImplementsFairRegistry`, `CreateTerminates` (`mu_` is given back unless its holder is overtaken for ever), `DrainTerminates` |
| `loader_sessions` | 3 threads, 2 libraries, Windows and elsewhere; with fairness | `MutualExclusion`, `CodeSeesOwnDirectory`, `DirectoryReset`, `ErrorReported`, `SessionEnds`, `TypeOK` |
| `groups_completed` | every configuration of up to one group and two preferred groups, and of two groups and one preferred group; machines without GPUs and with two | `ExplicitKept`, `ValidatedComplete`, `Idempotent`, `PlacedAsPreferred`, `CountAsPreferred`, `AcceptedPlaceable`, `DocumentedAccepted`, `TypeOK` (1,507,132 states) |
| `models_loaded` | 2 slots, 3 backend objects, 2 names and a library that serves both; configurations that pass, one of them with a shape whose count overflows 16 bits, and one for each check that refuses; 3 command lines, one with each call, 2 machines | `BackendInUse`, `BackendFits`, `PublishedSound`, `TypeOK` (226,804 states) |
| `conversions` | shapes of up to 4 dimensions, paths of up to 7 characters, command lines of up to 3 settings, texts one edit from a type's name | `SizesExact`, `WildcardsMeet`, `NamesRoundTrip`, `PathsSplit`, `SettingsResolved` |
| `json_documents` | 3 values, 3 elements, 2 documents, 2 names, 1 scalar, not all at once (below) | `NodesOwned`, `NodesUnshared`, `OverwriteVisible`, `TypeOK` (131,901 states) |
| `signatures_hashed` | 2 instances, 2 devices | violation, see section 4 |
| `manager_reuse` | 2 threads, 1 library under two names | violation, see section 4 |
| `groups_auto`, `groups_all` | up to one group and preference, the query repaired | violations |
| `groups_query` | the same, the query as it stands | violation |

### Bounds, and why they are enough

*Registry.*  Three threads let one create, one wait for `mu_` and one drop
references; threads are alike, and no step involves more than two.  Two managers
let one serve while the other is destroyed; a third could exist only as another
one under destruction.  Three object slots are an entry, one of another name for
the same library, and one in creation or destruction; slots and managers are
used again, so sequences of loads are unbounded.  Two libraries differ in which
of the optional functions they export, and in whether their models are initialized
under the loader's lock.  Behaviours in which nobody drops a manager, as in the
server, are among those of the run; `OneObjectPerLibrary` is about them.  Threads,
managers and objects are symmetric in `manager_released`; the runs with temporal properties use no
symmetry.  When every slot is in use `BeginCreate` waits for one; this hides no
failure, since the code has no limit, and `Continue`, which fairness and the
liveness properties are about, never needs a slot.

*Loader.*  A third thread shows that a session is not disturbed by the one before
last.  A session touches one library and the directory, so two libraries suffice.

*Groups.*  GPU 2 is on no machine; lists are empty, wholly missing, partly
missing or present.  Counts are negative, zero, given (3), and differ between
group and preferences (3 and 5), so that a property can tell where one came
from.  Two preferred groups are what order and skipping need; two groups show
that each is completed by itself and numbered.

*Loads.*  Two slots show every way in which one load or model can disturb
another: they share a backend, or compete for a library.  Three objects are
one for each slot and one being finalized.  One library is found at two of the
three search places, by slot `s1` only, so that the order matters and the two
slots may reach one library or different ones.  Each call brings any of the
command lines: one that is good for both backends, one refused for tensorflow's
version, which gives onnxruntime other settings than the first, and one without
a number where one is needed.

*Conversions.*  Dimensions include the wildcard, another negative one, zero, one
and ones large enough to overflow the width of eight bits; batch sizes are
-1 to 2, on both sides of the comparison with 1.  Shapes up to length 3 over
the sizes 1 to 3 are compared.  The functions scan their argument element by element, and
each of their cases shows with two or three elements; four dimensions overflow
in the middle of a product and not at its end.

*JSON.*  Two documents are needed to move or copy from one into the other.  Three
values are two documents and a reference, or one document and two references that
disturb each other; with two elements one can hold the other.  Three elements
are an object with several members, of which one is removed and another takes its
place, a table in a table, or a copy beside its original; two values reach them.
`Bounded`, a constraint on the states, keeps the third element for states with at
most two values, and all three for those in which nothing was moved between
values or documents; the theorems hold for any numbers.  One scalar is enough
to tell a member that was set from null and from a table; that it is the scalar that
was given is proved for all of them.

Deadlock is checked in all runs but those of `InstanceGroup`, `Conversions` and
`InstanceSignature`, whose behaviours end: a load is two steps long, an argument
is built up to its bound, a signature is constructed once.

### Fairness

`BackendManager`: weak fairness of each thread's `Continue`, the steps that
follow by themselves once a call has begun: threads are scheduled and the
functions of loader and library return.  Of a mutex this assumes that it does not
stay free for ever while a thread waits for it.  It does not assume that the waiting
thread gets its turn: `AcquireLoad` and `AcquireInit` are disabled whenever the
lock is taken, and weak fairness promises nothing to an action that is disabled
again and again.  (`std::mutex` promises no more.  Strong fairness would.)

So what `CreateTerminates` can say depends on who else uses the loader's lock.
Where the initialization of a model takes no lock, the lock is contended only by
the thread that holds `mu_`, and `mu = t ~> mu # t` holds (it does with
`ModelInitLibs = {}`).  On Windows it does not: model initializations may take the lock
again and again before the holder of `mu_` does, and TLC finds that behaviour.  The
property that is checked, with such a library, allows for it and for nothing else:
a thread keeps `mu_` for ever only if other threads are in a model's
initialization again and again and the lock is free again and again in between.
Until then every other load and every end of a manager waits, though none is deadlocked.

`SharedLibrary`: weak fairness of `InSession`, the steps of a thread that holds
the lock.  Nothing is assumed of the acquisition, so no property claims that a waiting
thread gets its turn.  A new call, and the end of a model, are up to the callers.
Every step goes forward or ends the call, so weak fairness is enough.

`ModelLoad` has no fairness and no liveness property.  The stages of a load have no
cycle, so that a load ends if each of its steps does; but two of the steps wait for
a lock, and no code promises them a turn.

## 4. What the runs found

Each of these is a run with the outcome "violation", whose property quotes the
text it contradicts.

* **A library under a second name is never reused** (`manager_reuse`).
  `backend_manager.cc:28` says "If backend already exists, re-use it."  The map
  is keyed by library and `insert` keeps the entry that is there, so a backend
  created under a second name is handed out but never registered, and the next
  request with that name loads and initializes the library again.
* **`KIND_AUTO` with a missing GPU is refused** (`groups_auto`).
  `model_config.proto:154-156` promises the CPU in that case.  The code changes
  the kind to `KIND_CPU` but keeps the GPUs, and validation refuses GPUs with
  `KIND_CPU`.  The run uses the repaired device query.
* **An empty list of GPUs is not all GPUs** (`groups_all`).
  `model_config.proto:254-256` calls an empty `gpus` "equivalent to listing all
  available GPUs", and `model_config_utils.cc:346-347` says the same; the code gives
  such a group the GPUs of the first preferred group that lists any that are there,
  and all of them only if none does.  `PlacedAsPreferred` states what it does, as
  the comment at line 377 has it.
* **The device query always fails** (`groups_query`).  `platform.cc:7` reads
  `if (supported_gpus = nullptr)` where the test of a pointer was meant, so every
  call returns `INVALID_ARG` and no model without ensemble scheduling gets past
  normalization.
* **Equal signatures may hash differently** (`signatures_hashed`).
  `backend_model_instance.h:50` computes the hash in a member initializer that
  runs before `device_id_` and `group_config_` are set, because `hash_` is
  declared first.  Two signatures that `operator==` finds equal may then have
  different hashes, against the requirement of `std::hash` and against
  `model_config_utils.h:124-126`.  No container uses the hash yet.

Some more differences are visible in the definitions and have no run of their own:

* No escaping path is reported.  `IsChildPathEscapingParentPath` is to "check the
  child path escaping the parent path or not" (`file_utils.h:80`), and
  `backend_model.cc:255-265` refuses a library by it whose name "escapes backend
  directory".  It compares the two texts as they are given (the lines that would
  resolve them are commented out), and a path joined to a directory begins with the
  directory's text.  So `a/..` counts as inside `a`, and the check in the load
  refuses nothing: the theorem `NoEscapeReported` says so for joined paths of any
  length.
* `KIND_MODEL` is refused.  `model_config.proto:176-179` offers instances that "run
  on the CPU and/or GPU(s) as specified by the model or backend itself".
  `ValidateInstanceGroup` accepts only `KIND_GPU` and `KIND_CPU`, and its message
  speaks of `KIND_AUTO` (`model_config_utils.cc:241-247`).  `DocumentedAccepted` makes
  an exception of it (`Departing`).
* A table may be in another allocator's memory.  `document.h:1179` says of the
  allocator a member is added with that "It must be the same one as used before."
  `Add` and `Append` pass the value's `allocator_`, and `Swap` (`json.h:179`)
  exchanges contents but no allocators: after swapping two documents, each has its
  table in the other's memory (`crossed` in `NodesOwned`).
* `model_config.proto:238-240` gives the count's default as 1;
  `SetDefaultInstanceCount` uses 2 for tensorflow and onnxruntime on the CPU
  (`model_config_utils.cc:288-294`).
* The comment at `backend_config.h:32-35` speaks of converting a backend's name
  to a specialized one; the code returns every name unchanged and refuses
  version 1 of tensorflow (`SpecializeBackendName`).
* `CANCELLED` has no text of its own in `error.cc` (`CodeString`).
* `model_config.h:93-94` returns -1 "if unable to determine the size"; for a
  type without a fixed size and a shape without dimensions the code returns 0
  (`SizesExact`).

And some behaviour that no text forbids, modelled as it is:

* The status of `UpdateAttributes` is dropped (`backend.cc:39`): a backend whose
  attribute function failed is published with its defaults.
* The old model goes before anything of the new one is checked
  (`backend_model.cc:16`): a load that fails leaves its caller with neither.
* With an input name given twice, `required_input_count_` (`model.cc:63`) is higher
  than the number of inputs in the map (`PublishedSound`).
* In an object with a repeated name, `SetStringObject` removes the first member and
  adds the new one at the end, so that a lookup finds the other one
  (`OverwriteVisible` is about objects whose names are unique).
* A backend's setting given twice: a lookup takes the first, merging the last
  (`SettingsResolved`).
* When resetting the DLL directory fails after `BACKEND_ModelInitialize` failed, the
  error object is lost (`backend_model.cc:97`); the call still reports an error.
* The length checks of `ProtocolStringToDataType` let through a text whose
  characters go on beyond the given length; `NamesRoundTrip` is about texts with
  their own length.
* `CloseLibraryHandle` has no caller: a library stays loaded after its backend is
  gone or failed to load.
* `BACKEND_Finalize` runs outside a loader session, and under `mu_` when a
  creation fails.  `BACKEND_ModelFinalize` is looked up and never called.
* A caller whose `CreateBackend` fails may find the mismatched backend in its
  output argument (`backend_manager.cc:29`), and drops it after `mu_` was released.
  `MismatchRegistered` shows that it is a registered one until then, so that
  dropping it destroys nothing.
* A backend that is shared keeps the settings of the call that made it, whatever
  command line a later call gives (`backend_manager.cc:28-33`; `BackendFits`).
* A value moved across documents (`Add`, `Append` or `Swap` of a value that is not a
  document) leaves its new document with elements in the memory of the old one, which
  may go first.  `NodesOwned` says that this is the only way for one document to
  depend on another.

## 5. The proofs

Proofs about a state machine follow one scheme: an inductive invariant `IInv` of named
parts, one lemma per part that every step preserves it, `THEOREM Invariance ==
Spec => []IInv`, and each property from it.

### BackendManagerProofs

Assumption: `ConstantsAssumption` of `BackendManager` (requests name known
libraries, the null value is no object).  No set is assumed finite: the theorems
hold for any number of threads, managers, objects, names and libraries.

| Theorem | States |
|---|---|
| `TypeCorrect` | `TypeOK` |
| `SingleManager` | `OneLiveManager` |
| `LocksNest` | `LockNesting`: a thread takes the loader's lock last, under `mu_` or, to initialize a model, alone; the locks are held in one order only, so there is no deadlock between them |
| `ReferencesAreUsable` | `ReferencedUsable` |
| `NoObjectLeaks` | `NoLeak` |
| `MismatchKept` | `MismatchRegistered` |
| `EntriesAreStable` | `EntriesStable`, an action property |
| `OneObject` | `OneObjectPerLibrary` |

None of these invariants is inductive alone.  `ReferencedUsable` says that what
is visible is *ready*.  A step can make an object visible only by `Publish`,
which needs the stage of the object in the thread's hands to follow from its
position (`LocalStage`) and the positions themselves to decide what is held
(`Control`); and a step can change the stage of a visible object only if an
object in some thread's hands is also referenced, which `Ownership` excludes.
`Ownership` in turn is disturbed when a call replaces its output argument, or drops
it after it has failed: that the object stays referenced follows from
`MismatchRegistered`, the output argument is an entry of the caller's manager.
`MismatchRegistered` survives only because an entry is not removed while the
caller keeps the manager alive, which takes `ManagerLife`: a manager under destruction is
not the live one, and every held manager is.  `OneObject` adds
`SoleObjects`: until a manager is dropped, each object of a library with one name
is the live manager's entry for it, or is being made while there is no entry.

*The refinement.*  `Implements` is `Spec => ImplementsRegistry`: every behaviour of `BackendManager`
is, under the mapping, one of `BackendRegistry`, for any number of threads,
managers, objects and libraries.  The steps fall into four groups.  A step on an
object that a thread creates or throws away (`HandStep`) and the beginning of a
creation change nothing that the registry sees; the end of a finalizer (`EndStep`)
is `Finalized`; `CreateManager`, `ReuseBackend`, `Publish`, `ReleaseBackend`,
`ReleaseManager` and `DrainEntry` are `Join`, `Share`, `Add`, `Release`, `Leave` and
`LetGo`; `DrainDone` is no step.  `Dropped`, the moment an object loses its last
user, agrees with the code's because being in use means the same in both
(`InUseIff`): an output argument is always also an entry, and an entry belongs to
the live manager or to one under destruction.

Two facts are not in `IInv` and are proved invariant first
(`RefinementInvariance`).  `Unserved` says that the name and library of a running
creation are not served: the lookup said so before the load, and only `mu_`,
held all along, keeps it true until `Publish`, which is an `Add`.  `SoleEntry`
says that a backend is entered once: else dropping an entry of one manager
would not take the object from the registry's leftover.

### SharedLibraryProofs

Assumption: `ConstantsAssumption` of `SharedLibrary`.  Theorems `TypeCorrect`,
`Exclusion`, `OwnDirectorySeen`, `DirectoryIsReset` and `ErrorsReported` state the
safety properties of `loader_sessions`.  The invariant adds `LockHeld` (the
lock's holder is the thread inside a session), `OwnDirectory` (the directory is
the session's own from its setting to its reset, not only while code runs) and
`NoDirectory` (elsewhere it is never touched).

### ModelLoadProofs

Assumptions: `ConstantsAssumption` of `ModelLoad` (configurations have the fields
of the protobuf message, a machine's libraries are known ones, the null value is
no backend) and `WidthAssumption` (integers have at least one bit).  Any number of
slots, backends, libraries, names, settings, inputs and dimensions.

| Theorem | States |
|---|---|
| `TypeCorrect` | `TypeOK` |
| `BackendsInUse` | `BackendInUse` |
| `BackendsFit` | `BackendFits` |
| `PublishedIsSound` | `PublishedSound` |

`BackendInUse` survives another slot's release because a backend that anyone
has is not `Dropped` (`LetGoKeeps`).  It needs `RegisteredUsable` for the
load that is given a registered backend.  `BackendFits` needs two things more at
that moment: that a registered backend still has the settings of its name
(`SettingsKept`), and that the library of the load is the first of its search
although the runtime has been written into the configuration since
(`LibraryFirst`, by `RuntimeNamed`).

`PublishedSound` has two parts.  What was checked stays true although steps of the
backend's own code and of other slots lie between: `Checked`
(`OnlyChecked`), inductive with `IInv`.  The rest is about one accepted
configuration.  The shapes are `ValidCount` of `ModelConfigProofs`.  For the count of
required inputs, the place of the first input of each name is an injection of the
required names into the places that are counted, so the count is never too low;
with as many names as places, the names of the places are an injection as well,
each input is the first of its name, and the two sets have the same size
(`InputsCounted`).

### ModelConfigProofs

Assumption: `WidthAssumption`.  Shapes have any length, integers any width.

| Theorem | States |
|---|---|
| `CountExact` | `GetElementCount` is the product of the dimensions, if that fits |
| `ValidCount` | and positive or unknown for a shape that validation accepts |
| `BatchExact` | `GetBatchByteSize` is the number of bytes, if that fits |
| `WildcardsMatch`, `LiteralsMatch` | what the two comparisons mean |
| `OnlyOwnNames` | no text is taken for a type but the type's own name |

The code multiplies in the width of its integers, so a product may wrap on the
way and still come out right.  Wrapping changes a number by a multiple of
`2^Width` only (`WrapFacts`) and multiplying keeps two numbers that differ by such
a multiple equal after wrapping (`WrapFactor`); by induction over the dimensions
the wrapped product is the wrapping of the product (`WrappedProductIs`), which is
the product itself if it fits.  That it is not -1, the value that stands for an
unknown count, takes that no dimension is.

For the comparisons, filling the wildcards of one shape first with one size and
then with another gives two instances that only a wildcard in the other shape
can both allow.  For the names, the prefix tests of
`ProtocolStringToDataType` read a text whole because each branch lets through no
length above the name's own.

### ConversionsProofs

Assumptions: `ArgumentsAssumption` (dimensions and batch sizes are integers, and
there are two or more positive sizes to compare shapes with) and
`WidthAssumption`.  The bounds on the length of arguments are arbitrary, so each
theorem covers arguments of every length.

| Theorem | States |
|---|---|
| `SizesAreExact` | `SizesExact` |
| `WildcardsDoMeet` | `WildcardsMeet` |
| `NamesDoRoundTrip` | `NamesRoundTrip` |
| `PathsDoSplit` | `PathsSplit` |
| `NoEscapeReported` | no path joined to a directory is reported to escape it, whatever the child is |
| `SettingsAreResolved` | `SettingsResolved` |

The state machine only builds arguments, so its invariant is what an argument is
(`TypeCorrect`); the rest are facts of the functions.  The first three come from
`ModelConfigProofs` and from a case for each shape without a size.

*Paths.*  What `Names` computes is described by a *reading*: for every prefix of the
path, the names that are complete and the one that is being read.  A reading
exists and is the only one (`ReadingExists`).  The central fact is
`NamesJoin`: the names of two paths with a separator between are those of the first
followed by those of the second; reading the second goes on from where the first
is closed.  Separators before, between and after names add none
(`NamesBeside`, `NamesOfSeparators`), and the scans of `BaseName` and `DirName` stop
where a name ends and begins (`NameBounds`), so the three parts put together are
the path again (`SplitNames`).

*Settings.*  `SettingsFor` lists what the command line gives for a section.  `Lists`
says that the list is at increasing places of the command line and misses none
(`SettingsForIs`), so that the first and the last of a key in the list are the
first and the last on the command line (`SettingsForGive`).  `Accumulated` says that
after each setting the configuration has the keys so far with their last values
(`AccumulateIs`); in the concatenation of the global and the specific list the
last of a key is the specific one if there is any (`LastWins`).

### NatRecursion

A recursive function `f[n \in S] == ...` is, in TLA+, a function chosen among those
that satisfy the equation.  So what it computes follows only once one exists and
is unique, which takes induction.  The library's induction theorems have an
operator as a parameter; `SetInduction` says the same of a set that holds 0 and is
closed under successor, and the existence of a least element (`LeastNat`) and the
rest follow.  `RecursionExists` is what the other modules cite: for a base and a
family of step functions on a set, the function defined by recursion exists.

### InstanceGroupProofs

Assumptions: `InputsAssumption` (a configuration is two sequences of groups),
`DevicesAssumption` and `ConditionsAssumption` (what a machine and a
configuration can have).  Groups and preferences are of any length, counts
and devices any numbers.

| Theorem | States |
|---|---|
| `TypeCorrect` | `TypeOK` |
| `Complete` | `ValidatedComplete` |
| `GivenKept` | `ExplicitKept` |
| `NormalizedOnce` | `Idempotent` |
| `Placed`, `Counted` | `PlacedAsPreferred`, `CountAsPreferred` |
| `Placeable`, `Accepted` | `AcceptedPlaceable`, `DocumentedAccepted` |

The inductive invariant says how far the two calls have come and that the groups
are what that makes of the given ones (`Progress`).  The work is in what the loops
compute.  The pass over the groups is a map, so that a property of a
configuration becomes one of a single group.  For one group the loop over the
preferences has the invariant `AfterTurns`: after any number of turns its GPUs
are its own, or those supported of the first preferred group that offers any,
and its count its own, or that of the first preferred group of its kind that is
not passed over.  `OneMoreTurn` preserves it, and the induction is on the number of
turns.  `IsCompleted` is what follows for a whole group, field by field, and
the properties are read off it; `Idempotent` from `CompletedAgain`: with its
fields filled a group is left as it is.  `DocumentedAccepted` needs
both directions: a group passes the checks exactly if what it started from is one
the code can serve (`FeasibleIs`), which is what the documents let it ask for if it
is none of those whose treatment departs from them (`FeasibleDocumented`), and a
configuration is accepted exactly if each of its groups is.  One without groups gets a
group that passes, unless the preference it comes from departs (`DefaultPasses`).

### JsonValueProofs

Assumptions: `AddressesAssumption` and `PoolsAssumption` (addresses and documents
are numbers, the null value is none, and there are finitely many addresses, which
`Reach` needs to end).  Any number of values, documents, elements, names and
scalars.

| Theorem | States |
|---|---|
| `TypeCorrect` | `TypeOK` |
| `MemoryKept` | `NodesOwned` |
| `ElementsUnshared` | `NodesUnshared` |
| `OverwriteFound` | `OverwriteVisible` |

The root of a value and the content of an element are both *tables*, and the
invariant is about them (`Sound`): each slot of a table is in the pool the table
belongs to, or both pools are among those that exchanged contents (`Joined`); no
two slots of any tables are the same; a table has a name for each slot, and one
without a pool is no object or array.  With `References` (the element that a value
refers to is in the value's pool, or joined to it) and `Documents` (no two documents
share a pool) it is inductive, though `NodesOwned` and `NodesUnshared` alone are not:
a step such as `AddValue` moves a table that no value may reach afterwards.

A step is a composition of a few changes to tables, each with one lemma:
slots are lost (`Thinned`, `Emptied`), tables change places
(`Swapped`, a case of `Exchanged`), a free address gets a content (`Allocated`), an
unused slot is linked to a table (`Linked`), a document is copied (`Copying`).
`StoreGood` and `CommitGood` turn sound tables into the next state, dropping what
is not reached.  For that `Reach`, a recursive function, is shown to be the least
closed set around its argument (`ReachFacts`): sets that grow within a finite one
must stop.  `NodesOwned` is then that the addresses of one pool, or of all that are
joined to it, are closed.  When a document goes (`GoneGood`), its pool leaves
`crossed`: that what remains is still sound takes that no other value gets to any
of its memory, the caller's part.

`OverwriteFound` compares the members before and after: unique names make the
first of a name the only one (`MembersFacts`), and no two slots being the same
makes the write to a free address, and the move of the last member into the
place of the removed one, invisible to all others.

### Only model-checked

* Liveness (`CreateTerminates`, `DrainTerminates`, `SessionEnds`) and
  the fair part of the refinement (`ImplementsFairRegistry` beyond
  `ImplementsRegistry`): TLAPS does not reason about fairness here.

All invariants that the runs check, and the action property `EntriesStable`, are
theorems.

## 6. What is not modelled

* `BackendState` only reads the map under `mu_`.  The JSON message a backend gets
  and its opaque state are data no property tells apart.
* The server (`server.cc`), the scheduler, the rate limiter, the inference request
  and all operations of an instance but its signature are interfaces, stubs that
  return success, or empty files.  A model of them would be invented.  So would one
  of the backend thread: nothing creates it, the body of its loop is commented
  out, and a TODO names the missing signal (`backend_model_instance.cc:83`).
* `Model::SetModelConfig` and `SetScheduler` have no caller; `Enqueue` and `Stop`
  need a scheduler that no code sets.
* `BackendModel::PrepareInstances` is a stub, so the lists that `CommitInstances`
  swaps are empty.
* `Message` is a text that never changes.
* The version of a path is `atoll` of its base name, which returns 0 on a text that
  is no number and never throws; what it computes is the C library's.
* Reading files and JSON texts of configurations, and `stat` calls: input and
  output, and protobuf's own code.
* `model_config.pb.{cc,h}` (30,653 lines) is generated by protoc, and
  `thirdparty/rapidjson` (about 15,000) is vendored.  Together they are nine
  tenths of the repository's lines, so only a tenth of it is the program's own and
  the modules cover about half of that: the rest are declarations, includes,
  stubs, wording and the readers of JSON scalars.  The demo programs link to
  nothing of the core.

## 7. Plan

Done: the registry and its abstract specification, the loader, instance groups,
the load of a model composed with the registry, the pure functions, JSON values,
signatures; and the proofs of all their safety properties and of the
refinement of the registry.  What is left to TLC is liveness.

When the server, the rate limiter and the backend threads are written, they
come next: `ModelLoad` has the place where a model's instances are committed.
