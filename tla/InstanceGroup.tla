---------------------------- MODULE InstanceGroup ----------------------------
(***************************************************************************)
(* How a model's instance groups are completed from the backend's          *)
(* preferences and the devices of the machine, and then validated          *)
(* (core/model_config_utils.cc, called by BackendModel::Create).           *)
(*                                                                         *)
(* A group is a record of the fields the code reads; a repeated field is a *)
(* sequence, and a name is a sequence so that <model>_<number> is a value. *)
(***************************************************************************)
EXTENDS Integers, FiniteSets, SequencesExt

CONSTANTS
    Devices,      \* the sets of GPU ids a build's query can report
    Inputs,       \* the pairs of the groups a configuration gives and the
                  \* groups its backend prefers
    Conditions    \* the readings of the condition of platform.cc:7: FALSE
                  \* as it stands, TRUE if it tested that there is a pointer

VARIABLES
    tested,     \* the condition of platform.cc:7 that was built
    devices,    \* the ids of the supported GPUs
    given,      \* the groups of the configuration as it was loaded
    preferred,  \* the preferred_groups_ of the backend's attributes
    ensemble,   \* config->has_ensemble_scheduling()
    backend,    \* config->backend()
    groups,     \* config->instance_group()
    status      \* "loaded", "normalized", "accepted", or why it was rejected

inputs == <<tested, devices, given, preferred, ensemble, backend>>
vars == <<inputs, groups, status>>

Kinds == {"KIND_AUTO", "KIND_GPU", "KIND_CPU", "KIND_MODEL"}
NoName == <<>>
ModelName == <<"model">>
GivenName == <<"given">>    \* stands for any name that a configuration gives

\* The groups that a configuration or a backend can give.
Group == [name : {NoName, GivenName}, kind : Kinds, count : Int, gpus : Seq(Int)]

ASSUME InputsAssumption == Inputs \subseteq Seq(Group) \X Seq(Group)

\* The query fills an std::set with ids that are not negative.
ASSUME DevicesAssumption ==
    \A ids \in Devices : ids \subseteq Nat /\ IsFiniteSet(ids)

ASSUME ConditionsAssumption == Conditions \subseteq BOOLEAN

\* Mutant: the groups are numbered from one.
DefaultNameFromOne(i) == <<"model", i + 1>>

DefaultName(i) == <<"model", i>>

ManyInstanceBackends == {"tensorflow", "onnxruntime"}

-----------------------------------------------------------------------------
(* The query of the devices *)

\* Both callers pass a pointer that is not null.  As it stands the condition
\* assigns nullptr to it and is false, so the query fails on every machine
\* and leaves the caller's set as it was, empty.
GetSupportedGPUs ==
    [ok |-> tested, gpus |-> IF tested THEN devices ELSE {}]

-----------------------------------------------------------------------------
(* Normalization; supported is supported_gpus, what the query reported, and *)
(* pgs are the preferred_groups.                                           *)

\* The GPUs of a list that are supported, in the order of the list.
Supported(list, supported) ==
    LET kept[n \in 0..Len(list)] ==
            IF n = 0 THEN <<>>
            ELSE IF list[n] \in supported THEN Append(kept[n - 1], list[n])
            ELSE kept[n - 1]
    IN kept[Len(list)]

AllSupported(list, supported) == Range(list) \subseteq supported

\* A preferred group for GPUs is passed over on a machine without any.
Usable(pg, supported) == pg.kind # "KIND_GPU" \/ supported # {}

NewGroup ==
    [name |-> ModelName, kind |-> "KIND_AUTO", count |-> 0, gpus |-> <<>>]

\* Mutant: the GPUs of a preferred group are taken unfiltered.
DefaultGroupUnfiltered(pgs, supported) ==
    LET usable == {j \in DOMAIN pgs : Usable(pgs[j], supported)}
    IN IF usable = {} THEN NewGroup
       ELSE [pgs[Min(usable)] EXCEPT !.name = ModelName]

\* The group of a configuration that gives none follows the first preferred
\* group that is usable.
DefaultGroup(pgs, supported) ==
    LET usable == {j \in DOMAIN pgs : Usable(pgs[j], supported)}
        pg     == pgs[Min(usable)]
    IN IF usable = {} THEN NewGroup
       ELSE [NewGroup EXCEPT
                !.kind  = pg.kind,
                !.count = pg.count,
                !.gpus  = CASE pg.kind = "KIND_GPU"  -> Supported(pg.gpus, supported)
                            [] pg.kind = "KIND_AUTO" -> pg.gpus
                            [] OTHER                 -> <<>>]

ResolveKind(g, supported) ==
    IF g.kind # "KIND_AUTO" THEN g
    ELSE [g EXCEPT !.kind =
            IF supported # {} /\ AllSupported(g.gpus, supported)
            THEN "KIND_GPU" ELSE "KIND_CPU"]

\* Mutant: a preferred group without available GPUs still gives its count.
ApplyPreferredNoSkip(g, pg, supported) ==
    IF g.kind # pg.kind THEN g
    ELSE [g EXCEPT
            !.gpus  = IF g.kind = "KIND_GPU" /\ @ = <<>>
                      THEN Supported(pg.gpus, supported) ELSE @,
            !.count = IF @ < 1 /\ pg.count > 0 THEN pg.count ELSE @]

\* Mutant: the GPUs of a preferred group are added to those there are.
ApplyPreferredAdds(g, pg, supported) ==
    IF g.kind # pg.kind THEN g
    ELSE [g EXCEPT !.gpus = @ \o Supported(pg.gpus, supported)]

\* One turn of the loop over the preferred groups, once the kind is resolved.
ApplyPreferred(g, pg, supported) ==
    LET fill   == g.kind = "KIND_GPU" /\ g.gpus = <<>> /\ pg.gpus # <<>>
        listed == Supported(pg.gpus, supported)
    IN IF g.kind # pg.kind \/ (fill /\ listed = <<>>) THEN g
       ELSE [g EXCEPT
                !.gpus  = IF fill THEN listed ELSE @,
                !.count = IF @ < 1 /\ pg.count > 0 THEN pg.count ELSE @]

\* A group after each number of turns of that loop.
Turns(g, pgs, supported) ==
    LET after[n \in 0..Len(pgs)] ==
            IF n = 0 THEN g
            ELSE ApplyPreferred(after[n - 1], pgs[n], supported)
    IN after

SetDefaultInstanceCount(g, name) ==
    [g EXCEPT !.count =
        IF g.kind = "KIND_CPU" /\ name \in ManyInstanceBackends THEN 2 ELSE 1]

\* Mutant: only a count of zero is taken for one that is missing.
FillCountZero(g, name) ==
    IF g.count = 0 THEN SetDefaultInstanceCount(g, name) ELSE g

FillCount(g, name) ==
    IF g.count < 1 THEN SetDefaultInstanceCount(g, name) ELSE g

\* The elements of a set of numbers in the order of an std::set.
InOrder(S) ==
    CHOOSE s \in [1..Cardinality(S) -> S] :
        \A i, j \in DOMAIN s : i < j => s[i] < s[j]

\* Mutant: a group that may use all GPUs is left without a list of them.
FillGpusNever(g, supported) == g

FillGpus(g, supported) ==
    IF g.kind = "KIND_GPU" /\ g.gpus = <<>>
    THEN [g EXCEPT !.gpus = InOrder(supported)]
    ELSE g

\* The i-th turn of the loop over the groups.
Completed(g, i, pgs, supported, name) ==
    LET named  == [g EXCEPT !.name = IF @ # NoName THEN @
                                     ELSE DefaultName(i - 1)]
        chosen == Turns(ResolveKind(named, supported), pgs, supported)[Len(pgs)]
    IN FillGpus(FillCount(chosen, name), supported)

NormalizeInstanceGroup(gs, pgs, supported, name) ==
    LET start == IF gs = <<>> THEN <<DefaultGroup(pgs, supported)>> ELSE gs
    IN [i \in DOMAIN start |-> Completed(start[i], i, pgs, supported, name)]

-----------------------------------------------------------------------------
(* Validation *)

\* Mutant: the GPUs of a group for the CPU are not looked at.
GroupErrorLenient(g, supported) ==
    CASE g.kind = "KIND_GPU" /\ g.gpus = <<>> -> "no GPUs available"
      [] g.kind = "KIND_GPU" /\ ~AllSupported(g.gpus, supported) -> "unsupported GPU"
      [] OTHER -> "none"

\* What is wrong with a group, "none" if nothing is.
GroupError(g, supported) ==
    CASE g.kind = "KIND_GPU" /\ g.gpus = <<>> ->
            IF supported = {} THEN "no GPUs available" ELSE "no GPUs specified"
      [] g.kind = "KIND_GPU" /\ g.gpus # <<>> /\ ~AllSupported(g.gpus, supported) ->
            "unsupported GPU"
      [] g.kind = "KIND_CPU" /\ g.gpus # <<>> -> "GPUs for KIND_CPU"
      [] g.kind \notin {"KIND_GPU", "KIND_CPU"} -> "unexpected kind"
      [] OTHER -> "none"

\* The first thing that is wrong with the groups.
ValidateInstanceGroup(gs, query) ==
    LET wrong == {i \in DOMAIN gs : GroupError(gs[i], query.gpus) # "none"}
    IN IF gs = <<>> THEN "no instance groups"
       ELSE IF ~query.ok THEN "query failed"
       ELSE IF wrong # {} THEN GroupError(gs[Min(wrong)], query.gpus)
       ELSE "accepted"

-----------------------------------------------------------------------------
(* The two calls of BackendModel::Create *)

Init ==
    /\ tested \in Conditions
    /\ devices \in Devices
    /\ \E input \in Inputs : given = input[1] /\ preferred = input[2]
    /\ ensemble \in BOOLEAN
    /\ backend \in {"onnxruntime", "pytorch"}
    /\ groups = given
    /\ status = "loaded"

\* What the first call makes of the groups.
NormalizedGroups(gs) ==
    NormalizeInstanceGroup(gs, preferred, GetSupportedGPUs.gpus, backend)

Normalize ==
    /\ status = "loaded"
    /\ \/ /\ ensemble
          /\ status' = "normalized"
          /\ UNCHANGED groups
       \/ /\ ~ensemble
          /\ ~GetSupportedGPUs.ok
          /\ status' = "query failed"
          /\ UNCHANGED groups
       \/ /\ ~ensemble
          /\ GetSupportedGPUs.ok
          /\ status' = "normalized"
          /\ groups' = NormalizedGroups(groups)
    /\ UNCHANGED inputs

Validate ==
    /\ status = "normalized"
    /\ status' = ValidateInstanceGroup(groups, GetSupportedGPUs)
    /\ UNCHANGED <<inputs, groups>>

Next == Normalize \/ Validate

Spec == Init /\ [][Next]_vars

-----------------------------------------------------------------------------
(* Properties *)

\* Normalization came to its end, and the configuration is no ensemble's.
Normalized == status \notin {"loaded", "query failed"} /\ ~ensemble

\* Types; a name is the given one, the model's, or formed from the position.
TypeOK ==
    /\ \A i \in DOMAIN groups :
          groups[i] \in [name : {NoName, ModelName, GivenName, <<"model", i - 1>>},
                        kind : Kinds, count : Int, gpus : Seq(Int)]
    /\ status \in {"loaded", "normalized", "accepted", "no instance groups",
                   "query failed", "no GPUs available", "no GPUs specified",
                   "unsupported GPU", "GPUs for KIND_CPU", "unexpected kind"}

\* Only a completed configuration gets to validation: whatever it gave or left
\* out, negative counts included, every group has a name, a resolved kind and
\* instances to create (backend_model.cc:67-70, model_config_utils.cc:345-398).
ValidatedComplete ==
    Normalized =>
        /\ groups # <<>>
        /\ \A i \in DOMAIN groups : /\ groups[i].name # NoName
                                   /\ groups[i].kind # "KIND_AUTO"
                                   /\ groups[i].count >= 1

\* Normalization adds what is missing and overrides nothing: the groups the
\* configuration gives stay the groups there are, in their order, each with
\* the name, the kind other than KIND_AUTO, the GPUs and the count it gives
\* (model_config_utils.cc:349-406, model_config_utils.h:132).
ExplicitKept ==
    Normalized /\ given # <<>> =>
        /\ DOMAIN groups = DOMAIN given
        /\ \A i \in DOMAIN given :
              /\ given[i].name # NoName => groups[i].name = given[i].name
              /\ given[i].kind # "KIND_AUTO" => groups[i].kind = given[i].kind
              /\ given[i].gpus # <<>> => groups[i].gpus = given[i].gpus
              /\ given[i].count >= 1 => groups[i].count = given[i].count

\* A configuration that was normalized on a machine is normalized already:
\* loading it again on that machine changes nothing, so no field is left to a
\* later pass (model_config_utils.cc:298-408).
Idempotent == Normalized => NormalizedGroups(groups) = groups

\* The groups that the preferences are applied to.
Start ==
    IF given = <<>> THEN <<DefaultGroup(preferred, GetSupportedGPUs.gpus)>>
    ELSE given

\* The preferred groups that offer GPUs of this machine.
Offering == {j \in DOMAIN preferred :
                /\ preferred[j].kind = "KIND_GPU"
                /\ \E n \in DOMAIN preferred[j].gpus :
                      preferred[j].gpus[n] \in devices}

\* "Limit the GPU setting within what is specified in the preferred group, if no
\* available GPU then skip to next preferred group" (model_config_utils.cc:377):
\* a group for GPUs that lists none gets those of this machine that the first
\* preferred group which has any lists, and all of them only if none does; its
\* list is never mixed from two preferences, whichever of them gives the count.
\* That a preference may narrow the list is not what model_config.proto says of
\* an empty one: see EmptyMeansAll.
PlacedAsPreferred ==
    Normalized => \A i \in DOMAIN groups :
        groups[i].kind = "KIND_GPU" /\ Start[i].gpus = <<>> =>
            Range(groups[i].gpus) =
                IF Offering = {} THEN devices
                ELSE Range(preferred[Min(Offering)].gpus) \cap devices

\* The count comes from the first preferred group of the kind that has one and
\* that is not passed over because this machine has none of its GPUs, and is
\* the backend's default otherwise (model_config_utils.cc:373-398, 282-296).
CountAsPreferred ==
    Normalized => \A i \in DOMAIN groups :
        LET giving == {j \in DOMAIN preferred :
                /\ preferred[j].kind = groups[i].kind
                /\ preferred[j].count > 0
                /\ \/ groups[i].kind # "KIND_GPU"
                   \/ Start[i].gpus # <<>>
                   \/ preferred[j].gpus = <<>>
                   \/ \E k \in Offering : k <= j}
        IN groups[i].count =
              IF Start[i].count >= 1 THEN Start[i].count
              ELSE IF giving # {} THEN preferred[Min(giving)].count
              ELSE IF groups[i].kind = "KIND_CPU" /\ backend = "onnxruntime"
              THEN 2 ELSE 1

\* An accepted configuration can be carried out: every group has instances to
\* create and says where, on GPUs that are there or on the CPU alone
\* (model_config_utils.cc:190-249).
AcceptedPlaceable ==
    status = "accepted" /\ ~ensemble =>
        /\ groups # <<>>
        /\ \A i \in DOMAIN groups :
              /\ groups[i].count >= 1
              /\ \/ /\ groups[i].kind = "KIND_GPU"
                    /\ groups[i].gpus # <<>>
                    /\ Range(groups[i].gpus) \subseteq devices
                 \/ groups[i].kind = "KIND_CPU" /\ groups[i].gpus = <<>>

\* What model_config.proto lets a group ask for (143-258), and this machine has:
\* "If KIND_CPU or KIND_MODEL only 'count' is valid and 'gpu' cannot be
\* specified"; a group of KIND_GPU "must run on the GPU", and one of KIND_AUTO
\* can run on either.
Documented(g) ==
    /\ g.kind \in {"KIND_CPU", "KIND_MODEL"} => g.gpus = <<>>
    /\ g.kind = "KIND_GPU" => devices # {} /\ Range(g.gpus) \subseteq devices

\* The groups whose treatment departs from model_config.proto.  One of KIND_MODEL
\* is refused on every machine, although it "represents instances that should run
\* on the CPU and/or GPU(s) as specified by the model or backend itself"
\* (176-177): validation takes its kind for an unresolved KIND_AUTO
\* (model_config_utils.cc:241-247).  AutoFallsBack says of the other, and fails.
Departing(g) ==
    \/ g.kind = "KIND_MODEL"
    \/ g.kind = "KIND_AUTO" /\ ~ Range(g.gpus) \subseteq devices

\* The preferred group that stands in where a configuration gives none.
UsableNow == {j \in DOMAIN preferred :
                 preferred[j].kind = "KIND_GPU" => devices # {}}

\* What the documents let a group ask for, and no more, gets past validation.
\* No accepted configuration gives a group that model_config.proto excludes or
\* this machine cannot serve; and if it gives none of those, and nothing that the
\* code departs from, it is accepted: no preference, default or earlier pass over
\* the groups makes a configuration refused.  One that gives no group asks for
\* nothing, so only a departing preference can have it refused; a preference for
\* GPUs is cut down to those that are there (model_config_utils.cc:316-343,
\* 190-249).
DocumentedAccepted ==
    ~ensemble /\ status \notin {"loaded", "normalized", "query failed"} =>
        /\ status = "accepted" => \A i \in DOMAIN given : Documented(given[i])
        /\ /\ \A i \in DOMAIN given : Documented(given[i]) /\ ~Departing(given[i])
           /\ given = <<>> /\ UsableNow # {} => ~Departing(preferred[Min(UsableNow)])
           => status = "accepted"

\* "If all GPUs listed in 'gpus' are available then instances will be created
\* on GPU(s), otherwise instances will be created on CPU"
\* (model_config.proto:154-156): a group of KIND_AUTO is never refused.  The
\* code keeps the list of GPUs when it falls back to the CPU, and validation
\* refuses a list of GPUs for KIND_CPU.
AutoFallsBack ==
    /\ ~ensemble
    /\ given # <<>>
    /\ \A i \in DOMAIN given : given[i].kind = "KIND_AUTO"
    => status \in {"loaded", "normalized", "accepted"}

\* "Setting 'gpus' to empty (or not specifying at all) is equivalent to listing
\* all available GPUs" (model_config.proto:254-256), and "For KIND_GPU, set GPUs
\* to all available if not specified explicitly" (model_config_utils.cc:346-347).
\* A preferred group that lists GPUs comes first.
EmptyMeansAll ==
    Normalized => \A i \in DOMAIN given :
        given[i].kind = "KIND_GPU" /\ given[i].gpus = <<>> =>
            Range(groups[i].gpus) = devices

\* "A non-ok status means there were errors encountered while querying GPU
\* devices" (platform.h:13-14).  No device is ever queried here, so there are
\* no such errors, and the query never fails.
QueryAnswers == status # "query failed"
=============================================================================
