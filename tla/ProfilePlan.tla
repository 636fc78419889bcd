----------------------------- MODULE ProfilePlan -----------------------------
(***************************************************************************)
(* The plan of a resolved profile (cli/planner.py, cli/secrets.py).  The   *)
(* planner does not rely on the validator: it loads the modules again,     *)
(* fills in the defaults of their schemas, applies the options of the      *)
(* command line, and resolves secrets, provided and consumed contracts and *)
(* outputs on the configuration that comes out of that.                    *)
(*                                                                         *)
(* The options of a command are a record [hardened, imageSource, env,      *)
(* allowMissing]: env is the set of environment variables that are set.    *)
(* A planned module is [id, dependsOn, config, consumes, provides, def]:   *)
(* provides maps names to [kind, spec], consumes maps names to [many,      *)
(* bound]: the bindings [ref, contract] and whether they are a list.       *)
(***************************************************************************)
EXTENDS ProfileValidation

(***************************************************************************)
(* Configuration                                                           *)
(***************************************************************************)

\* apply_defaults
ApplyDefaults(config, schema, env) ==
    Override([p \in {q \in DOMAIN schema : HasDefault(schema[q], env)} |-> DefaultOf(schema[p], env)],
             config)

Put(config, path, value) == Override(config, [p \in {path} |-> value])

\* --hardened, for the modules that have an image variant.
ApplyHardened(config, schema, hardened) ==
    IF hardened /\ "image.variant" \in DOMAIN schema
    THEN Put(config, "image.variant", Text("hardened")) ELSE config

\* Mutant: the default tag is kept, whatever the variant.
ImageSourceOnly(config, schema, source) ==
    IF source = Absent \/ "image.source" \notin DOMAIN schema THEN config
    ELSE Put(config, "image.source", Text(source))

\* _apply_image_source_override: the default tag is of the base variant, so
\* another variant takes it over under its own prefix; a pinned tag stays.
ApplyImageSource(config, schema, source) ==
    IF source = Absent \/ "image.source" \notin DOMAIN schema THEN config
    ELSE LET chosen  == Put(config, "image.source", Text(source))
             default == At(At(schema, "image.tag", Nothing), "default", Blank)
             variant == At(config, "image.variant", Blank)
         IN IF /\ source = "registry"
               /\ default # Blank
               /\ At(config, "image.tag", Blank) = default
               /\ variant \notin {Blank, Text("base")}
               /\ default.variant # variant.text
            THEN Put(chosen, "image.tag", Tag(variant.text, default.tag))
            ELSE chosen

PlannedConfig(m, env, options) ==
    LET schema == DefinitionOf(m).schema
    IN ApplyImageSource(
           ApplyHardened(ApplyDefaults(ConfigOf(m), schema, env), schema, options.hardened),
           schema, options.imageSource)

(***************************************************************************)
(* Secrets and certificates                                                *)
(***************************************************************************)

\* load_profile_secrets: the aliases whose variable is set, or every alias for
\* a report; the names of variables, never their values.
SecretNames(doc, options) ==
    LET secrets == SecretValues(doc)
    IN [a \in {b \in DOMAIN secrets : options.allowMissing \/ secrets[b].env \in options.env}
          |-> secrets[a].env]

\* resolve_secret with required, for each declared alias.
SecretErrors(doc, options) ==
    LET secrets == SecretValues(doc)
    IN {<<"E081", "secrets">> : a \in {b \in DOMAIN secrets :
            ~options.allowMissing /\ secrets[b].required /\ secrets[b].env \notin options.env}}

\* resolve_secret_refs and resolve_certificate_refs (build_certificate_env_map)
PlannedReferenceErrors(doc, id, config, secrets) ==
    LET values == {config[p] : p \in DOMAIN config}
    IN When(\E v \in values : IsSecret(v) /\ v.alias \notin DOMAIN secrets, "E081", id)
       \cup When(\E v \in values : IsCertificate(v)
                    /\ (v = BadCertificate \/ v.of \notin DOMAIN Section(doc, "certificates")),
                 "E129", id)

(***************************************************************************)
(* Loading                                                                 *)
(***************************************************************************)

\* The first loop of build_plan_from_profile: what keeps an enabled entry out
\* of the plan.  The kind and the schema of the definition are not looked at.
PlanLoadError(m) ==
    LET def == DefinitionOf(m)
    IN CASE m.id = NoId \/ SourceOf(m) = Absent -> "E010"
         [] SourceOf(m) = Outside -> "E022"
         [] def = Absent          -> "E020"
         [] def = Unreadable      -> "E001"
         [] OTHER                 -> "none"

PlanInstance(doc, m, options) ==
    [id |-> m.id, dependsOn |-> DependsOn(m), def |-> DefinitionOf(m),
     config |-> PlannedConfig(m, Environment(doc), options)]

PlanInstances(doc, options) ==
    LET loadable == Only(Enabled(doc), {m \in Range(Enabled(doc)) : PlanLoadError(m) = "none"})
    IN [i \in DOMAIN loadable |-> PlanInstance(doc, loadable[i], options)]

(***************************************************************************)
(* Contracts                                                               *)
(***************************************************************************)

\* The name that a module's volume has in the Compose file.
VolumeName(id, volume) == PartsOf(id) \o PartsOf(volume)

\* substitute_string and resolve_expr on one advertisement: a secret becomes
\* the placeholder of its variable, and what does not resolve stays as it is.
Runtime(value, secrets) ==
    IF IsSecret(value) THEN Placeholder(At(secrets, value.alias, value.alias)) ELSE value

Substitute(adv, inst, secrets) ==
    LET config == inst.config
    IN CASE adv.as = "literal" -> adv.value
         [] adv.as = "dns"     -> Host(DnsHost(inst.id, inst.def))
         [] adv.as = "id"      -> Host(PartsOf(inst.id))
         [] adv.as = "volume"  -> Host(VolumeName(inst.id, adv.name))
         [] adv.as = "config"  -> IF Holds(config, adv.path) THEN Runtime(config[adv.path], secrets)
                                  ELSE [is |-> "unresolved", path |-> adv.path]
         [] OTHER -> IF At(config, adv.path, Blank) = Blank THEN Blank ELSE Text("required")

\* resolve_provided_contracts: of two contracts of one name the last stays.
ProvidedContracts(inst, secrets) ==
    [n \in ProvideNames(inst.def) |->
        LET p == Latest(inst.def.provides, n)
        IN [kind |-> p.kind,
            spec |-> [f \in DOMAIN p.spec |-> Substitute(p.spec[f], inst, secrets)]]]

\* _resolve_one_ref: whether a reference leads to a planned contract.  The kind
\* of that contract is the validator's business.
Leads(ref, contracts) ==
    /\ IsRef(ref)
    /\ ref[1] \in DOMAIN contracts
    /\ ref[2] \in DOMAIN contracts[ref[1]]

Bound(ref, contracts) == [ref |-> ref, contract |-> contracts[ref[1]][ref[2]]]

\* The body of the loop of resolve_consumed_contracts: the bindings of one
\* consume entry and whether it is in error.
Consumed(inst, consume, contracts) ==
    LET required == consume.required \/ RequiredBy(consume.requiredIf, inst.config)
        value    == At(inst.config, consume.from, Blank)
        good     == Only(value.refs, {r \in Range(value.refs) : Leads(r, contracts)})
    IN CASE value.is = "bindings" ->
              [many  |-> TRUE,
               bound |-> [i \in DOMAIN good |-> Bound(good[i], contracts)],
               error |-> \/ good = <<>> /\ required
                         \/ \E r \in Range(value.refs) : ~Leads(r, contracts)]
         [] value.is = "binding" ->
              [many  |-> FALSE,
               bound |-> IF Leads(value.ref, contracts) THEN <<Bound(value.ref, contracts)>> ELSE <<>>,
               error |-> ~Leads(value.ref, contracts)]
         [] OTHER -> [many |-> FALSE, bound |-> <<>>, error |-> required \/ value # Blank]

\* What ends up in `consumes`, the last binding under each name, and the errors
\* on the way there.
ConsumedContracts(inst, contracts) ==
    LET bound == Only(inst.def.consumes,
                      {c \in Range(inst.def.consumes) : Consumed(inst, c, contracts).bound # <<>>})
    IN [n \in {bound[i].name : i \in DOMAIN bound} |-> Consumed(inst, Latest(bound, n), contracts)]

PlannedContractErrors(inst, contracts) ==
    When(\E c \in Range(inst.def.consumes) : Consumed(inst, c, contracts).error, "E041", inst.id)

(***************************************************************************)
(* Checks of the whole plan                                                *)
(***************************************************************************)

\* The names of the volumes of a module's Compose template, gated or not.
DeclaredVolumes(module) == {Host(VolumeName(module.id, v)) : v \in DOMAIN module.def.volumes}

\* validate_backup_source_bindings: a volume that is to be backed up exists.
BackupSourceErrors(module, modules) ==
    When(\E n \in DOMAIN module.consumes :
            LET bound == module.consumes[n].bound[1]
            IN /\ ~module.consumes[n].many
               /\ bound.contract.kind = "backup-source"
               /\ "volume" \in DOMAIN bound.contract.spec
               /\ bound.contract.spec.volume \notin DeclaredVolumes(Instance(modules, bound.ref[1])),
         "E146", module.id)

\* validate_object_storage_backup_destinations: a bucket is not copied to itself.
DestinationErrors(module) ==
    When(/\ module.def.category = "backup"
         /\ Holds(module.config, "destination")
         /\ \E n \in DOMAIN module.consumes :
               LET contract == module.consumes[n].bound[1].contract
               IN /\ ~module.consumes[n].many
                  /\ contract.kind = "object-storage"
                  /\ At(contract.spec, "bucket", Blank) = module.config["destination"],
         "E147", module.id)

\* validate_service_mesh_enrollments: an enrolled service is a planned module.
EnrollmentErrors(module, ids) ==
    When(/\ \E n \in DOMAIN module.provides : module.provides[n].kind = "service-mesh"
         /\ Holds(module.config, "services")
         /\ ~(module.config["services"].names \subseteq ids),
         "E159", module.id)

\* resolve_outputs
PlannedOutputs(doc, contracts) ==
    LET outputs == Section(doc, "outputs")
    IN [o \in {n \in DOMAIN outputs : Leads(outputs[n], contracts)} |-> Bound(outputs[o], contracts)]

(***************************************************************************)
(* build_plan_from_profile                                                 *)
(***************************************************************************)
PlannedModule(inst, contracts) ==
    [id |-> inst.id, dependsOn |-> inst.dependsOn, config |-> inst.config, def |-> inst.def,
     provides |-> contracts[inst.id], consumes |-> ConsumedContracts(inst, contracts)]

NoPlan(errors) == [modules |-> <<>>, outputs |-> Nothing, secrets |-> Nothing,
                   environment |-> Absent, errors |-> errors]

\* The plan of the modules that could be loaded, whose contracts are known.
Assemble(doc, options, secrets, instances, contracts) ==
    LET modules   == [i \in DOMAIN instances |-> PlannedModule(instances[i], contracts)]
        outputs   == PlannedOutputs(doc, contracts)
        ofModule(i) == UNION {
            PlannedReferenceErrors(doc, instances[i].id, instances[i].config, secrets),
            PlannedContractErrors(instances[i], contracts),
            BackupSourceErrors(modules[i], modules),
            DestinationErrors(modules[i]),
            EnrollmentErrors(modules[i], IdsOf(instances))}
    IN [modules |-> modules, outputs |-> outputs, secrets |-> secrets,
        environment |-> Environment(doc),
        errors |-> SecretErrors(doc, options)
                   \cup {<<PlanLoadError(m), m.id>> : m \in {n \in Range(Enabled(doc)) :
                                                               PlanLoadError(n) # "none"}}
                   \cup (UNION {ofModule(i) : i \in DOMAIN modules})
                   \cup {<<"E060", o>> : o \in DOMAIN Section(doc, "outputs") \ DOMAIN outputs}]

PlanInstanceList(doc, options, secrets, instances) ==
    Assemble(doc, options, secrets, instances,
             [id \in IdsOf(instances) |-> ProvidedContracts(Instance(instances, id), secrets)])

BuildPlanFromProfile(doc, options) ==
    IF doc.modules = BadModules THEN NoPlan({<<"E010", "profile">>})
    ELSE PlanInstanceList(doc, options, SecretNames(doc, options), PlanInstances(doc, options))

\* Mutant: the document is only resolved.
PlanUnvalidated(resolved, overlay, options) ==
    IF ~resolved.ok THEN NoPlan(At1(resolved.errors, "profile"))
    ELSE BuildPlanFromProfile(resolved.doc, options)

\* With an environment the resolved document is validated on the way; without
\* one it is only resolved.
PlanResolved(resolved, overlay, options) ==
    IF ~resolved.ok THEN NoPlan(At1(resolved.errors, "profile"))
    ELSE IF overlay # Absent /\ Validate(resolved.doc) # {} THEN NoPlan(Validate(resolved.doc))
    ELSE BuildPlanFromProfile(resolved.doc, options)

\* build_plan
BuildPlan(disk, file, overlay, options) ==
    PlanResolved(Resolve(disk, file, overlay), overlay, options)

=============================================================================
