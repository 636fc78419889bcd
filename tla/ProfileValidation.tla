-------------------------- MODULE ProfileValidation --------------------------
(***************************************************************************)
(* What `cds validate` says of a resolved profile (cli/validator.py): a    *)
(* set of errors <<code, where>>, empty for a valid profile.  Warnings are *)
(* left out.  The configuration is looked at as it is written, before the  *)
(* planner fills in the defaults of the module schemas.                    *)
(*                                                                         *)
(* An instance is here what load_module_instances makes of an enabled      *)
(* entry whose module definition is usable:                                *)
(*     [id, config, dependsOn, def].                                       *)
(***************************************************************************)
EXTENDS ProfileTerms

CONSTANTS Unsupported,      \* the pairings <<kind, provider, consumer>> the registry rejects
          CredentialPaths   \* the config paths named like a credential

At1(errors, where) == {<<e, where>> : e \in errors}
When(condition, code, where) == IF condition THEN {<<code, where>>} ELSE {}

(***************************************************************************)
(* Shape and loading: an error in either ends the validation               *)
(***************************************************************************)

RequiredFields == {"source", "enabled"}
Environments   == {"local", "development", "staging", "production"}

\* validate_profile_shape: the profile schema, and the ids it cannot compare.
ShapeErrors(doc) ==
    IF doc.modules \in {BadModules, <<>>} \/ Environment(doc) \notin Environments
    THEN {<<"E010", "profile">>}
    ELSE When(NoId \in IdsOf(doc.modules) \/ doc.extends = BadExtends, "E010", "profile")
         \cup {<<"E010", m.id>> : m \in {n \in Range(doc.modules) :
                                           ~(RequiredFields \subseteq DOMAIN n.fields)}}
         \cup {<<"E011", doc.modules[i].id>> : i \in {j \in DOMAIN doc.modules :
                   \E k \in 1 .. j - 1 : doc.modules[k].id = doc.modules[j].id}}
         \cup When(~(At(Section(doc, "waiver"), "modules", {}) \subseteq IdsOf(doc.modules)),
                   "E012", "waiver")

Enabled(doc) == Only(doc.modules, {m \in Range(doc.modules) : IsEnabled(m)})

\* load_module_instances: the errors, and the instances that are left.
LoadError(m) ==
    LET def == DefinitionOf(m)
    IN CASE def = Absent     -> "E020"
         [] def = Unreadable -> "E001"
         [] SourceOf(m) = Outside -> "E022"
         [] ~(def.kindOk /\ def.schemaOk) -> "E021"
         [] OTHER -> "none"

LoadErrors(doc) ==
    {<<LoadError(m), m.id>> : m \in {n \in Range(Enabled(doc)) : LoadError(n) # "none"}}

Loaded(m) == [id |-> m.id, config |-> ConfigOf(m), dependsOn |-> DependsOn(m),
              def |-> DefinitionOf(m)]

Instances(doc) == LET enabled == Enabled(doc) IN [i \in DOMAIN enabled |-> Loaded(enabled[i])]

(***************************************************************************)
(* Configuration, dependencies, and references to secrets and certificates *)
(***************************************************************************)

\* validate_module_configs: the module's own JSON schema.
ConfigErrors(inst) ==
    LET schema == inst.def.schema
    IN When(\/ \E p \in DOMAIN schema : schema[p].required /\ ~Holds(inst.config, p)
            \/ \E p \in DOMAIN schema \cap DOMAIN inst.config :
                   inst.config[p] \notin schema[p].allowed,
            "E030", inst.id)

\* validate_dependencies: only enabled modules count.
ValidateDependencies(instances) ==
    LET order == [i \in DOMAIN instances |-> instances[i].id]
    IN ValidateDependencyGraph(order,
           [id \in Range(order) |-> Instance(instances, id).dependsOn])

\* validate_secret_refs and validate_certificate_refs
ReferenceErrors(doc, inst) ==
    LET values == {inst.config[p] : p \in DOMAIN inst.config}
    IN When(\E v \in values : IsSecret(v) /\ v.alias \notin DOMAIN SecretValues(doc),
            "E050", inst.id)
       \cup When(\E v \in values : IsCertificate(v)
                    /\ (v = BadCertificate \/ v.of \notin DOMAIN Section(doc, "certificates")),
                 "E129", inst.id)

(***************************************************************************)
(* Contract bindings                                                       *)
(***************************************************************************)

True(value) == value \in {Flag(TRUE), Text("true")}

\* _provider_advertises_tls and _backup_capability_enabled: a boolean, or the
\* provider's configuration as the profile writes it.
AdvertisesTrue(spec, field, config) ==
    /\ field \in DOMAIN spec
    /\ LET adv == spec[field]
       IN \/ adv.as = "literal" /\ adv.value = Flag(TRUE)
          \/ adv.as = "config" /\ Holds(config, adv.path) /\ True(config[adv.path])

\* _provider_advertised_engine: a text, or Blank when there is none.
AdvertisedEngine(spec, config) ==
    LET adv == At(spec, "engine", Literal(Blank))
        value == IF adv.as = "literal" THEN adv.value
                 ELSE IF adv.as = "config" /\ Holds(config, adv.path) THEN config[adv.path]
                 ELSE Blank
    IN IF value.is = "text" THEN value ELSE Blank

\* _consumer_expected_engine: what the profile sets, or the schema's plain
\* default (_schema_default_at_config_path).
ExpectedEngine(inst, path) ==
    IF Holds(inst.config, path) THEN inst.config[path]
    ELSE IF path \in DOMAIN inst.def.schema /\ "default" \in DOMAIN inst.def.schema[path]
         THEN inst.def.schema[path].default
         ELSE Blank

EngineErrors(inst, consume, spec, config) ==
    IF consume.engineFrom = NoPath THEN {}
    ELSE LET expected == ExpectedEngine(inst, consume.engineFrom)
         IN IF expected.is # "text" THEN {"E041"}
            ELSE IF AdvertisedEngine(spec, config) # expected THEN {"E154"}
            ELSE {}

\* _load_compatibility_registry, by _module_key: a module without a name or a
\* category is in no pairing.
IsUnsupported(kind, provider, consumer) ==
    /\ NoKey \notin {provider.key, consumer.key}
    /\ <<kind, provider.key, consumer.key>> \in Unsupported

\* Mutant: any contract of the module will do.
BindingKindUnchecked(inst, consume, ref, instances) ==
    IF ~IsRef(ref) \/ ref[1] \notin IdsOf(instances) THEN {"E041"}
    ELSE {code \in {"E041"} : ref[2] \notin ProvideNames(Instance(instances, ref[1]).def)}

\* _validate_one_ref
BindingErrors(inst, consume, ref, instances) ==
    IF ~IsRef(ref) \/ ref[1] \notin IdsOf(instances) THEN {"E041"}
    ELSE LET producer == Instance(instances, ref[1])
         IN IF ref[2] \notin ProvideNames(producer.def) THEN {"E041"}
            ELSE LET matched == Provided(producer.def, ref[2])
                 IN IF matched.kind # consume.kind THEN {"E042"}
                    ELSE {code \in {"E128"} : consume.tls
                             /\ ~AdvertisesTrue(matched.spec, "tls", producer.config)}
                         \cup EngineErrors(inst, consume, matched.spec, producer.config)
                         \cup {code \in {"E043"} : IsUnsupported(consume.kind, producer.def, inst.def)}

\* Mutant: only a binding that is set is looked at.
ConsumeSetOnly(inst, consume, instances) ==
    IF At(inst.config, consume.from, Blank).is # "binding" THEN {}
    ELSE BindingErrors(inst, consume, inst.config[consume.from].ref, instances)

\* The body of the loop over the consume entries of a module.
ConsumeErrors(inst, consume, instances) ==
    LET required == consume.required \/ RequiredBy(consume.requiredIf, inst.config)
    IN IF ~Holds(inst.config, consume.from) THEN {code \in {"E041"} : required}
       ELSE LET value == inst.config[consume.from]
            IN CASE value.is = "bindings" ->
                      {code \in {"E041"} : value.refs = <<>> /\ required}
                      \cup UNION {BindingErrors(inst, consume, r, instances) : r \in Range(value.refs)}
                 [] value.is = "binding" -> BindingErrors(inst, consume, value.ref, instances)
                 [] OTHER -> {code \in {"E041"} : required \/ value # Blank}

ContractErrors(inst, instances) ==
    At1(UNION {ConsumeErrors(inst, c, instances) : c \in Range(inst.def.consumes)}, inst.id)

(***************************************************************************)
(* References of the profile itself: outputs, log sink, data sharing       *)
(***************************************************************************)

Resolves(ref, instances) ==
    /\ IsRef(ref)
    /\ ref[1] \in IdsOf(instances)
    /\ ref[2] \in ProvideNames(Instance(instances, ref[1]).def)

KindOf(ref, instances) == Provided(Instance(instances, ref[1]).def, ref[2]).kind

\* validate_outputs
OutputErrors(doc, instances) ==
    LET outputs == Section(doc, "outputs")
    IN {<<"E060", o>> : o \in {n \in DOMAIN outputs : ~Resolves(outputs[n], instances)}}

\* The retention tiers of the log shipping: structured logs outlive raw ones.
RetentionErrors(log) ==
    LET days(k) == At(log, k, 1)
    IN When(\/ days("rawDays") < 1 \/ days("structuredDays") < 1
            \/ {"rawDays", "structuredDays"} \subseteq DOMAIN log
               /\ days("structuredDays") < days("rawDays"), "E101", "observability")

\* The provider that the log shipping is pinned to.
LogSinkErrors(log, instances) ==
    When("sink" \in DOMAIN log
         /\ ~(Resolves(log.sink, instances) /\ KindOf(log.sink, instances) = "log-sink"),
         "E102", "observability")

\* validate_observability_config, on a spec.observability.logShipping that says
\* whether it is enabled.
ObservabilityErrors(doc, instances) ==
    LET log == Section(doc, "observability")
    IN RetentionErrors(log) \cup LogSinkErrors(log, instances)

\* validate_data_sharing_declaration
DataSharingErrors(doc, instances) ==
    LET datasets == At(Section(doc, "dataSharing"), "datasets", <<>>)
    IN When(\E i, j \in DOMAIN datasets : i # j /\ datasets[i].id = datasets[j].id,
            "E157", "dataSharing")
       \cup When(\E i \in DOMAIN datasets :
                     datasets[i].module \notin IdsOf(instances) \cup {Absent},
                 "E158", "dataSharing")

(***************************************************************************)
(* Backups                                                                 *)
(***************************************************************************)

BackupClass(category) ==
    CASE category = "warehouse"     -> {"warehouse"}
      [] category = "orchestration" -> {"orchestration-metadata"}
      [] category = "bi"            -> {"bi-metadata"}
      [] category = "identity"      -> {"identity-metadata"}
      [] category = "secrets"       -> {"secrets-metadata"}
      [] OTHER                      -> {}

\* required_backup_workload_classes
RequiredClasses(instances) ==
    {"configuration"} \cup UNION {BackupClass(instances[i].def.category) : i \in DOMAIN instances}

\* _resolve_backup_target
TargetResolves(ref, instances) ==
    Resolves(ref, instances) /\ KindOf(ref, instances) = "backup-target"

TargetCapable(ref, instances) ==
    LET producer == Instance(instances, ref[1])
        spec     == Provided(producer.def, ref[2]).spec
    IN \A field \in {"encrypted", "supportsRestoreVerification"} :
           AdvertisesTrue(spec, field, producer.config)

\* What a production profile must say beyond what any profile must.
ProductionBackupErrors(doc, backup, policies, instances) ==
    LET secrets == SecretValues(doc)
        key     == At(backup, "encryption", Absent)
    IN (IF key = Absent THEN {"E134"}
        ELSE {code \in {"E134"} : key \in DOMAIN secrets /\ ~secrets[key].required})
       \cup {code \in {"E132"} : "target" \in DOMAIN backup
                /\ TargetResolves(backup.target, instances)
                /\ ~TargetCapable(backup.target, instances)}
       \cup {code \in {"E133"} : ~(RequiredClasses(instances) \subseteq {p.class : p \in Range(policies)})}
       \cup {code \in {"E135"} : \E p \in Range(policies) : ~p.restoreVerified}

\* validate_backup_config: the key is a secret alias, the target a reference.
BackupErrors(doc, instances) ==
    IF "backup" \notin DOMAIN doc.sections THEN When(Production(doc), "E133", "backup")
    ELSE LET backup   == doc.sections.backup
             policies == At(backup, "policies", <<>>)
         IN At1({code \in {"E130"} : \E i, j \in DOMAIN policies :
                                         i # j /\ policies[i].class = policies[j].class}
                \cup {code \in {"E131"} : "encryption" \in DOMAIN backup
                                          /\ backup.encryption \notin DOMAIN SecretValues(doc)}
                \cup {code \in {"E132"} : "target" \in DOMAIN backup
                                          /\ ~TargetResolves(backup.target, instances)}
                \cup (IF Production(doc)
                      THEN ProductionBackupErrors(doc, backup, policies, instances) ELSE {}),
                "backup")

\* validate_module_backup_config
ModuleBackupErrors(doc, inst) ==
    LET enabled == At(inst.config, "backup.enabled", Blank) = Flag(TRUE)
    IN When(~Production(doc) /\ (inst.def.category = "backup" \/ enabled), "E143", inst.id)
       \cup When(Production(doc) /\ enabled
                 /\ ~IsSecret(At(inst.config, "backup.encryptionKeyFrom", Blank)), "E141", inst.id)

(***************************************************************************)
(* Production rules: authentication, credentials, web servers              *)
(***************************************************************************)

AuthenticatedKinds == {"sql-database", "cache-service"}
Unauthenticated == {"", "none", "false", "optional", "disabled", "trust"}

\* _resolve_authentication_advertisement
AuthenticationOf(spec, config) ==
    LET adv == At(spec, "authentication", Literal(Blank))
    IN CASE adv.as = "literal" -> adv.value
         [] adv.as = "config" -> At(config, adv.path, Blank)
         [] OTHER -> IF At(config, adv.path, Blank) = Blank THEN Blank ELSE Text("required")

\* _advertisement_authenticated
Authenticated(value) ==
    \/ value = Flag(TRUE)
    \/ value.is = "text" /\ value.text \notin Unauthenticated
    \/ value.is \in {"secret", "input"}

\* _validate_provider_credential_refs: only a required secret will do; an alias
\* that is not declared is E050 already.
CredentialErrors(doc, inst) ==
    LET secrets == SecretValues(doc)
        poor(value) == CASE value.is = "secret" -> value.alias \in DOMAIN secrets
                                                   /\ ~secrets[value.alias].required
                         [] value.is = "flag" -> FALSE
                         [] OTHER -> value.is \in {"text", "input", "blank", "certificate",
                                                   "badCertificate"}
    IN When(\E p \in CredentialPaths \cap DOMAIN inst.config : poor(inst.config[p]), "E138", inst.id)

\* validate_authentication_config
AuthenticationErrors(doc, inst) ==
    LET scoped == {p \in Range(inst.def.provides) : p.kind \in AuthenticatedKinds}
        code(p) == IF p.kind = "sql-database" THEN "E139" ELSE "E137"
    IN IF ~Production(doc) \/ scoped = {} THEN {}
       ELSE {<<code(p), inst.id>> : p \in {q \in scoped :
                 ~Authenticated(AuthenticationOf(q.spec, inst.config))}}
            \cup CredentialErrors(doc, inst)

\* validate_web_serving_mode
WebServingErrors(doc, inst) ==
    When(Production(doc) /\ At(inst.config, "webServer.mode", Blank) = Text("development"),
         "E140", inst.id)

\* validate_image_source_config
ImageSourceErrors(inst) ==
    When(At(inst.config, "image.source", Blank) = Text("registry")
         /\ At(inst.config, "image.tag", Blank).is \notin {"text", "tag"}, "E103", inst.id)

(***************************************************************************)
(* Markers of the module templates                                         *)
(***************************************************************************)

\* A marker is [gate, at, form]: the gate is production, enabledFrom (which
\* stands for conditionallyEnabledFrom on a health check) or forEach, and `at`
\* is what carries it.  These are the forms the renderers implement.

\* _production_marker_diagnostics, _unsupported_entry_markers
ProductionForms(at) ==
    CASE at \in {"service", "volume"} -> {"null", "boolean", "mapping"}
      [] at = "mount"                 -> {"null", "boolean"}
      [] at = "entry"                 -> {}
      [] OTHER                        -> {"null", "boolean", "mapping", "expression", "other"}

\* _enabledfrom_marker_diagnostics
ConditionForms(at) ==
    IF at = "entry" THEN {} ELSE {"null", "expression"}

\* _kubernetes_marker_diagnostics
KubernetesForms(gate, at) ==
    CASE gate = "production" -> IF at \in {"k8sVolume", "configMap"}
                                THEN {"null", "boolean", "mapping"} ELSE {}
      [] gate = "forEach" /\ at # "manifest"
                             -> {"null", "boolean", "mapping", "expression", "other"}
      [] OTHER               -> {"null", "expression"}

Kubernetes == {"k8sVolume", "configMap", "workload", "manifest"}

Implemented(marker) ==
    marker.form \in (IF marker.at \in Kubernetes THEN KubernetesForms(marker.gate, marker.at)
                     ELSE IF marker.gate = "production" THEN ProductionForms(marker.at)
                     ELSE ConditionForms(marker.at))

\* validate_module_marker_shapes, and validate_plan_marker_shapes in a renderer
MarkerErrors(markers, id) ==
    {<<IF m.gate = "production" THEN "E144" ELSE "E145", id>> : m \in {n \in markers : ~Implemented(n)}}

(***************************************************************************)
(* validate_loaded_profile                                                 *)
(***************************************************************************)
InstanceErrors(doc, inst, instances) ==
    UNION {ConfigErrors(inst), ReferenceErrors(doc, inst), ContractErrors(inst, instances),
           ImageSourceErrors(inst), ModuleBackupErrors(doc, inst),
           MarkerErrors(inst.def.markers, inst.id), AuthenticationErrors(doc, inst),
           WebServingErrors(doc, inst)}

Validate(doc) ==
    IF ShapeErrors(doc) # {} THEN ShapeErrors(doc)
    ELSE IF LoadErrors(doc) # {} THEN LoadErrors(doc)
    ELSE LET instances == Instances(doc)
         IN (UNION {InstanceErrors(doc, instances[i], instances) : i \in DOMAIN instances})
            \cup ValidateDependencies(instances)
            \cup (UNION {OutputErrors(doc, instances), ObservabilityErrors(doc, instances),
                         DataSharingErrors(doc, instances), BackupErrors(doc, instances)})

\* resolve_profile, and validate_profile of `cds validate`: the errors of
\* resolving, or those of the resolved document.
ValidateResolved(resolved) ==
    IF resolved.ok THEN Validate(resolved.doc) ELSE At1(resolved.errors, "profile")

ValidateProfile(disk, file, overlay) == ValidateResolved(Resolve(disk, file, overlay))

=============================================================================
