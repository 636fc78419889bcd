---------------------------- MODULE ProfileComposer ----------------------------
(***************************************************************************)
(* `cds compose-profile` (cli/composer.py): one more module instance in a  *)
(* profile, its consume entries bound to the contracts that the enabled    *)
(* modules of the profile provide.  Neither the conditions of the consume  *)
(* entries (requiredIf) nor what a binding must offer beyond its kind are  *)
(* looked at here.                                                         *)
(*                                                                         *)
(* A request is [source, id, enabled, dependsOn, config, bindings,         *)
(* secretEnvs]: the module, the id to give it or NoId, --disabled,         *)
(* --depends-on, --set, --bind (consume name -> reference) and --secret    *)
(* (alias -> environment variable).                                        *)
(***************************************************************************)
EXTENDS ProfilePlan

\* What resolve_module_file and load_yaml_file say of a module source.
SourceErrors(source) ==
    LET def == At(Catalog, source, Absent)
    IN CASE source = Outside  -> {"E022"}
         [] def = Absent      -> {"E020"}
         [] def = Unreadable  -> {"E001"}
         [] OTHER             -> {}

\* The enabled instances whose source is present.
Sourced(doc) == Only(Enabled(doc), {m \in Range(Enabled(doc)) : SourceOf(m) # Absent})

\* _collect_provided_contracts: reference -> kind.
Providers(doc) ==
    LET refs(m) == {<<m.id, n>> : n \in ProvideNames(DefinitionOf(m))}
        known   == {m \in Range(Sourced(doc)) : m.id # NoId}
        kind(r) == Latest(DefinitionOf(Instance(Sourced(doc), r[1])).provides, r[2]).kind
    IN [r \in UNION {refs(m) : m \in known} |-> kind(r)]

\* The choice for one consume entry: a reference, nothing, or an error.
Choose(consume, request, providers) ==
    LET candidates == {r \in DOMAIN providers : providers[r] = consume.kind}
        asked      == At(request.bindings, consume.name, Absent)
    IN IF asked # Absent
       THEN IF asked \in candidates THEN [ref |-> asked, errors |-> {}]
            ELSE [ref |-> NoRef, errors |-> {"E124"}]
       ELSE IF Cardinality(candidates) = 1
       THEN [ref |-> CHOOSE r \in candidates : TRUE, errors |-> {}]
       ELSE [ref |-> NoRef,
             errors |-> {code \in {"E125"} : candidates # {} \/ consume.required}]

\* What the checks before the bindings say, one after the other.
RequestErrors(doc, request, id) ==
    LET source == SourceErrors(request.source)
    IN IF source # {} THEN source
       ELSE IF ~Catalog[request.source].kindOk THEN {"E121"}
       ELSE LET others == UNION {SourceErrors(SourceOf(m)) : m \in Range(Sourced(doc))}
            IN IF others # {} THEN others
               ELSE IF id = NoId THEN {"E122"}
               ELSE {code \in {"E123"} : id \in IdsOf(doc.modules)}

NotComposed(errors) == [ok |-> FALSE, doc |-> Absent, errors |-> errors]

\* _iter_secret_aliases
SecretAliases(config) == {config[p].alias : p \in {q \in DOMAIN config : IsSecret(config[q])}}

\* Mutant: a secrets block that is there already is left as it is.
WithModuleOnly(doc, id, request, config, depends, secrets) ==
    [doc EXCEPT !.modules = Append(@,
        [id |-> id, fields |-> config @@ [source |-> request.source, enabled |-> request.enabled]])]

\* The mappings with the new instance and the secrets its configuration needs.
WithModule(doc, id, request, config, depends, secrets) ==
    LET fields == [f \in {"source", "enabled"} |->
                     IF f = "source" THEN request.source ELSE request.enabled]
        links  == [f \in {g \in {"dependsOn"} : depends # {}} |-> SetToSeq(depends)]
        module == [id |-> id, fields |-> Override(Override(config, fields), links)]
        block  == [s \in {t \in {"secrets"} : secrets # Nothing} |-> secrets]
    IN [doc EXCEPT !.modules = Append(@, module), !.sections = Override(@, block)]

\* compose_profile
ComposeProfile(doc, request) ==
    LET id == IF request.id # NoId THEN request.id
              ELSE At(At(Catalog, request.source, Nothing), "name", NoId)
        before == RequestErrors(doc, request, id)
    IN IF before # {} THEN NotComposed(before)
    ELSE
    LET providers == Providers(doc)
        consumes  == Range(Catalog[request.source].consumes)
        choice    == [c \in consumes |-> Choose(c, request, providers)]
        chosen    == {c \in consumes : choice[c].ref # NoRef}
        depends   == Range(request.dependsOn) \cup {choice[c].ref[1] : c \in chosen}
        bound     == [p \in {c.from : c \in chosen} |->
                        Binding(choice[CHOOSE c \in chosen : c.from = p].ref)]
        config    == Override(request.config, bound)
        new       == SecretAliases(config) \ DOMAIN SecretValues(doc)
        secrets   == Override(SecretValues(doc),
                              [a \in new |-> [env |-> request.secretEnvs[a], required |-> TRUE]])
    IN IF \E c \in consumes : choice[c].errors # {}
       THEN NotComposed(UNION {choice[c].errors : c \in consumes})
       ELSE IF ~(new \subseteq DOMAIN request.secretEnvs) THEN NotComposed({"E126"})
       ELSE [ok |-> TRUE, errors |-> {},
             doc |-> WithModule(doc, id, request, config, depends, secrets)]

=============================================================================
