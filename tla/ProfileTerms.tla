---------------------------- MODULE ProfileTerms ----------------------------
(***************************************************************************)
(* The vocabulary that the validator, the planner and the composer of      *)
(* profiles share: the instances of a document of ProfileResolution, the   *)
(* values of their configuration, references (cli/resolver.py), module     *)
(* definitions, and the dependency check (cli/graph.py).                   *)
(*                                                                         *)
(* A configuration maps dotted paths to the values at them.  A module      *)
(* definition is a record with                                             *)
(*   kindOk, schemaOk  whether it says kind: Module and meets its schema;  *)
(*   name, key         its name, and "<category>/<name>" or NoKey;         *)
(*   category                                                              *)
(*   schema            path -> [allowed, required, default, byEnvironment],*)
(*                     the last two being partial (see DefaultOf);         *)
(*   provides          <<[name, kind, spec]>>, spec: field -> advertised;  *)
(*   consumes          <<[name, kind, from, required, requiredIf, tls,     *)
(*                     engineFrom]>>;                                      *)
(*   markers           the gates its templates carry (ProfileValidation);  *)
(*   targets           what its implementation can be rendered for;        *)
(*   services, volumes its Compose template, by name (StackRendering);     *)
(*   workloads         its Kubernetes template, by name (HelmRendering).   *)
(***************************************************************************)
EXTENDS ProfileResolution

CONSTANTS ConfigPaths,   \* the field names of an instance that are configuration
          Catalog,       \* module source -> definition, Absent or Unreadable
          Parts,         \* an id or a service name -> its parts between the dashes, if several
          NoKey, NoGate, NoPath

ASSUME NamesHaveParts == \A name \in DOMAIN Parts : Parts[name] \in Seq(Range(Parts[name])) \ {<<>>}

Nothing == [x \in {} |-> x]

\* What a mapping holds under a key, or else `other`.
At(mapping, key, other) == IF key \in DOMAIN mapping THEN mapping[key] ELSE other

(***************************************************************************)
(* Values                                                                  *)
(***************************************************************************)

Text(t)         == [is |-> "text", text |-> t]
Flag(b)         == [is |-> "flag", flag |-> b]
Secret(a)       == [is |-> "secret", alias |-> a]            \* secrets.<alias>
Certificate(a)  == [is |-> "certificate", of |-> a]          \* certificates.<alias>.cert
BadCertificate  == [is |-> "badCertificate"]                 \* any other certificates.*
Input(v)        == [is |-> "input", var |-> v]               \* holds ${CDS_*}
Binding(r)      == [is |-> "binding", ref |-> r]             \* an object with contractRef
Bindings(rs)    == [is |-> "bindings", refs |-> rs]          \* a list of route entries
Tag(v, t)       == [is |-> "tag", variant |-> v, tag |-> t]  \* an image tag, with its variant
Placeholder(e)  == [is |-> "placeholder", env |-> e]         \* ${CDS_*} left for the runtime
Enrolled(names) == [is |-> "enrolled", names |-> names]      \* a list of named services
Host(name)      == [is |-> "host", host |-> name]            \* a name on the network
Port(n)         == [is |-> "port", port |-> n]
Address(a)      == [is |-> "address", address |-> <<a>>]     \* an IP address or block
Blank           == [is |-> "blank"]                          \* {} or null or ""

\* <module id, contract name>; a reference without both parts is BadRef, and a
\* list entry that is not an object with contractRef is NoRef.
BadRef == <<>>
NoRef  == <<"none">>

IsRef(r) == Len(r) = 2

\* parse_contract_ref, resolve_path, is_secret_ref, is_certificate_ref and
\* parse_certificate_ref on these values: what a path holds, what it refers to.
Holds(config, path)  == path \in DOMAIN config
IsSecret(value)      == value.is = "secret"
IsCertificate(value) == value.is \in {"certificate", "badCertificate"}

\* A gate is config.<path> (a switch) or config.<path>==<value>.
Switch(path)        == [path |-> path]
Equals(path, value) == [path |-> path, value |-> value]

\* evaluate_required_if: a path that is not set is false.
RequiredBy(gate, config) ==
    /\ gate # NoGate
    /\ Holds(config, gate.path)
    /\ config[gate.path] = gate.value

\* A contract's advertisement: a literal, ${config.<path>},
\* ${ifNonempty:config.<path>,...}, ${service.dns} (the name of the module's
\* serving service), ${service.host} (the module's id) or a volume of the module.
Literal(value)     == [as |-> "literal", value |-> value]
FromConfig(path)   == [as |-> "config", path |-> path]
IfNonempty(path)   == [as |-> "ifNonempty", path |-> path]
ServiceDns         == [as |-> "dns"]
ServiceHost        == [as |-> "id"]
ModuleVolume(name) == [as |-> "volume", name |-> name]

\* A name without dashes is one part.
PartsOf(name) == At(Parts, name, <<name>>)

\* _compose_service_name: prefixed with the module's id, unless it is already.
ComposeServiceName(id, service) ==
    IF IsPrefix(PartsOf(id), PartsOf(service)) THEN PartsOf(service)
    ELSE PartsOf(id) \o PartsOf(service)

\* module_dns_host
DnsHost(id, def) ==
    LET services == DOMAIN def.services
    IN IF Cardinality(services) = 1 THEN ComposeServiceName(id, CHOOSE s \in services : TRUE)
       ELSE IF def.name \in services THEN ComposeServiceName(id, def.name)
       ELSE PartsOf(id)

(***************************************************************************)
(* Instances                                                               *)
(***************************************************************************)

SourceOf(m)    == At(m.fields, "source", Absent)
IsEnabled(m)   == At(m.fields, "enabled", TRUE)
DependsOn(m)   == At(m.fields, "dependsOn", <<>>)
ConfigOf(m)    == [p \in DOMAIN m.fields \cap ConfigPaths |-> m.fields[p]]
DefinitionOf(m) == At(Catalog, SourceOf(m), Absent)

Section(doc, name) == At(doc.sections, name, Nothing)
Environment(doc)   == At(Section(doc, "metadata"), "environment", Absent)
Production(doc)    == Environment(doc) = "production"
SecretValues(doc)  == Section(doc, "secrets")

\* The instance of a sequence with this id, and what a definition provides.
IndexOf(modules, id)  == CHOOSE i \in DOMAIN modules : modules[i].id = id
Instance(modules, id) == modules[IndexOf(modules, id)]
ProvideNames(def)     == {def.provides[i].name : i \in DOMAIN def.provides}

\* Of the entries with this name: the first, where the code looks for it, and
\* the last, where it collects them in a dictionary.
Earliest(entries, name) ==
    entries[CHOOSE i \in DOMAIN entries : /\ entries[i].name = name
                                          /\ \A j \in DOMAIN entries : entries[j].name = name => i <= j]
Latest(entries, name) ==
    entries[CHOOSE i \in DOMAIN entries : /\ entries[i].name = name
                                          /\ \A j \in DOMAIN entries : entries[j].name = name => j <= i]
Provided(def, name) == Earliest(def.provides, name)

(***************************************************************************)
(* _schema_default: defaultByEnvironment before default, and in it the     *)
(* environment before its own "default".                                   *)
(***************************************************************************)
HasDefault(entry, env) ==
    \/ {env, "default"} \cap DOMAIN entry.byEnvironment # {}
    \/ "default" \in DOMAIN entry

DefaultOf(entry, env) ==
    IF env \in DOMAIN entry.byEnvironment THEN entry.byEnvironment[env]
    ELSE IF "default" \in DOMAIN entry.byEnvironment THEN entry.byEnvironment["default"]
    ELSE entry.default

(***************************************************************************)
(* validate_dependency_graph: unknown and self dependencies, and the       *)
(* depth-first search that finds the cycles.                               *)
(***************************************************************************)
DependencyErrors(ids, dependsOn) ==
    {<<"E040", m>> : m \in {n \in ids : \E d \in Range(dependsOn[n]) : d \notin ids \/ d = n}}

\* Mutant: only a module that depends on itself closes a cycle.
CyclesMissed(order, dependsOn) ==
    {<<"E040", n>> : n \in {m \in Range(order) : m \in Range(dependsOn[m])}}

\* What the calls of dfs leave behind: the nodes that were visited, and those
\* that were met while they were being visited, each of which closes a cycle.
Findings(ids) == [visited : SUBSET ids, cycles : SUBSET ids]

\* dfs of one node after the other.
VisitAll(dfs, nodes, found) ==
    LET after[i \in 0 .. Len(nodes)] ==
            IF i = 0 THEN found ELSE dfs[nodes[i]][after[i - 1]]
    IN after[Len(nodes)]

\* dfs of one node, given the nodes that the calls in progress are visiting: it
\* adds its own for the calls that it makes.
Visit(ids, dependsOn, dfs, visiting, n, found) ==
    IF n \in visiting THEN [found EXCEPT !.cycles = @ \cup {n}]
    ELSE IF n \in found.visited THEN found
    ELSE [VisitAll(dfs[visiting \cup {n}], Only(dependsOn[n], ids), found)
             EXCEPT !.visited = @ \cup {n}]

Search(ids, dependsOn) ==
    LET dfs[visiting \in SUBSET ids] ==
          [n \in ids |-> [found \in Findings(ids) |->
                             Visit(ids, dependsOn, dfs, visiting, n, found)]]
    IN dfs

\* dfs from every id, in their order.
CycleErrors(order, dependsOn) ==
    LET all == VisitAll(Search(Range(order), dependsOn)[{}], order,
                        [visited |-> {}, cycles |-> {}])
    IN {<<"E040", n>> : n \in all.cycles}

ValidateDependencyGraph(order, dependsOn) ==
    DependencyErrors(Range(order), dependsOn) \cup CycleErrors(order, dependsOn)

=============================================================================
