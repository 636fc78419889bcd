---------------------------- MODULE ProfileProject ----------------------------
(***************************************************************************)
(* A profile over time: its files are edited by hand, one change at a      *)
(* time, and extended by `cds compose-profile` and `cds generate-profile`. *)
(* Whatever state the files are in, the commands take them through the     *)
(* pipeline of the modules this one extends: resolve, validate, plan, and  *)
(* render a Compose file or a Helm chart.  The properties are about what   *)
(* one stage promises to the next.                                         *)
(***************************************************************************)
EXTENDS HelmRendering

CONSTANTS Profile,        \* the file the commands are given
          Overlay,        \* the overlay of the environment that can be chosen
          Copy,           \* the file that --output and generate-profile write
          InitialDisk,
          FieldEdits,     \* <<file, module id, field, value>>, value Absent to remove it
          SectionEdits,   \* <<file, section, key, value>>
          ExtendsEdits,   \* <<file, extends>>
          ContentEdits,   \* <<file, content>>
          Requests,       \* what compose-profile is asked for
          OptionSets,     \* the options of plan and render
          MaxEdits        \* bound on the changes made to the files

VARIABLES disk,   \* file -> document, Absent or Unreadable
          edits   \* how many changes have been made

IsList(seq) == seq \in Seq(Range(seq))

\* What a file can hold: the mapping of a document, with references or not, and
\* with modules or not, whose dependencies are lists.
IsModules(modules) ==
    \/ modules = BadModules
    \/ /\ modules \in Seq(Range(modules))
       /\ \A m \in Range(modules) :
             DOMAIN m = {"id", "fields"} /\ IsList(DependsOn(m))

IsMapping(doc) ==
    /\ DOMAIN doc = {"extends", "sections", "modules"}
    /\ doc.extends \in {NoExtends, BadExtends} \cup Seq(Files \cup {Outside})
    /\ IsModules(doc.modules)

IsContent(content) == IsDocument(content) => IsMapping(content)

ASSUME Contents ==
    /\ {Profile, Overlay, Copy} \subseteq Files /\ Overlay # Profile
    /\ DOMAIN InitialDisk = Files
    /\ \A f \in Files : IsContent(InitialDisk[f])
    /\ \A e \in ContentEdits : IsContent(e[2])
    /\ \A e \in ExtendsEdits : e[2] \in {NoExtends, BadExtends} \cup Seq(Files \cup {Outside})
    /\ \A e \in FieldEdits : e[3] = "dependsOn" /\ e[4] # Absent => IsList(e[4])
    /\ \A request \in Requests : IsList(request.dependsOn) /\ DOMAIN request.config \subseteq ConfigPaths
    /\ \A def \in Range(Catalog) \ {Absent, Unreadable} :
           IsList(def.consumes) /\ \A c \in Range(def.consumes) : c.from \in ConfigPaths
    /\ {"source", "enabled", "dependsOn"} \cap ConfigPaths = {}
    /\ MaxEdits \in Nat

\* What --hardened and --image-source write into a configuration.
ImagePaths == {"image.variant", "image.source", "image.tag"}

\* What the schema of a path can put there.
Presets(entry) == Range(entry.byEnvironment) \cup {entry[k] : k \in DOMAIN entry \cap {"default"}}

NamesDiffer(entries) ==
    \A i, j \in DOMAIN entries : entries[i].name = entries[j].name => i = j

\* A binding is the profile's to make: its path is in the schema and is its own,
\* and what is preset there binds nothing.  Its conditions and its engine are
\* not about the image, and the engine is the same in every environment.
IsBindable(consume, def) ==
    /\ consume.from \in DOMAIN def.schema \ ImagePaths
    /\ Presets(def.schema[consume.from]) \subseteq {Blank, Bindings(<<>>)}
    /\ \A v \in def.schema[consume.from].allowed : v.is = "bindings" => IsList(v.refs)
    /\ \A c \in Range(def.consumes) : c.from = consume.from => c = consume
    /\ consume.requiredIf # NoGate => consume.requiredIf.path \notin ImagePaths
    /\ consume.engineFrom # NoPath =>
          /\ consume.engineFrom \notin ImagePaths
          /\ consume.engineFrom \in DOMAIN def.schema => def.schema[consume.engineFrom].byEnvironment = Nothing

\* What a contract says of its host, its engine and its encryption.
IsAdvertised(spec) ==
    /\ "host" \in DOMAIN spec => spec["host"].as \in {"dns", "id"}
    /\ \A f \in {"engine", "tls"} \cap DOMAIN spec :
          /\ spec[f].as = "literal" => ~IsSecret(spec[f].value)
          /\ spec[f].as = "config" => spec[f].path \notin ImagePaths

\* An image tag that is preset is the base variant's, and stands beside a
\* source, which is not the registry unless somebody says so.
HasBaseTag(schema) ==
    "image.tag" \in DOMAIN schema /\ Presets(schema["image.tag"]) # {} =>
        /\ schema["image.tag"].byEnvironment = Nothing
        /\ schema["image.tag"].default = Tag("base", schema["image.tag"].default.tag)
        /\ "image.source" \in DOMAIN schema
        /\ Text("registry") \notin Presets(schema["image.source"])

\* A workload runs something; its Service is behind no gate and has no name of
\* its own; and it waits for a binding on the port of the binding, for a Service
\* of its module, or for a place outside.
IsDeployable(workload, def) ==
    /\ workload.containers # {}
    /\ HasService(workload) => workload.gate = NoGate /\ workload.serviceName = NoPath
    /\ workload.service # NoService => \A p \in workload.service.ports : p.target # AllPorts
    /\ \A g \in workload.waitFor :
          \/ g.host.on = "host"
          \/ g.host.on = "binding" /\ g.port = Blank
          \/ /\ g.host.on = "workload" /\ g.host.name \in DOMAIN def.workloads
             /\ HasService(def.workloads[g.host.name])

\* No order of these names satisfies what each needs.
Circular(names, needs(_)) ==
    \E S \in (SUBSET names) \ {{}} : \A n \in S : needs(n) \cap S # {}

\* The services of a template wait for others that are there whenever they are,
\* for the health only of those that have a check of it, and not in a circle;
\* they mount volumes of the template that are there whenever they are, or what
\* bindings advertise: volumes that every environment has.
IsComposable(def) ==
    /\ \A production \in BOOLEAN :
          LET there    == {s \in DOMAIN def.services : ~Dropped(def.services[s], production)}
              volumes  == {v \in DOMAIN def.volumes : ~Dropped(def.volumes[v], production)}
              of(s)    == Merged(def.services[s], production)
              needs(s) == DOMAIN of(s).needs
          IN /\ \A s \in there : \A d \in needs(s) :
                   /\ d \in there /\ def.services[d].gate \in {NoGate, def.services[s].gate}
                   /\ of(s).needs[d] = "service_healthy" => of(d).healthy
             /\ ~Circular(there, needs)
             /\ \A s \in there : \A m \in of(s).mounts :
                   ~Dropped(m, production) /\ m.volume # NoPath => m.volume \in volumes
    /\ \A p \in Range(def.provides) : "volume" \in DOMAIN p.spec =>
          /\ p.spec["volume"].as = "volume" /\ p.spec["volume"].name \in DOMAIN def.volumes
          /\ \A production \in BOOLEAN : ~Dropped(def.volumes[p.spec["volume"].name], production)

\* What the module definitions of the repository keep to, beyond their schema.
IsSound(def) ==
    /\ NamesDiffer(def.consumes) /\ NamesDiffer(def.provides) /\ IsList(def.provides)
    /\ \A p \in DOMAIN def.schema : \A v \in Presets(def.schema[p]) : ~IsSecret(v) /\ ~IsCertificate(v)
    /\ \A c \in Range(def.consumes) : IsBindable(c, def)
    /\ \A p \in Range(def.provides) : IsAdvertised(p.spec)
    /\ HasBaseTag(def.schema)
    /\ \A w \in DOMAIN def.workloads : IsDeployable(def.workloads[w], def)
    /\ IsComposable(def)

ASSUME Definitions ==
    /\ \A def \in Range(Catalog) \ {Absent, Unreadable} : def.kindOk /\ def.schemaOk => IsSound(def)
    /\ Absent \notin {"registry"} \cup DOMAIN Catalog

vars == <<disk, edits>>

Init == disk = InitialDisk /\ edits = 0

(***************************************************************************)
(* Changes to the files                                                    *)
(***************************************************************************)

Save(file, content) ==
    /\ edits < MaxEdits
    /\ disk[file] # content
    /\ disk' = [disk EXCEPT ![file] = content]
    /\ edits' = edits + 1

WithField(mapping, key, value) ==
    IF value = Absent THEN [k \in DOMAIN mapping \ {key} |-> mapping[k]]
    ELSE Put(mapping, key, value)

WithModuleField(modules, id, key, value) ==
    IF id \in IdsOf(modules)
    THEN [modules EXCEPT ![IndexOf(modules, id)].fields = WithField(@, key, value)]
    ELSE Append(modules, [id |-> id, fields |-> WithField(Nothing, key, value)])

EditModule ==
    \E e \in FieldEdits :
        /\ IsDocument(disk[e[1]])
        /\ disk[e[1]].modules # BadModules
        /\ Save(e[1], [disk[e[1]] EXCEPT !.modules = WithModuleField(@, e[2], e[3], e[4])])

EditSection ==
    \E e \in SectionEdits :
        /\ IsDocument(disk[e[1]])
        /\ LET section == At(disk[e[1]].sections, e[2], Nothing)
           IN Save(e[1], [disk[e[1]] EXCEPT
                            !.sections = Put(@, e[2], WithField(section, e[3], e[4]))])

EditExtends ==
    \E e \in ExtendsEdits :
        IsDocument(disk[e[1]]) /\ Save(e[1], [disk[e[1]] EXCEPT !.extends = e[2]])

ReplaceFile == \E e \in ContentEdits : Save(e[1], e[2])

\* cds compose-profile: --write, which a profile that declares extends is
\* refused, or --output.  To modules that are not a list nothing can be added.
SaveComposed(target, composed) == composed.ok /\ Save(target, composed.doc)

ComposeModule ==
    \E request \in Requests, target \in {Profile, Copy}, resolved \in {Resolve(disk, Profile, Absent)} :
        /\ resolved.ok /\ resolved.doc.modules # BadModules
        /\ target = Profile => disk[Profile].extends = NoExtends
        /\ SaveComposed(target, ComposeProfile(resolved.doc, request))

\* cds generate-profile without --force, for a document made elsewhere: an
\* existing file is not overwritten.
GenerateProfile ==
    \E e \in ContentEdits :
        /\ IsDocument(e[2])
        /\ disk[Copy] = Absent
        /\ Save(Copy, e[2])

Next == EditModule \/ EditSection \/ EditExtends \/ ReplaceFile \/ ComposeModule \/ GenerateProfile

Spec == Init /\ [][Next]_vars

(***************************************************************************)
(* What the stages promise each other                                      *)
(***************************************************************************)

TypeOK ==
    /\ edits \in 0 .. MaxEdits
    /\ DOMAIN disk = Files
    /\ \A f \in Files : IsContent(disk[f])

Environs == {Absent, Overlay}

\* The files that `file` extends.
Parents(file) ==
    IF IsDocument(disk[file]) /\ disk[file].extends \notin {NoExtends, BadExtends}
    THEN Range(disk[file].extends) \ {Outside} ELSE {}

\* It, the files that it extends, and so on.
Ancestry(file) ==
    {g \in Files : \A S \in SUBSET Files :
        file \in S /\ (\A f \in S : Parents(f) \subseteq S) => g \in S}

\* The files a profile is made of, every parent before its child and, of two
\* parents, the first before the second.  A file extended twice is there twice.
Lineage(file) ==
    LET line[f \in Ancestry(file)] ==
            IF disk[f].extends = NoExtends THEN <<f>>
            ELSE FlattenSeq([i \in DOMAIN disk[f].extends |-> line[disk[f].extends[i]]]) \o <<f>>
    IN line[file]

\* Whether a profile with this overlay can be made one document.
Composable(file, overlay) ==
    LET files == Ancestry(file)
        all   == files \cup ({overlay} \ {Absent})
    IN /\ \A f \in files : \A g \in Parents(f) : f \notin Ancestry(g)
       /\ \A f \in all : IsDocument(disk[f])
       /\ \A f \in files : disk[f].extends # NoExtends =>
             disk[f].extends \notin {BadExtends, <<>>} /\ Outside \notin Range(disk[f].extends)
       /\ all # {file} => \A f \in all : WellShaped(disk[f].modules)

\* What a document says of a module.
Fields(doc, m) == IF m \in IdsOf(doc.modules) THEN FieldsOf(doc.modules, m) ELSE Nothing

\* A mapping holds what these layers hold, for each key what the last layer with
\* that key says.
LaidOver(mapping, layers) ==
    /\ DOMAIN mapping = UNION {DOMAIN layers[i] : i \in DOMAIN layers}
    /\ \A i \in DOMAIN layers : \A k \in DOMAIN layers[i] :
          (\A j \in DOMAIN layers : j > i => k \notin DOMAIN layers[j]) => mapping[k] = layers[i][k]

\* A module appears in these documents before another does.
AppearsBefore(docs, m, n) ==
    \E i \in DOMAIN docs : \E p \in DOMAIN docs[i].modules :
        /\ docs[i].modules[p].id = m
        /\ \A q \in DOMAIN docs[i].modules : q < p => docs[i].modules[q].id # n
        /\ \A j \in DOMAIN docs : j < i => n \notin IdsOf(docs[j].modules)

\* What a document says of sections and modules is what these documents do.
HoldsAll(doc, docs) ==
    /\ DOMAIN doc.sections = UNION {DOMAIN docs[i].sections : i \in DOMAIN docs}
    /\ IdsOf(doc.modules) = UNION {IdsOf(docs[i].modules) : i \in DOMAIN docs}

\* Its modules come as they first appear in these documents.
InOrder(doc, docs) ==
    \A a, b \in DOMAIN doc.modules : a < b => AppearsBefore(docs, doc.modules[a].id, doc.modules[b].id)

\* A document is the overlay of these, each over those before it.
OverlayOf(doc, docs) ==
    /\ HoldsAll(doc, docs) /\ InOrder(doc, docs)
    /\ \A s \in DOMAIN doc.sections : LaidOver(Section(doc, s), [i \in DOMAIN docs |-> Section(docs[i], s)])
    /\ \A m \in IdsOf(doc.modules) : LaidOver(Fields(doc, m), [i \in DOMAIN docs |-> Fields(docs[i], m)])

\* What these files hold.
DocsOf(line) == [i \in DOMAIN line |-> disk[line[i]]]

\* A profile resolves exactly if none of its files is missing, malformed or its
\* own ancestor; and what it resolves to is its files laid over each other in
\* order, the overlay of the environment last.  (resolve_extends and
\* resolve_profile with their recursion over `extends`.)
ResolvedAsWritten ==
    \A overlay \in Environs : \A resolved \in {Resolve(disk, Profile, overlay)} :
        /\ resolved.ok <=> Composable(Profile, overlay)
        /\ resolved.ok /\ WellShaped(resolved.doc.modules) =>
              OverlayOf(resolved.doc,
                        DocsOf(Lineage(Profile) \o (IF overlay = Absent THEN <<>> ELSE <<overlay>>)))

Document(overlay) == Resolve(disk, Profile, overlay).doc
Valid(overlay)    == ValidateProfile(disk, Profile, overlay) = {}

\* The plans of the profile: with any options, and of a valid profile without errors.
PlanOf(overlay, options) == BuildPlan(disk, Profile, overlay, options)
ErrorFree(overlay, options) ==
    {plan \in {PlanOf(overlay, options)} : Valid(overlay) /\ plan.errors = {}}

\* The modules can be started one after the other.
Startable(instances) ==
    LET ids   == IdsOf(instances)
        on(m) == Range(Instance(instances, m).dependsOn)
    IN /\ \A m \in ids : on(m) \subseteq ids
       /\ \A S \in (SUBSET ids) \ {{}} : \E m \in S : on(m) \cap S = {}

\* The plan check reports a cycle exactly if the enabled modules cannot be
\* started one after the other, and names an unknown module or the module
\* itself among the dependencies (validate_dependency_graph).
DependencyVerdict ==
    \A overlay \in Environs : \A resolved \in {Resolve(disk, Profile, overlay)} :
        resolved.ok /\ ShapeErrors(resolved.doc) = {} /\ LoadErrors(resolved.doc) = {} =>
            \A instances \in {Instances(resolved.doc)} :
                Startable(instances) <=> ValidateDependencies(instances) = {}

\* Whether each condition of a consume entry is about something the profile says.
ConditionsAreSet(doc) ==
    \A m \in Range(Enabled(doc)) : \A c \in Range(DefinitionOf(m).consumes) :
        c.requiredIf # NoGate => Holds(ConfigOf(m), c.requiredIf.path)

\* The environment that a profile needs is there, or the plan is for a report.
Supplied(doc, options) ==
    options.allowMissing \/ {SecretValues(doc)[a].env : a \in DOMAIN SecretValues(doc)} \subseteq options.env

\* The three checks that only the planner makes.
PlanOnly == {"E146", "E147", "E159"}

\* A profile that validates is planned without errors, but for the checks that
\* only the planner makes, provided that every condition on a consume entry is
\* about something that the profile sets.
ValidIsPlannable ==
    \A overlay \in Environs : Valid(overlay) /\ ConditionsAreSet(Document(overlay)) =>
        \A options \in OptionSets : Supplied(Document(overlay), options) =>
            {e[1] : e \in PlanOf(overlay, options).errors} \subseteq PlanOnly

\* The same without the provision: a binding that is missing fails validation.
MissingBindingsFailValidation ==
    \A overlay \in Environs : Valid(overlay) =>
        \A options \in OptionSets :
            "E041" \notin {e[1] : e \in PlanOf(overlay, options).errors}

\* In a plan without errors of a valid profile, every binding is to an enabled
\* module, of the kind that is asked for, and every alias of a secret has its
\* variable.
PlannedBindingsHold ==
    \A overlay \in Environs, options \in OptionSets : \A plan \in ErrorFree(overlay, options) :
        \A m \in Range(plan.modules) :
            /\ \A c \in Range(m.def.consumes) : c.name \in DOMAIN m.consumes =>
                  \A b \in Range(m.consumes[c.name].bound) :
                      /\ b.ref[1] \in IdsOf(plan.modules)
                      /\ b.contract.kind = c.kind
                      /\ b.contract = Instance(plan.modules, b.ref[1]).provides[b.ref[2]]
                      /\ "host" \in DOMAIN b.contract.spec => b.contract.spec["host"].is = "host"
                      /\ c.engineFrom # NoPath => b.contract.spec["engine"] = m.config[c.engineFrom]
                      /\ c.tls => True(b.contract.spec["tls"])
            /\ \A p \in DOMAIN m.config : IsSecret(m.config[p]) => m.config[p].alias \in DOMAIN plan.secrets

\* The variant that is planned; a module without variants has the base one.
VariantOf(config) ==
    LET variant == At(config, "image.variant", Blank)
    IN IF variant = Blank THEN "base" ELSE variant.text

\* An image that is to be pulled from the registry, because --image-source or
\* the profile says so, carries the tag of the variant that is planned, whether
\* --hardened, the environment or the profile chose it, unless the profile sets
\* the tag itself: where the profile says registry, it has to (E103).
TagsFitVariants ==
    \A overlay \in Environs, options \in OptionSets : \A plan \in ErrorFree(overlay, options) :
        \A m \in Range(plan.modules) :
            LET raw == ConfigOf(Instance(Document(overlay).modules, m.id))
            IN /\ At(m.config, "image.source", Blank) = Text("registry")
               /\ "image.tag" \in DOMAIN m.config
               /\ ~Holds(raw, "image.tag")
               => m.config["image.tag"].variant = VariantOf(m.config)

\* Whether each consume entry of a module that was added is bound as it asks;
\* what a condition asks for, and an engine that nothing names, are left to the
\* validator.
IsBound(added, instances) ==
    \A c \in Range(added.def.consumes) :
        c.requiredIf = NoGate /\ (c.engineFrom = NoPath \/ ExpectedEngine(added, c.engineFrom).is = "text") =>
            "E041" \notin ConsumeErrors(added, c, instances)

\* A module that compose-profile adds to a valid profile, without --depends-on
\* and without a binding by --set, leaves the profile with sound dependencies,
\* bindings to what is there, and its secrets declared.
ComposedStaysSound ==
    Valid(Absent) => \A request \in {r \in Requests : r.dependsOn = <<>>} :
        \A composed \in {ComposeProfile(Document(Absent), request)} :
            composed.ok /\ (\A c \in Range(Catalog[request.source].consumes) :
                              At(request.config, c.from, Blank) = Blank) =>
                /\ {e[1] : e \in Validate(composed.doc)} \cap {"E010", "E011", "E040", "E042", "E050"} = {}
                /\ request.enabled /\ LoadErrors(composed.doc) = {} =>
                      IsBound(Loaded(Last(composed.doc.modules)), Instances(composed.doc))

\* Two modules whose services can get the same name: the id of one begins with
\* the parts of the other's.
Clashing(modules) ==
    \E m, n \in Range(modules) : m.id # n.id /\ IsPrefix(PartsOf(m.id), PartsOf(n.id))

\* Names that come to the same in a Compose file: of services of two modules or
\* of one, and of a volume of one template with the full name of another's.
Colliding(modules) ==
    \/ Clashing(modules)
    \/ \E m \in Range(modules) : \E s, d \in DOMAIN m.def.services :
          s # d /\ ComposeServiceName(m.id, s) = ComposeServiceName(m.id, d)
    \/ \E m, n \in Range(modules) : \E v \in DOMAIN m.def.volumes : \E w \in DOMAIN n.def.volumes :
          PartsOf(v) = VolumeName(n.id, w)

\* The volumes that the gates of the modules take out of the file, and the
\* services whose health check they take out.
GatedVolumes(modules) ==
    UNION {{VolumeName(m.id, v) : v \in {w \in DOMAIN m.def.volumes :
                                           Disabled(m.def.volumes[w].gate, m.config)}} : m \in Range(modules)}

Unwatched(modules, production) ==
    UNION {{ComposeServiceName(m.id, s) :
              s \in {d \in DOMAIN m.def.services :
                       Disabled(Merged(m.def.services[d], production).healthGate, m.config)}} : m \in Range(modules)}

StackIsClosed(plan, stack) ==
    LET names == DOMAIN stack.services
        needs(n) == DOMAIN stack.services[n].needs
        services(m) == ServicesOf(m, InProduction(plan))
    IN /\ \A n \in names : needs(n) \subseteq names
       /\ \A r \in stack.routes : r[2] \in names /\ r[1] \in IdsOf(plan.modules)
       /\ \A m \in Range(plan.modules) : \A b \in AllBindings(m) :
             services(Instance(plan.modules, b.ref[1])) # {} => HostCandidates(b.ref[1], b.contract) \subseteq names
       /\ ~Colliding(plan.modules) =>
             /\ \A n \in names : \A d \in needs(n) \ Unwatched(plan.modules, InProduction(plan)) :
                   stack.services[n].needs[d] = "service_healthy" => stack.services[d].healthy
             /\ ~Circular(names, needs)
             /\ \A n \in names : stack.services[n].mounts \subseteq stack.volumes \cup GatedVolumes(plan.modules)
             /\ \A m \in Range(plan.modules) : \A s \in services(m) :
                   /\ ComposeServiceName(m.id, s) \in names
                   /\ stack.services[ComposeServiceName(m.id, s)].module = m.id

\* The stack of a valid profile holds together: what a service waits for is in
\* it, a route leads to a service of the stack, and what a module is bound to
\* answers under a name of the stack, if its module has any service there.
\* Unless names collide, what is waited for can become healthy (or its check is
\* off), no services wait for each other in a circle, what is mounted is declared
\* (or its own gate is off), and no service takes the name of another.
StackHoldsTogether ==
    \A overlay \in Environs, options \in OptionSets : \A plan \in ErrorFree(overlay, options) :
        \A stack \in {RenderCompose(plan)} : stack.errors = {} => StackIsClosed(plan, stack)

\* The pod ports of a chart to which `to` forwards a port under a host name.
ForwardedTo(chart, to, host, port) ==
    UNION {{p[2] : p \in {q \in s.ports : q[1] = port}} :
           s \in {t \in chart.services : t.module = to /\ t.name = host}}

\* The modules that the bindings and the routes of a module lead to.
Partners(module, modules) ==
    {b.ref[1] : b \in SingleBindings(module)} \cup {r[1] : r \in ProxyRoutes(module, modules)}

ChartConnects(plan, chart) ==
    LET modules == plan.modules
        reaches(m, to, host, port) ==
            \/ to = m.id
            \/ port.is = "port" =>
                   \A p \in ForwardedTo(chart, to, host, port.port) : <<m.id, to, p>> \in chart.edges
        covered(m, w, host, port) ==
            \E e \in chart.external : e[1] = m.id /\ e[2] = w /\ Covers(e[3], host, port)
        foreign(m, host) == \E s \in chart.services : s.name = host /\ s.module # m.id
    IN /\ \A m \in Range(modules) : \A b \in SingleBindings(m) :
             reaches(m, b.ref[1], HostOf(b.contract).host, At(b.contract.spec, "port", Blank))
       /\ \A m \in Range(modules) : \A r \in ProxyRoutes(m, modules) :
             LET contract == Instance(modules, r[1]).provides[r[2]]
             IN reaches(m, r[1], Backend(contract, r), At(contract.spec, "port", Blank))
       /\ \A e \in chart.edges : e[1] # e[2] /\ e[2] \in Partners(Instance(modules, e[1]), modules)
       /\ ~Clashing(modules) =>
             /\ \A m \in Range(modules) : \A b \in SingleBindings(m) :
                   \E s \in chart.services : s.module = b.ref[1] /\ s.name = HostOf(b.contract).host
             /\ \A w \in chart.workloads : \A m \in {Instance(modules, w[1])} :
                   \A g \in m.def.workloads[w[2]].waitFor : \A host \in {GateHost(m, g.host)} :
                      \/ g.host.on = "host" /\ foreign(m, host)
                      \/ \E s \in chart.services : s.name = host /\ reaches(m, s.module, host, GatePort(m, g))
                      \/ covered(m, w[2], host, GatePort(m, g))

\* The network policies of a chart let a module reach, on the pod port behind
\* it, every Service that its bindings, routes and gates name, and let no module
\* reach one that it is neither bound nor routed to.  Of a gate that spells out
\* the Service of another module only the host is checked, not the port.
PoliciesFollowBindings ==
    \A overlay \in Environs, options \in OptionSets : \A plan \in ErrorFree(overlay, options) :
        \A chart \in {RenderHelm(plan)} : ChartIsWritten(chart) => ChartConnects(plan, chart)

=============================================================================
