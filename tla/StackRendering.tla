---------------------------- MODULE StackRendering ----------------------------
(***************************************************************************)
(* The Compose file of a plan (cli/renderer.py): which services and        *)
(* volumes of the module templates are in it, what the services wait for   *)
(* and what they mount, and the routes of the reverse proxies.             *)
(*                                                                         *)
(* A service template is [production, gate, override, healthGate, healthy, *)
(* profiled, needs, mounts]: whether it is for production only, "never" or *)
(* "any" profile; its enabledFrom; the fields that its production mapping  *)
(* puts over these; the gate of its health check and whether it has one    *)
(* with a test; whether it belongs to a Compose profile; its depends_on    *)
(* (service -> condition); and the named volumes it mounts, each           *)
(* [volume, binding, gate, production]: one of the module's own, or        *)
(* (volume being NoPath) the one that a binding of the module names.       *)
(* A volume template is [production, gate].                                *)
(***************************************************************************)
EXTENDS ProfileComposer

\* _resolve_expr on a gate: what is at the path, or whether it is the value.
GateValue(gate, config) ==
    IF "value" \in DOMAIN gate
    THEN Flag(Holds(config, gate.path) /\ config[gate.path] = gate.value)
    ELSE At(config, gate.path, Blank)

\* _is_disabled: only what comes to exactly false.
Disabled(gate, config) == gate # NoGate /\ GateValue(gate, config) = Flag(FALSE)

\* apply_production_gates, on an entry and on the fields of a service.
Dropped(entry, production) ==
    \/ entry.production = "only" /\ ~production
    \/ entry.production = "never" /\ production

Merged(service, production) ==
    IF production THEN Override(service, service.override) ELSE service

Kept(entry, production, config) ==
    ~Dropped(entry, production) /\ ~Disabled(entry.gate, config)

\* The names of what is left of a module's services and volumes.
ServicesOf(module, production) ==
    {s \in DOMAIN module.def.services : Kept(module.def.services[s], production, module.config)}

VolumesOf(module, production) ==
    {v \in DOMAIN module.def.volumes : Kept(module.def.volumes[v], production, module.config)}

(***************************************************************************)
(* Services                                                                *)
(***************************************************************************)

\* _build_context: what the templates of a module see of its bindings.  One of
\* a list is seen under its index only, and has no place here.
BoundSpecs(module) ==
    [n \in {k \in DOMAIN module.consumes : ~module.consumes[k].many} |->
       module.consumes[n].bound[1].contract.spec]

\* The volumes that the modules of a plan own, under the names they are given:
\* collected before anything is rendered.
OwnedVolumes(plan) == UNION {{v.host : v \in DeclaredVolumes(m)} : m \in Range(plan.modules)}

\* _rewrite_service_volumes: a name that is a volume of some module's
\* template is left as it is, and any other is one of this module's.
Mounted(module, mount, external) ==
    LET named == IF mount.volume # NoPath THEN PartsOf(mount.volume)
                 ELSE BoundSpecs(module)[mount.binding]["volume"].host
    IN IF named \in external THEN named ELSE PartsOf(module.id) \o named

\* The mounts of a service that its gates leave; one that comes from a binding
\* is gated on the kind of what is bound.
MountsOf(module, service, production) ==
    {m \in service.mounts :
        /\ Kept(m, production, module.config)
        /\ m.volume = NoPath => "volume" \in DOMAIN At(BoundSpecs(module), m.binding, Nothing)}

\* _rewrite_depends_on
Needs(module, needs) ==
    [n \in {ComposeServiceName(module.id, d) : d \in DOMAIN needs} |->
       needs[CHOOSE d \in DOMAIN needs : ComposeServiceName(module.id, d) = n]]

\* _render_services on one service.
RenderService(module, name, production, external) ==
    LET service == Merged(module.def.services[name], production)
    IN [module   |-> module.id,
        healthy  |-> service.healthy /\ ~Disabled(service.healthGate, module.config),
        profiled |-> service.profiled,
        needs    |-> Needs(module, service.needs),
        mounts   |-> {Mounted(module, m, external) : m \in MountsOf(module, service, production)}]

\* Mutant: every service of the modules depended on is waited for.
AwaitedUnhealthy(name, modules, rendered, services) ==
    LET owners == {m \in Range(modules) : name \in rendered[m.id]}
    IN UNION {rendered[d] : d \in UNION {Range(m.dependsOn) : m \in owners} \cap DOMAIN rendered}

\* _add_cross_module_dependencies, for the service `name`: the services it waits
\* for are those of the modules that its module depends on, if they have a
\* health check and are started without a profile.
Awaited(name, modules, rendered, services) ==
    LET owners  == {m \in Range(modules) : name \in rendered[m.id]}
        depends == (UNION {Range(m.dependsOn) : m \in owners}) \cap DOMAIN rendered
    IN {n \in UNION {rendered[d] : d \in depends} : services[n].healthy /\ ~services[n].profiled}

(***************************************************************************)
(* What contracts advertise                                                *)
(***************************************************************************)

HostedKinds == {"sql-database", "cache-service", "http-service", "log-sink"}

\* _provided_contract_host_candidates: serviceName before host.
HostCandidates(id, contract) ==
    LET spec == contract.spec
        serving == IF "serviceName" \in DOMAIN spec
                   THEN {ComposeServiceName(id, spec.serviceName.text)} ELSE {}
        host    == IF At(spec, "host", Blank).is = "host" THEN {spec.host.host} ELSE {}
    IN CASE contract.kind \notin HostedKinds -> {}
         [] contract.kind = "http-service" /\ serving # {} -> serving
         [] contract.kind = "log-sink" -> serving \cup host
         [] OTHER -> host

\* _validate_provided_contract_hosts_against: modules without a rendered
\* service are left to their other errors.  `answers` is what is rendered for a
\* module.
HostErrors(module, answers) ==
    When(answers # {} /\ \E n \in DOMAIN module.provides :
            ~(HostCandidates(module.id, module.provides[n]) \subseteq answers),
         "E150", module.id)

(***************************************************************************)
(* Routes                                                                  *)
(***************************************************************************)

IsProxy(module) == \E n \in DOMAIN module.provides : module.provides[n].kind = "reverse-proxy"

\* The references of config.routes; what else a route says (its rule, entry
\* points and certificate) is left out.
RoutesOf(module) == At(module.config, "routes", Bindings(<<>>)).refs

\* The service a route leads to: what the contract names as its server, or its host.
Backend(contract, ref) ==
    IF "serviceName" \in DOMAIN contract.spec
    THEN ComposeServiceName(ref[1], contract.spec.serviceName.text)
    ELSE IF At(contract.spec, "host", Blank).is = "host" THEN contract.spec.host.host
    ELSE <<>>

HasPort(contract) == At(contract.spec, "port", Blank).is = "port"

\* _bound_route_contracts: every binding of a module, under its reference.
BoundContracts(module) ==
    LET bound == UNION {Range(module.consumes[n].bound) : n \in DOMAIN module.consumes}
    IN [r \in {b.ref : b \in bound} |-> (CHOOSE b \in bound : b.ref = r).contract]

\* What keeps a route out of the proxy's document (E136).
RouteErrors(module, ref, rendered) ==
    LET contract == BoundContracts(module)[ref]
    IN When(\/ ref \notin DOMAIN BoundContracts(module)
            \/ contract.kind # "http-service"
            \/ Backend(contract, ref) = <<>> \/ ~HasPort(contract)
            \/ Backend(contract, ref) \notin rendered[ref[1]],
            "E136", module.id)

\* _generate_reverse_proxy_routes: from each route of a proxy to its backend.
Routes(modules, rendered) ==
    LET proxies  == {m \in Range(modules) : IsProxy(m)}
        good(m)  == {r \in Range(RoutesOf(m)) : RouteErrors(m, r, rendered) = {}}
    IN [errors |-> UNION {UNION {RouteErrors(m, r, rendered) : r \in Range(RoutesOf(m))} : m \in proxies},
        routes |-> UNION {{<<m.id, Backend(BoundContracts(m)[r], r)>> : r \in good(m)} : m \in proxies}]

(***************************************************************************)
(* render_compose                                                          *)
(***************************************************************************)

\* What keeps a module out of the file.
RenderErrors(module) ==
    IF "docker-compose" \notin module.def.targets THEN {<<"E070", module.id>>}
    ELSE MarkerErrors(module.def.markers, module.id)

InProduction(plan) == plan.environment = "production"

\* The names that the services of a module have in the file.
FullServices(module, production) ==
    {ComposeServiceName(module.id, s) : s \in ServicesOf(module, production)}

\* Those of each module of a plan, as far as it is rendered.
RenderedNames(plan) ==
    [id \in IdsOf(plan.modules) |->
       UNION {FullServices(m, InProduction(plan)) :
              m \in {n \in Range(plan.modules) : n.id = id /\ RenderErrors(n) = {}}}]

\* A later module's service takes the place of an earlier one of the same name.
OwnerOf(plan, name) ==
    LET owners == {i \in DOMAIN plan.modules : /\ RenderErrors(plan.modules[i]) = {}
                                               /\ name \in FullServices(plan.modules[i], InProduction(plan))}
    IN plan.modules[CHOOSE i \in owners : \A j \in owners : j <= i]

TemplateOf(module, name, production) ==
    CHOOSE s \in ServicesOf(module, production) : ComposeServiceName(module.id, s) = name

ComposeServices(plan) ==
    [n \in UNION {RenderedNames(plan)[id] : id \in IdsOf(plan.modules)} |->
       RenderService(OwnerOf(plan, n), TemplateOf(OwnerOf(plan, n), n, InProduction(plan)),
                     InProduction(plan), OwnedVolumes(plan))]

RenderCompose(plan) ==
    LET modules    == Range(plan.modules)
        rendered   == RenderedNames(plan)
        services   == ComposeServices(plan)
        needs(n)   == Override(services[n].needs,
                          Constantly(Awaited(n, plan.modules, rendered, services), "service_healthy"))
        routes     == Routes(plan.modules, rendered)
    IN [services |-> [n \in DOMAIN services |-> [services[n] EXCEPT !.needs = needs(n)]],
        volumes  |-> UNION {{VolumeName(m.id, v) : v \in VolumesOf(m, InProduction(plan))} :
                            m \in {n \in modules : RenderErrors(n) = {}}},
        routes   |-> routes.routes,
        errors   |-> UNION {RenderErrors(m) \cup HostErrors(m, rendered[m.id]) : m \in modules}
                     \cup routes.errors]

=============================================================================
