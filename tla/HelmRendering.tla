----------------------------- MODULE HelmRendering -----------------------------
(***************************************************************************)
(* The Helm chart of a plan (cli/k8s_renderer.py): the workloads and their *)
(* Services, the gates that a workload waits for, and the NetworkPolicies, *)
(* which deny everything but what bindings, routes and declarations allow. *)
(* A chart is for production, whatever the environment of the profile.     *)
(*                                                                         *)
(* A workload template is [gate, containers, init, stateful, service,      *)
(* serviceName, waitFor, egress]: its enabledFrom; the Compose services it *)
(* runs; whether it is a StatefulSet; NoService or [type, ports], the      *)
(* ports with their target ports; the name of its Service, or NoPath; its  *)
(* gates [host, port]; and what it says it connects to outside the chart,  *)
(* each [to, ports], no ports standing for all of them (its own entries    *)
(* and those of its module).  A pair of ports is [port, target].  The port *)
(* of a pair and the destination `to` are advertisements of ProfileTerms.  *)
(***************************************************************************)
EXTENDS StackRendering

CONSTANTS NoService, AllPorts

\* _partition_modules
Renderable(module) == "kubernetes" \in module.def.targets /\ module.def.workloads # Nothing

HasService(workload) == workload.service # NoService \/ workload.stateful

\* What _collect_service_names makes of one module: workload -> Service, gated or not.
ServiceNames(module) ==
    LET workloads == module.def.workloads
    IN [w \in {v \in DOMAIN workloads : HasService(workloads[v])} |->
          IF workloads[w].serviceName # NoPath THEN PartsOf(workloads[w].serviceName)
          ELSE ComposeServiceName(module.id, w)]

ServicesNamed(module) == Range(ServiceNames(module))

\* A workload is left out when its gate is off.
EnabledWorkloads(module) ==
    {w \in DOMAIN module.def.workloads : ~Disabled(module.def.workloads[w].gate, module.config)}

\* The Compose services that the containers of a workload can come from: only
\* the production gates count.
Available(module) ==
    {s \in DOMAIN module.def.services : ~Dropped(module.def.services[s], TRUE)}

Runs(module, w) ==
    /\ w \in EnabledWorkloads(module)
    /\ module.def.workloads[w].containers \cap Available(module) # {}

\* _missing_service
MissingErrors(module) ==
    When(\E w \in EnabledWorkloads(module) :
            LET workload == module.def.workloads[w]
            IN ~(workload.containers \cup workload.init \subseteq Available(module)),
         "E073", module.id)

(***************************************************************************)
(* Bindings and routes                                                     *)
(***************************************************************************)

\* iter_consume_bindings and, for what is not a list, the loops over `consumes`.
AllBindings(module) ==
    UNION {Range(module.consumes[n].bound) : n \in DOMAIN module.consumes}

SingleBindings(module) ==
    {module.consumes[n].bound[1] : n \in {k \in DOMAIN module.consumes : ~module.consumes[k].many}}

HostOf(contract) == At(contract.spec, "host", Blank)

\* _check_binding_services: any Service of the chart will do.
BindingServiceErrors(module, modules) ==
    LET available == UNION {ServicesNamed(m) : m \in Range(modules)}
    IN When(\E b \in AllBindings(module) :
               ~(HostOf(b.contract).is = "host" /\ HostOf(b.contract).host \in available),
            "E084", module.id)

\* _collect_service_names for one module: full name of a workload -> Service.
FullNames(module) ==
    LET names == ServiceNames(module)
        full(w) == ComposeServiceName(module.id, w)
    IN [n \in {full(w) : w \in DOMAIN names} |-> names[CHOOSE w \in DOMAIN names : full(w) = n]]

\* _check_provided_contract_services: a serviceName is that of a workload.
ProvidedServiceErrors(module) ==
    LET answers == ServicesNamed(module)
        named(contract) == {At(FullNames(module), h, h) : h \in HostCandidates(module.id, contract)}
    IN When(answers # {} /\ \E n \in DOMAIN module.provides :
               ~(named(module.provides[n]) \subseteq answers),
            "E150", module.id)

\* _resolve_proxy_routes: the routes of a proxy that lead to an http-service.
ProxyRoutes(module, modules) ==
    {r \in Range(RoutesOf(module)) :
        /\ IsProxy(module)
        /\ r[1] \in IdsOf(modules)
        /\ r[2] \in DOMAIN Instance(modules, r[1]).provides
        /\ Instance(modules, r[1]).provides[r[2]].kind = "http-service"}

(***************************************************************************)
(* Network policies                                                        *)
(***************************************************************************)

\* The <<port, target port>> pairs of the Service of a workload.
PortsOf(module, w) ==
    LET service == module.def.workloads[w].service
    IN IF service = NoService THEN {}
       ELSE {<<Substitute(p.port, module, Nothing).port, p.target>> : p \in service.ports}

\* _parse_egress_entry: only an address will do, for a policy knows no names.
WellAddressed(module, entry) == Substitute(entry.to, module, Nothing).is = "address"

\* _external_egress_entries for a workload, gated or not: <<address, ports>>.
EgressOf(module, w) ==
    {<<Substitute(e.to, module, Nothing).address, e.ports>> :
        e \in {d \in module.def.workloads[w].egress : WellAddressed(module, d)}}

EgressErrors(module) ==
    When(\E w \in DOMAIN module.def.workloads : \E e \in module.def.workloads[w].egress :
             ~WellAddressed(module, e),
         "E153", module.id)

\* _egress_entry_covers
Covers(entry, host, port) ==
    entry[1] = host /\ (entry[2] = {} \/ port \in entry[2])

\* _workload_surfaces: the pairs of the enabled workloads.
Surfaces(module) == UNION {PortsOf(module, w) : w \in EnabledWorkloads(module)}

\* Mutant: the policies are about the ports of the Services.
ServicePortScope(spec, provider) ==
    IF At(spec, "port", Blank).is = "port" THEN {spec["port"].port} ELSE {AllPorts}

\* _port_scope: the pod ports behind the port of a contract, or all those the
\* provider exposes, or no restriction.
PortScope(spec, provider) ==
    LET port    == At(spec, "port", Blank)
        targets == {s[2] : s \in {t \in Surfaces(provider) : port.is = "port" /\ t[1] = port.port}}
        exposed == {s[2] : s \in Surfaces(provider)}
    IN IF port.is = "port" THEN (IF targets # {} THEN targets ELSE {port.port})
       ELSE IF exposed # {} THEN exposed
       ELSE {AllPorts}

\* The edges <<from, to, pod port>> that the bindings of a module justify.  A
\* list of bindings gives none.
BindingEdges(m, modules) ==
    UNION {{<<m.id, b.ref[1], p>> : p \in PortScope(b.contract.spec, Instance(modules, b.ref[1]))} :
           b \in {c \in SingleBindings(m) : c.ref[1] \in IdsOf(modules) \ {m.id}}}

\* _reverse_proxy_route_edges: a route whose contract tells no port, to a module
\* that tells none either, gives no edge.
RouteEdges(m, modules) ==
    UNION {{<<m.id, r[1], p>> :
               p \in PortScope(Instance(modules, r[1]).provides[r[2]].spec,
                               Instance(modules, r[1])) \ {AllPorts}} :
           r \in {s \in ProxyRoutes(m, modules) : s[1] # m.id}}

\* _network_policy_manifests: egress of the one end and ingress of the other.
Edges(modules) ==
    UNION {BindingEdges(m, modules) \cup RouteEdges(m, modules) : m \in Range(modules)}

\* The policies that open what the workloads declare outside the chart.
ExternalEdges(module) ==
    UNION {{<<module.id, w, e>> : e \in EgressOf(module, w)} : w \in DOMAIN module.def.workloads}

\* The pod ports that a Service of another type than ClusterIP opens to everyone.
OpenPorts(module) ==
    UNION {{p[2] : p \in PortsOf(module, w)} :
           w \in {v \in EnabledWorkloads(module) :
                    /\ module.def.workloads[v].service # NoService
                    /\ module.def.workloads[v].service.type \in {"NodePort", "LoadBalancer"}}}

(***************************************************************************)
(* Wait gates                                                              *)
(***************************************************************************)

\* The host of a gate: a binding's, the Service of a workload, or a place
\* outside the chart (an advertisement).
GateOnBinding(name)  == [on |-> "binding", name |-> name]
GateOnWorkload(name) == [on |-> "workload", name |-> name]
GateOnHost(host)     == [on |-> "host", host |-> host]

\* The name the gate connects to once its expression is substituted; <<>>
\* for a name that does not resolve.
GateHost(module, host) ==
    CASE host.on = "workload" -> At(ServiceNames(module), host.name, <<>>)
      [] host.on = "binding"  ->
           LET advertised == At(At(BoundSpecs(module), host.name, Nothing), "host", Blank)
           IN IF advertised.is = "host" THEN advertised.host ELSE <<>>
      [] OTHER ->
           LET value == Substitute(host.host, module, Nothing)
           IN IF value.is = "address" THEN value.address ELSE <<>>

\* Its port: a number, or Blank for the port of the binding that it is on.
GatePort(module, gate) ==
    IF gate.port # Blank THEN gate.port
    ELSE At(BoundSpecs(module)[gate.host.name], "port", Blank)

\* The hosts _check_wait_gate_hosts lets a gate name: only the host counts, and
\* for the endpoints of bindings and routes not what their workloads' gates say.
GateHosts(module, modules) ==
    LET own   == {ServiceNames(module)[w] : w \in EnabledWorkloads(module) \cap DOMAIN ServiceNames(module)}
        bound == {HostOf(b.contract).host : b \in {c \in SingleBindings(module) :
                      c.ref[1] # module.id /\ HostOf(c.contract).is = "host"}}
        routed == {Backend(Instance(modules, r[1]).provides[r[2]], r) :
                     r \in {s \in ProxyRoutes(module, modules) : s[1] # module.id}}
        routedTo(n) == {FullNames(n)[h] : h \in routed \cap DOMAIN FullNames(n)}
    IN own \cup bound \cup UNION {routedTo(n) : n \in Range(modules)}

\* _check_wait_gate_hosts, for the workloads that run.
GateErrors(module, modules) ==
    LET allowed == GateHosts(module, modules)
    IN When(\E w \in {v \in DOMAIN module.def.workloads : Runs(module, v)} :
               \E g \in module.def.workloads[w].waitFor :
                   LET host == GateHost(module, g.host)
                   IN host \notin allowed
                      /\ ~\E e \in EgressOf(module, w) : Covers(e, host, GatePort(module, g)),
            "E152", module.id)

(***************************************************************************)
(* render_helm                                                             *)
(***************************************************************************)

\* Built-in backups have no Kubernetes form (E142).
NoBackupErrors(module) ==
    When(At(module.config, "backup.enabled", Blank) = Flag(TRUE), "E142", module.id)

NoChart(errors) ==
    [workloads |-> {}, services |-> {}, edges |-> {}, open |-> {}, external |-> {}, errors |-> errors]

\* _service_manifest
ServiceManifest(module, w) ==
    [module |-> module.id, name |-> ServiceNames(module)[w], ports |-> PortsOf(module, w)]

\* What _render_module makes of the workloads and their Services.
RenderedServices(module) ==
    {ServiceManifest(module, w) : w \in {v \in DOMAIN ServiceNames(module) : Runs(module, v)}}

RenderedWorkloads(module) == {<<module.id, w>> : w \in {v \in DOMAIN module.def.workloads : Runs(module, v)}}

\* The checks before anything is rendered.
StaticErrors(m, modules) ==
    UNION {EgressErrors(m), BindingServiceErrors(m, modules), ProvidedServiceErrors(m),
           GateErrors(m, modules), NoBackupErrors(m)}

\* The loop of render_helm over the modules, and the policies.
Chart(modules) ==
    LET all == Range(modules)
    IN [workloads |-> UNION {RenderedWorkloads(m) : m \in all},
        services  |-> UNION {RenderedServices(m) : m \in all},
        edges     |-> Edges(modules),
        external  |-> UNION {ExternalEdges(m) : m \in all},
        open      |-> UNION {{<<m.id, p>> : p \in OpenPorts(m)} : m \in all},
        errors    |-> UNION {MissingErrors(m) : m \in all}]

RenderHelm(plan) ==
    LET all         == Range(plan.modules)
        unsupported == {<<"E072", m.id>> : m \in {n \in all : ~Renderable(n)}}
        markers     == UNION {MarkerErrors(m.def.markers, m.id) : m \in all}
        static      == UNION {StaticErrors(m, plan.modules) : m \in all}
    IN IF unsupported \cup markers # {} THEN NoChart(unsupported \cup markers)
       ELSE IF static # {} THEN NoChart(static)
       ELSE Chart(plan.modules)

\* render_helm writes the files only when nothing is wrong.
ChartIsWritten(chart) == chart.errors = {}

=============================================================================
