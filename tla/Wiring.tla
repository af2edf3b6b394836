---------------------------------- MODULE Wiring ----------------------------------
(***************************************************************************)
(* How the child objects refer to one another: which pods a Service gives  *)
(* to a ServiceMonitor, which series a Cell's Prometheus has of them, and  *)
(* which permissions its bindings grant.  Every reference is by label or   *)
(* by name, most of the labels are the user's, and several Cells share the *)
(* cluster-scoped names, the nodes' ports and the kubelet Service.         *)
(*                                                                         *)
(* A pass is one step here; CellReconciler has its requests, Fleet its     *)
(* queue.  An object is what the others see of it.  "app/x" stands for the *)
(* label app.kubernetes.io/x.                                              *)
(***************************************************************************)
EXTENDS Naturals, FiniteSets

CONSTANTS
  Cells,            \* Cells, by namespace and name
  NameOf,           \* [Cells -> names]
  NamespaceOf,      \* [Cells -> namespaces]
  CellLabels,       \* label maps a Cell may have
  Nodes,            \* nodes of the cluster
  Components,       \* Gitpod's: of gitpod.targets, and "messagebus" and "proxy-caddy"
  GitpodNamespace,  \* where they run
  None,             \* nothing there
  Nobody,           \* an owner that is gone, or in another namespace than the object
  MaxEdits          \* steps the users may take (bound)

VARIABLES
  cells,    \* the Cells: their labels, or None
  wrote,    \* the labels each kind of child object was last written with, or None
  binding,  \* the ClusterRoleBindings, by app and name of the Cell
  gitpod,   \* owners of the objects that Cells share for Gitpod's components
  policy,   \* namespace that the NetworkPolicies admit
  ready,    \* Deployment and Prometheus a pass no longer writes
  daemon,   \* the Cell whose node-exporter has a node's port 9100
  edits     \* steps the users have left

CellNames == {NameOf[c] : c \in Cells}
Namespaces == {NamespaceOf[c] : c \in Cells}

vars == <<cells, wrote, binding, gitpod, policy, ready, daemon, edits>>

Kinds == {"prom", "services", "workloads", "monitors"}
NothingWritten == [k \in Kinds |-> None]
Made(c) == wrote[c]["workloads"] # None

-----------------------------------------------------------------------------
(* Labels and names *)

\* A map of one label, and two maps as one, of which the first prevails: `:>` and
\* `@@` of the TLC module, which the provers do not know.
Label(key, value) == [k \in {key} |-> value]
l ++ m == [k \in DOMAIN l \cup DOMAIN m |-> IF k \in DOMAIN l THEN l[k] ELSE m[k]]

\* Labels(cell) of each component: the Cell's labels, the name replaced.
Labels(app, l) == Label("app/name", app) ++ l

Matches(selector, labels) ==
  \A k \in DOMAIN selector : k \in DOMAIN labels /\ labels[k] = selector[k]

\* fmt.Sprintf("%s-%s", Name, cell.Name): the namespace is not in it.
Suffixed(app, c) == <<app, NameOf[c]>>

Account(app, c) == [name |-> Suffixed(app, c), ns |-> NamespaceOf[c]]

-----------------------------------------------------------------------------
(* What Cells share for Gitpod *)

\* Objects without a Cell's name in theirs: the NetworkPolicies and Services are beside
\* Gitpod, and the ServiceMonitors beside the Cell.
GitpodObject(kind, ns, t) == [kind |-> kind, ns |-> ns, of |-> t]
GitpodObjects ==
  {GitpodObject(k, GitpodNamespace, t) : k \in {"policy", "service"}, t \in Components}
    \cup {GitpodObject("monitor", ns, t) : ns \in Namespaces, t \in Components}

Has(kind, ns, t) == gitpod[GitpodObject(kind, ns, t)] # None

-----------------------------------------------------------------------------
(* Pods *)

\* `proxy` is the account the pod's kube-rbac-proxy asks the API server with.
Pod(name, ns, labels, ports, proxy) ==
  [name |-> name, ns |-> ns, labels |-> labels, ports |-> ports, proxy |-> proxy]

\* Host network and host port: a node has room for one of them.
NodeExporterPods(c) ==
  {Pod(<<"node-exporter", n>>, NamespaceOf[c],
       Labels("node-exporter", wrote[c]["workloads"]), {"https"},
       Account("node-exporter", c)) : n \in {n \in Nodes : daemon[n] = c}}

KubeStateMetricsPod(c) ==
  Pod(Suffixed("kube-state-metrics", c), NamespaceOf[c],
      Labels("kube-state-metrics", wrote[c]["workloads"]), {"https-main", "https-self"},
      Account("kube-state-metrics", c))

\* Prometheus-operator sets the two labels (the instance is "prometheus-<name>", and
\* no selector below asks for it).
PrometheusPod(c) ==
  Pod(Suffixed("prometheus", c), NamespaceOf[c],
      Label("app/name", "prometheus") ++ Label("app/instance", "prometheus")
        ++ Labels("prometheus", wrote[c]["prom"]),
      {"web", "reloader-web"}, None)

\* The pods a NetworkPolicy and a Service of Gitpod's are about.  They agree but for the
\* message bus, whose Service asks for another label.
PolicySelector(t) == Label("component", IF t = "proxy-caddy" THEN "proxy" ELSE t)
ServiceSelector(t) ==
  IF t = "messagebus" THEN Label("app/name", "rabbitmq") ELSE PolicySelector(t)

GitpodPort(t) == IF t = "proxy-caddy" THEN "caddy-metrics" ELSE "metrics"

\* Of the cluster: one pod per Gitpod component, a kubelet per node, an API server.
GitpodPod(t) ==
  Pod(<<"gitpod", t>>, GitpodNamespace, PolicySelector(t) ++ ServiceSelector(t),
      {GitpodPort(t)}, None)
GitpodPods == {GitpodPod(t) : t \in Components}
KubeletPod(n) ==
  Pod(<<"kubelet", n>>, "kube-system", Label("endpoints", "kubelet"), {"https-metrics"}, None)
APIServerPod ==
  Pod(<<"apiserver">>, "default", Label("endpoints", "kubernetes"), {"https"}, None)
ClusterPods == {KubeletPod(n) : n \in Nodes} \cup {APIServerPod}

ExporterPods ==
  UNION {NodeExporterPods(c) \cup {KubeStateMetricsPod(c)} : c \in {c \in Cells : Made(c)}}
PrometheusPods == {PrometheusPod(c) : c \in {c \in Cells : "prom" \in ready[c]}}

Pods == GitpodPods \cup ClusterPods \cup ExporterPods \cup PrometheusPods

-----------------------------------------------------------------------------
(* Services *)

Service(name, ns, labels, selector, ports) ==
  [name |-> name, ns |-> ns, labels |-> labels, selector |-> selector, ports |-> ports]

NodeExporterService(c) ==
  LET l == Labels("node-exporter", wrote[c]["services"])
  IN  Service(Suffixed("node-exporter", c), NamespaceOf[c], l, l, {"https"})

KubeStateMetricsService(c) ==
  LET l == Labels("kube-state-metrics", wrote[c]["services"])
  IN  Service(Suffixed("kube-state-metrics", c), NamespaceOf[c], l, l,
              {"https-main", "https-self"})

\* Mutant of gitpodLabels: the component is missing.
gitpodLabelsOfApp(t) ==
  Label("app/name", "gitpod") ++ Label("app/part-of", "monitoring-cell")

\* gitpod.labels
gitpodLabels(t) ==
  Label("app/component", t) ++ Label("app/name", "gitpod")
    ++ Label("app/part-of", "monitoring-cell")

GitpodService(t) ==
  Service(<<"gitpod", t>>, GitpodNamespace, gitpodLabels(t), ServiceSelector(t), {GitpodPort(t)})

GitpodServices == {GitpodService(t) : t \in {t \in Components : Has("service", GitpodNamespace, t)}}

\* Every prometheus-operator keeps the same Service kube-system/kubelet.
KubeletService ==
  Service(<<"kubelet">>, "kube-system", Label("app/name", "kubelet"),
          Label("endpoints", "kubelet"), {"https-metrics"})

APIServerLabels == Label("component", "apiserver") ++ Label("provider", "kubernetes")
KubernetesService ==
  Service(<<"kubernetes">>, "default", APIServerLabels,
          Label("endpoints", "kubernetes"), {"https"})

ClusterServices ==
  {KubernetesService} \cup {KubeletService : c \in {c \in Cells : "po" \in ready[c]}}

ExporterServices ==
  UNION {{NodeExporterService(c), KubeStateMetricsService(c)} : c \in {c \in Cells : Made(c)}}

Services == ClusterServices \cup GitpodServices \cup ExporterServices

-----------------------------------------------------------------------------
(* ServiceMonitors *)

\* An endpoint, by its port and path, and if its relabelling drops the labels that
\* tell pods and Services apart.
Endpoint(port, path, plain) == [port |-> port, path |-> path, plain |-> plain]

Monitor(in, selector, jobLabel, endpoints) ==
  [in |-> in, selector |-> selector, jobLabel |-> jobLabel, endpoints |-> endpoints]

serviceMonitorKubelet ==
  Monitor("kube-system", Label("app/name", "kubelet"), "app/name",
          {Endpoint("https-metrics", p, FALSE)
             : p \in {"/metrics", "/metrics/cadvisor", "/metrics/probes"}})

serviceMonitorAPIServer ==
  Monitor("default", APIServerLabels, "component", {Endpoint("https", "/metrics", FALSE)})

NodeExporterMonitor(c) ==
  Monitor(NamespaceOf[c], Labels("node-exporter", wrote[c]["monitors"]), "app/name",
          {Endpoint("https", "/metrics", FALSE)})

\* Mutant of KubeStateMetricsMonitor: its own metrics are left out.
KubeStateMetricsMonitorMain(c) ==
  Monitor(NamespaceOf[c], Labels("kube-state-metrics", wrote[c]["monitors"]), "app/name",
          {Endpoint("https-main", "/metrics", TRUE)})

KubeStateMetricsMonitor(c) ==
  Monitor(NamespaceOf[c], Labels("kube-state-metrics", wrote[c]["monitors"]), "app/name",
          {Endpoint("https-main", "/metrics", TRUE), Endpoint("https-self", "/metrics", FALSE)})

GitpodMonitor(t) ==
  Monitor(GitpodNamespace, gitpodLabels(t), "app/component",
          {Endpoint("metrics", "/metrics", FALSE)})

GitpodMonitors(ns) == {GitpodMonitor(t) : t \in {t \in Components : Has("monitor", ns, t)}}

Monitors(c) ==
  {serviceMonitorKubelet, serviceMonitorAPIServer,
   NodeExporterMonitor(c), KubeStateMetricsMonitor(c)}

-----------------------------------------------------------------------------
(* Permissions *)

Apps == {"prometheus-operator", "prometheus", "kube-state-metrics", "node-exporter"}

Binding(app, c) == [role |-> Suffixed(app, c), account |-> Account(app, c)]

\* Mutant of ClusterRoleBinding: the Cell's name is left out everywhere.
ClusterRoleBindingByApp(app, c) ==
  [role |-> <<app>>, account |-> [name |-> <<app>>, ns |-> NamespaceOf[c]]]

\* What a pass writes; node-exporter's names neither its role nor its account.
ClusterRoleBinding(app, c) ==
  IF app = "node-exporter"
  THEN [role |-> <<app>>, account |-> [name |-> <<app>>, ns |-> NamespaceOf[c]]]
  ELSE Binding(app, c)

ASSUME WiringAssumption ==
  /\ None \notin CellLabels /\ MaxEdits \in Nat
  /\ \A app \in Apps, c \in Cells : ClusterRoleBinding(app, c) # None /\ Account(app, c) # None

\* No component of Gitpod's has the name of another job, or is the proxy of Caddy's.
ASSUME ScrapingAssumption ==
  /\ IsFiniteSet(Cells) /\ IsFiniteSet(Nodes)
  /\ Components \cap {"kubelet", "apiserver", "kube-state-metrics", "node-exporter",
                       "proxy"} = {}

Asks == {"create"} \X {"tokenreviews", "subjectaccessreviews"}
Watches(resources) == {"list", "watch"} \X resources
Manages(resources) == {"get", "create", "update", "delete"} \X resources

PrometheusOperatorRules ==
  Asks \cup Manages({"prometheuses", "servicemonitors", "statefulsets", "configmaps", "secrets",
                     "services", "endpoints"})
    \cup Watches({"prometheuses", "servicemonitors", "statefulsets", "configmaps", "secrets",
                  "nodes", "namespaces"})
    \cup {"list", "delete"} \X {"pods"}

PrometheusRules ==
  ({"get"} \X {"nodes/metrics", "/metrics"})
    \cup ({"get", "list", "watch"} \X {"services", "pods", "endpoints"})

KubeStateMetricsRules ==
  Asks \cup Watches({"configmaps", "secrets", "nodes", "pods", "services", "namespaces",
                     "endpoints", "statefulsets", "daemonsets", "deployments", "jobs", "leases"})

NodeExporterRules == Asks

Rules(app) ==
  CASE app = "prometheus-operator" -> PrometheusOperatorRules
    [] app = "prometheus"          -> PrometheusRules
    [] app = "kube-state-metrics"  -> KubeStateMetricsRules
    [] app = "node-exporter"       -> NodeExporterRules

\* What the bindings in the cluster grant an account.  The roles of an app stay
\* when its Cell is deleted, like the bindings.
Granted(account) ==
  UNION {Rules(app) : app \in {app \in Apps : \E n \in DOMAIN binding[app] :
           /\ binding[app][n] # None
           /\ binding[app][n].account = account /\ binding[app][n].role = <<app, n>>}}

\* What the programs need: the operator to run a Prometheus, Prometheus to find its
\* targets and to be let in by their proxies, and a proxy to ask who is calling.
RunsPrometheus ==
  Manages({"statefulsets", "secrets", "services", "endpoints"})
    \cup Watches({"prometheuses", "nodes"})
Scrapes ==
  Watches({"services", "pods", "endpoints"}) \cup ({"get"} \X {"nodes/metrics", "/metrics"})

Can(app, c, needs) == needs \subseteq Granted(Account(app, c))

-----------------------------------------------------------------------------
(* Admission *)

\* gitpod.matchLabels
matchLabels ==
  Label("app/component", "prometheus") ++ Label("app/name", "prometheus")
    ++ Label("app/part-of", "monitoring-cell")

\* The policies that choose who may call a pod.
PoliciesOf(p) ==
  {t \in Components : Has("policy", GitpodNamespace, t) /\ Matches(PolicySelector(t), p.labels)}

\* They are one set of objects for all Cells, and name the namespace of the one that
\* wrote them last.  A pod that none of them selects is open to everybody.
Admits(p, c) ==
  p.ns = GitpodNamespace /\ PoliciesOf(p) # {} =>
    policy = NamespaceOf[c] /\ Matches(matchLabels, PrometheusPod(c).labels)

-----------------------------------------------------------------------------
(* Scraping *)

\* What a Service offers at a port; a proxy that may not ask lets nobody in.
Scraped(c, s, port) ==
  {p \in Pods : /\ port \in s.ports \cap p.ports
                /\ p.ns = s.ns /\ Matches(s.selector, p.labels)
                /\ Admits(p, c)
                /\ p.proxy # None => Asks \subseteq Granted(p.proxy)}

\* The labels of an endpoint's series.
SeriesLabels(m, s, e, p) ==
  [job  |-> IF m.jobLabel \in DOMAIN s.labels THEN s.labels[m.jobLabel] ELSE s.name,
   on   |-> p.name, via |-> IF e.plain THEN None ELSE s.name, path |-> e.path, port |-> e.port]

\* The series Prometheus has of `up`: one for each set of labels.
SeriesOf(c, m, s) ==
  UNION {{SeriesLabels(m, s, e, p) : p \in Scraped(c, s, e.port)} : e \in m.endpoints}

\* Prometheus takes every ServiceMonitor of its own namespace.
Watched(c) ==
  GitpodMonitors(NamespaceOf[c])
    \cup UNION {Monitors(d) : d \in {d \in Cells : /\ NamespaceOf[d] = NamespaceOf[c]
                                                 /\ wrote[d]["monitors"] # None}}
Discovered(m) == {s \in Services : m.in = s.ns /\ Matches(m.selector, s.labels)}

Series(c) ==
  IF Can("prometheus", c, Scrapes)
  THEN UNION {UNION {SeriesOf(c, m, s) : s \in Discovered(m)} : m \in Watched(c)}
  ELSE {}

OfJob(series, job) == {s \in series : s.job = job}
Up(series, job) == Cardinality(OfJob(series, job))

-----------------------------------------------------------------------------
(* Steps *)

\* The Cells for whose sake the garbage collector leaves an object alone.
Keepers(o) == {c \in Cells : NamespaceOf[c] = o.ns /\ Made(c)}

TypeOK ==
  /\ cells \in [Cells -> CellLabels \cup {None}]
  /\ wrote \in [Cells -> [Kinds -> CellLabels \cup {None}]]
  /\ \A app \in Apps : DOMAIN binding[app] = CellNames
  /\ \A app \in Apps, n \in CellNames :
       binding[app][n] = None
         \/ \E c \in Cells : NameOf[c] = n /\ binding[app][n] = ClusterRoleBinding(app, c)
  /\ gitpod \in [GitpodObjects -> Cells \cup {Nobody, None}]
  /\ \A o \in GitpodObjects : gitpod[o] \in Keepers(o) \cup {Nobody, None}
  /\ policy \in Namespaces \cup {None}
  /\ ready \in [Cells -> SUBSET {"po", "prom"}]
  /\ \A c \in Cells : ready[c] # {} => Made(c)
  /\ daemon \in [Nodes -> {c \in Cells : Made(c)} \cup {None}]
  /\ edits \in 0..MaxEdits

Init ==
  /\ cells = [c \in Cells |-> None]
  /\ wrote = [c \in Cells |-> NothingWritten]
  /\ binding = [app \in Apps |-> [n \in CellNames |-> None]]
  /\ gitpod = [o \in GitpodObjects |-> None] /\ policy = None
  /\ ready = [c \in Cells |-> {}] /\ daemon = [n \in Nodes |-> None]
  /\ edits = MaxEdits

Bind(c, apps) ==
  binding' = [app \in Apps |->
                IF app \in apps
                THEN [binding[app] EXCEPT ![NameOf[c]] = ClusterRoleBinding(app, c)]
                ELSE binding[app]]

\* The label selector of a Deployment or DaemonSet cannot be changed.
Immutable(c) == wrote[c]["workloads"] \notin {None, cells[c]}

\* A pass that ends at prometheus-operator's Deployment.
PassBlocked(c) ==
  /\ cells[c] # None /\ Immutable(c) /\ "po" \notin ready[c]
  /\ Bind(c, {"prometheus-operator"})
  /\ UNCHANGED <<cells, wrote, gitpod, policy, ready, daemon, edits>>

\* Those of Gitpod's objects that a pass writes.  Of one in another namespace a Cell is no
\* owner.
GitpodOf(c) == {o \in GitpodObjects : o.kind = "monitor" => o.ns = NamespaceOf[c]}
GitpodOwner(c, o) == IF NamespaceOf[c] = o.ns THEN c ELSE Nobody

\* A pass that gets through the gates; one with new labels ends at the DaemonSet.
\* Gitpod's objects are written, and their owners left as they are.
Pass(c) ==
  /\ cells[c] # None /\ ~(Immutable(c) /\ "po" \notin ready[c])
  /\ Bind(c, {"kube-state-metrics", "node-exporter"}
               \cup (IF "po" \in ready[c] THEN {} ELSE {"prometheus-operator"})
               \cup (IF "prom" \in ready[c] THEN {} ELSE {"prometheus"}))
  /\ wrote' = [wrote EXCEPT ![c] =
       [k \in Kinds |->
          CASE k = "prom" /\ "prom" \in ready[c] -> @[k]
            [] k = "workloads" /\ Made(c)        -> @[k]
            [] k = "monitors" /\ Immutable(c)    -> @[k]
            [] OTHER                             -> cells[c]]]
  /\ gitpod' = [o \in GitpodObjects |->
                  IF o \in GitpodOf(c) /\ gitpod[o] = None THEN GitpodOwner(c, o) ELSE gitpod[o]]
  /\ policy' = NamespaceOf[c]
  /\ UNCHANGED <<cells, ready, daemon, edits>>

\* The garbage collector, one object at a time.
Collect(o) ==
  /\ gitpod[o] = Nobody
  /\ gitpod' = [gitpod EXCEPT ![o] = None]
  /\ UNCHANGED <<cells, wrote, binding, policy, ready, daemon, edits>>

\* A replica becomes available.
Starts(c, g) ==
  /\ Made(c) /\ g \notin ready[c]
  /\ g = "prom" => "po" \in ready[c] /\ Can("prometheus-operator", c, RunsPrometheus)
  /\ ready' = [ready EXCEPT ![c] = @ \cup {g}]
  /\ UNCHANGED <<cells, wrote, binding, gitpod, policy, daemon, edits>>

\* A node-exporter pod gets a node's port.
Schedule(c, n) ==
  /\ Made(c) /\ daemon[n] = None
  /\ daemon' = [daemon EXCEPT ![n] = c]
  /\ UNCHANGED <<cells, wrote, binding, gitpod, policy, ready, edits>>

Edit == edits > 0 /\ edits' = edits - 1

SetLabels(c, l) ==
  /\ Edit /\ l # cells[c]
  /\ cells' = [cells EXCEPT ![c] = l]
  /\ UNCHANGED <<wrote, binding, gitpod, policy, ready, daemon>>

\* Mutant of DeleteCell: the garbage collector leaves the pods.
DeleteCellOnly(c) ==
  /\ Edit /\ cells[c] # None
  /\ cells' = [cells EXCEPT ![c] = None]
  /\ wrote' = [wrote EXCEPT ![c] = NothingWritten]
  /\ UNCHANGED <<binding, gitpod, policy, ready, daemon>>

\* The Cell goes, and all it owns in its namespace; what is cluster-scoped stays.
\* Those of Gitpod's objects that it made are the garbage collector's.
DeleteCell(c) ==
  /\ Edit /\ cells[c] # None
  /\ cells' = [cells EXCEPT ![c] = None]
  /\ wrote' = [wrote EXCEPT ![c] = NothingWritten]
  /\ ready' = [ready EXCEPT ![c] = {}]
  /\ daemon' = [n \in Nodes |-> IF daemon[n] = c THEN None ELSE daemon[n]]
  /\ gitpod' = [o \in GitpodObjects |-> IF gitpod[o] = c THEN Nobody ELSE gitpod[o]]
  /\ UNCHANGED <<binding, policy>>

CellStep(c) ==
  \/ Pass(c) \/ PassBlocked(c) \/ DeleteCell(c)
  \/ \E g \in {"po", "prom"} : Starts(c, g)
  \/ \E n \in Nodes : Schedule(c, n)
  \/ \E l \in CellLabels : SetLabels(c, l)

Next ==
  \/ \E c \in Cells : CellStep(c)
  \/ \E o \in GitpodObjects : Collect(o)

Spec == Init /\ [][Next]_vars

-----------------------------------------------------------------------------
(* Properties *)

\* What the theorems ask of the users, and the properties below rest on.  Cluster-scoped
\* objects carry a Cell's name and not its namespace; the policies and the API server's
\* Service use `component` without a prefix, and a Cell's labels reach its pods.
UniqueNames == \A c \in Cells, d \in Cells : NameOf[c] = NameOf[d] => c = d
PlainLabels == \A l \in CellLabels : "component" \notin DOMAIN l

\* A Cell all of whose objects carry the labels it has now, and whose Prometheus runs.
Settled(c) ==
  cells[c] # None /\ "prom" \in ready[c] /\ \A k \in Kinds : wrote[c][k] = cells[c]

Neighbours(c) == {d \in Cells \ {c} : NamespaceOf[d] = NamespaceOf[c] /\ Made(d)}

\* All objects of a Cell that it made agree on their labels: an edit that a closed
\* selector refuses leaves them apart.
Uniform(c) == \A k, j \in {"services", "workloads", "monitors"} : wrote[c][k] = wrote[c][j]

\* The counts updateCellStatus waits for (cell_controller.go:264-290) are those a
\* settled Cell has, whatever its labels are: of the kubelets and the API server with
\* any neighbours; of kube-state-metrics if no other Cell is in the namespace, and never
\* beside another Cell whose objects agree on their labels.  Of node-exporter there is
\* nothing: its proxy may not ask who is calling (clusterrolebinding.go:33).
CountsFit ==
  \A c \in Cells : Settled(c) =>
    LET series == Series(c)
    IN  /\ Up(series, "kubelet") = 3 * Cardinality(Nodes)
        /\ Up(series, "apiserver") = 1 /\ Up(series, "node-exporter") = 0
        /\ Neighbours(c) = {} => Up(series, "kube-state-metrics") = 2
        /\ (\E d \in Neighbours(c) : Uniform(d)) => Up(series, "kube-state-metrics") > 2

\* From its first pass on, a Cell's programs have the permissions they need, and lose
\* none to a Cell of another name, nor to its deletion.
OwnRights ==
  \A c \in Cells : Made(c) =>
    /\ Can("prometheus-operator", c, RunsPrometheus) /\ Can("prometheus", c, Scrapes)
    /\ Can("kube-state-metrics", c, Asks)

\* Every Gitpod component has its own job, and none is scraped for another.  A settled
\* Cell scrapes a component while its Service and its ServiceMonitor are there, whoever
\* made them, and if the policy named "%s-allow-prometheus" (networkpolicies.go:21) is
\* there, only as the Cell that was reconciled last, or one beside it, and only if the
\* Cell's own labels name that component `prometheus`; the garbage collector may take any
\* of the three from a Cell at rest.  The monitor of proxy-caddy names a port that its
\* Service does not have.
GitpodScraped ==
  \A c \in Cells : Settled(c) =>
    LET series == Series(c)
        admitted == /\ policy = NamespaceOf[c]
                    /\ Matches(matchLabels, Labels("prometheus", cells[c]))
    IN  \A t \in Components :
          Up(series, t) = IF /\ t # "proxy-caddy"
                             /\ Has("monitor", NamespaceOf[c], t)
                             /\ Has("service", GitpodNamespace, t)
                             /\ Has("policy", GitpodNamespace, t) => admitted
                          THEN 1 ELSE 0

-----------------------------------------------------------------------------
(* What the repository says, and the code does not do *)

\* NodeExporterReady "reports whether Prometheus is able to scrape node-exporter
\* metrics or not" (cell_types.go:73), and it is ready when one is up
\* (cell_controller.go:265): a settled Cell alone on one node scrapes it.
NodeExporterScraped ==
  \A c \in Cells : Settled(c) /\ (\A n \in Nodes : daemon[n] = c) =>
    Up(Series(c), "node-exporter") = Cardinality(Nodes)
=============================================================================
