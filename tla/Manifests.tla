------------------------------- MODULE Manifests -------------------------------
(***************************************************************************)
(* The child objects of a Cell: which objects each function of             *)
(* controllers/cell_controller.go reconciles, in which order and through   *)
(* which Go variables, and which fields of the Cell the builders in        *)
(* pkg/components read.  These are the values CellReconciler is checked    *)
(* with.                                                                   *)
(*                                                                         *)
(* An object is its component, kind, name and namespace.  Every object     *)
(* that is not Gitpod's carries the Cell's name as a suffix, which one     *)
(* Cell does not need.                                                     *)
(***************************************************************************)
EXTENDS Naturals, Sequences, SequencesExt

CONSTANTS
  Targets,       \* Gitpod components (gitpod.targets), in order
  CellNamespace  \* the Cell's own namespace

\* Cluster-scoped objects have no namespace.
ClusterScope == "-"

Object(app, kind, name, ns) ==
  [app |-> app, kind |-> kind, name |-> name, ns |-> ns]

\* The usual block: read into a variable, send that variable.
Own(o, variable) == [obj |-> o, into |-> variable, upd |-> variable]

\* The object of this kind an app has one of.
The(app, kind) ==
  Object(app, kind, app,
         IF kind \in {"ClusterRole", "ClusterRoleBinding"}
         THEN ClusterScope ELSE CellNamespace)

-----------------------------------------------------------------------------
reconcilePrometheusOperator ==
  << Own(The("prometheus-operator", "ClusterRole"), "clusterRole"),
     Own(The("prometheus-operator", "ClusterRoleBinding"), "clusterRoleBinding"),
     Own(The("prometheus-operator", "ServiceAccount"), "serviceAccount"),
     Own(The("prometheus-operator", "Service"), "service"),
     Own(The("prometheus-operator", "Deployment"), "deployment"),
     Own(The("prometheus-operator", "ServiceMonitor"), "serviceMonitor") >>

\* prometheus.Roles: the role for kube-system is commented out.
Roles ==
  << The("prometheus", "Role"),
     Object("prometheus", "Role", "prometheus-config", CellNamespace) >>

\* prometheus.RoleBindings
RoleBindings ==
  << The("prometheus", "RoleBinding"),
     Object("prometheus", "RoleBinding", "prometheus", "kube-system"),
     Object("prometheus", "RoleBinding", "prometheus-config", CellNamespace) >>

\* A RoleBinding is read and filled in, and then currentRole is sent.
BindRole(o) == [obj |-> o, into |-> "currentRoleBinding", upd |-> "currentRole"]

reconcilePrometheus ==
  << Own(The("prometheus", "ClusterRole"), "clusterRole"),
     Own(The("prometheus", "ClusterRoleBinding"), "clusterRoleBinding") >>
  \o [i \in DOMAIN Roles |-> Own(Roles[i], "currentRole")]
  \o [i \in DOMAIN RoleBindings |-> BindRole(RoleBindings[i])]
  \o << Own(The("prometheus", "ServiceAccount"), "serviceAccount"),
        Own(The("prometheus", "Service"), "service"),
        Own(The("prometheus", "ServiceMonitor"), "serviceMonitor"),
        Own(The("prometheus", "Prometheus"), "p") >>

\* The targets of the loop, and the two with a builder of their own.
AllTargets == Targets \o <<"messagebus", "proxy-caddy">>

\* gitpod.NetworkPolicies, gitpod.Services, gitpod.ServiceMonitors: the first two
\* live in the namespace the Cell names, the third beside the Cell.
NetworkPolicy(t, c) == Object("gitpod", "NetworkPolicy", t, c.gitpodNamespace)
Service(t, c) == Object("gitpod", "Service", t, c.gitpodNamespace)
ServiceMonitor(t) == Object("gitpod", "ServiceMonitor", t, CellNamespace)

reconcileGitpodMonitoring(c) ==
  LET ForEach(Block(_)) == [i \in DOMAIN AllTargets |-> Block(AllTargets[i])]
  IN  ForEach(LAMBDA t : Own(NetworkPolicy(t, c), "currentnp"))
      \o ForEach(LAMBDA t : Own(Service(t, c), "currentService"))
      \o ForEach(LAMBDA t : Own(ServiceMonitor(t), "currentServiceMonitor"))

Exporters == <<"node-exporter", "kube-state-metrics">>

\* kubernetes.ServiceMonitors
KubernetesServiceMonitors ==
  << The("kubelet", "ServiceMonitor"), The("apiserver", "ServiceMonitor") >>

\* The kube-state-metrics Deployment is read and filled in, and then daemonset,
\* node-exporter's, is sent.
KubeStateMetricsDeployment ==
  [obj  |-> The("kube-state-metrics", "Deployment"),
   into |-> "deployment", upd |-> "daemonset"]

reconcileExporters ==
  LET Both(kind, variable) ==
        [i \in DOMAIN Exporters |-> Own(The(Exporters[i], kind), variable)]
  IN  Both("ClusterRole", "currentClusterRole")
      \o Both("ClusterRoleBinding", "currentClusterRoleBinding")
      \o Both("ServiceAccount", "currentServiceAccount")
      \o Both("Service", "currentService")
      \o << Own(The("node-exporter", "DaemonSet"), "daemonset"),
            KubeStateMetricsDeployment >>
      \o [i \in DOMAIN KubernetesServiceMonitors |->
            Own(KubernetesServiceMonitors[i], "currentServiceMonitor")]
      \o Both("ServiceMonitor", "currentServiceMonitor")

\* Every request of a pass, function by function.
FullPlan(c) ==
  [po        |-> reconcilePrometheusOperator,
   prom      |-> reconcilePrometheus,
   gitpod    |-> reconcileGitpodMonitoring(c),
   exporters |-> reconcileExporters]

PlanObjects(c) ==
  UNION {{FullPlan(c)[g][i].obj : i \in DOMAIN FullPlan(c)[g]}
           : g \in DOMAIN FullPlan(c)}

LocalNames ==
  {"clusterRole", "clusterRoleBinding", "currentRole", "currentRoleBinding",
   "serviceAccount", "service", "deployment", "serviceMonitor", "p",
   "currentnp", "currentService", "currentServiceMonitor",
   "currentClusterRole", "currentClusterRoleBinding", "currentServiceAccount",
   "daemonset"}

-----------------------------------------------------------------------------
(* What the builders write *)

\* Fields of the Cell that reach an object's labels, rules or spec.  Labels(cell)
\* is in all of them but Gitpod's, whose labels are fixed.
Fields(o) ==
  CASE o.app = "gitpod" ->
         IF o.kind = "ServiceMonitor" THEN {"gitpodNamespace"} ELSE {}
    [] o.kind = "Prometheus" -> {"labels", "clusterName"}
    [] OTHER -> {"labels"}

RenderedBy(o, c) == [f \in Fields(o) |-> c[f]]

\* Deployments and the DaemonSet select their pods by Labels(cell), and the API
\* server does not let a selector change.
HasSelector(o) == o.kind \in {"Deployment", "DaemonSet"}

-----------------------------------------------------------------------------
(* What a scrape job needs to have targets *)

\* Prometheus's own access to the API server, for discovery.
PrometheusAccess ==
  {The("prometheus", k) :
     k \in {"ClusterRole", "ClusterRoleBinding", "ServiceAccount"}}

\* The exporters' proxies ask the API server who is calling.
FedBy ==
  LET Exporter(j, workload) ==
        {The(j, k) : k \in {"ClusterRole", "ClusterRoleBinding",
                            "ServiceAccount", "Service", workload}}
  IN  [j \in {"node-exporter", "kube-state-metrics", "kubelet", "apiserver"} |->
         PrometheusAccess \cup {The(j, "ServiceMonitor")} \cup
         (CASE j = "node-exporter"      -> Exporter(j, "DaemonSet")
            [] j = "kube-state-metrics" -> Exporter(j, "Deployment")
            [] OTHER -> {})]
=============================================================================
