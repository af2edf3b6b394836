--------------------------------- MODULE MCFleet ---------------------------------
(***************************************************************************)
(* Small instances of Fleet over the objects of Manifests, which here      *)
(* carry the name of their Cell, Gitpod's excepted.                        *)
(***************************************************************************)
EXTENDS Fleet

\* The manifests of Cells in namespace ns.
Of(ns) == INSTANCE Manifests WITH Targets <- <<"server">>, CellNamespace <- ns

Named(n, o) ==
  [app |-> o.app, kind |-> o.kind, name |-> o.name, ns |-> o.ns,
   cell |-> IF o.app = "gitpod" THEN None ELSE n, labelled |-> o.app # "gitpod"]

\* One or two objects of every kind of thing that can happen to one: the gated
\* workloads; gated objects in the Cell's namespace, in another, and in none; a
\* Gitpod object in the namespace the Cell names; an object every pass makes.
Kept(o) ==
  \/ o.app = "prometheus-operator" /\ o.kind = "Deployment"
  \/ o.app = "prometheus" /\ o.kind \in {"Prometheus", "ServiceAccount", "ClusterRole"}
  \/ o.app = "prometheus" /\ o.kind = "RoleBinding" /\ o.ns = "kube-system"
  \/ o.app = "gitpod" /\ o.name = "server" /\ o.kind = "NetworkPolicy"
  \/ o.app = "kubelet"

\* The same without the objects only one of the questions is about.
Few(o) == Kept(o) /\ o.kind \in {"Deployment", "Prometheus", "NetworkPolicy", "ServiceMonitor"}

\* The two workloads and an object that Cells share.
Shared(o) == Few(o) /\ o.app # "kubelet"

PlanFor(n, s, Chosen(_)) ==
  LET full == Of(NamespaceOf[n])!FullPlan(s)
      Cut(steps) == LET kept == SelectSeq(steps, LAMBDA t : Chosen(t.obj))
                    IN [i \in DOMAIN kept |-> Named(n, kept[i].obj)]
  IN [g \in {"po", "prom", "gitpod", "exporters"} |-> Cut(full[g])]

In(ns) == [labelled |-> TRUE, gitpodNamespace |-> ns]
Unlabelled(ns) == [labelled |-> FALSE, gitpodNamespace |-> ns]

OneName == {"a"}
TwoNames == {"a", "b"}
InDefault == [n \in Names |-> "default"]

Workload(n, app, kind) ==
  Named(n, Of(NamespaceOf[n])!The(app, kind))
MCGate ==
  [n \in Names |-> [po   |-> Workload(n, "prometheus-operator", "Deployment"),
                    prom |-> Workload(n, "prometheus", "Prometheus")]]

HomeSpecs == {In("default")}
AwaySpecs == {In("gitpod")}
AllSpecs == HomeSpecs \cup AwaySpecs \cup {In(NoNamespace), Unlabelled("default")}

NeighbourSpecs == HomeSpecs \cup {In(NoNamespace), Unlabelled("default")}

Same(specs) == {[n \in Names |-> s] : s \in specs}
HomeInit == Same(HomeSpecs)
AwayInit == Same(AwaySpecs)
AllInit == Same(AllSpecs \ AwaySpecs)

\* One Cell as it should be, beside one that is too, or whose passes all fail or panic.
NeighboursInit ==
  {[n \in Names |-> IF n = "a" THEN In("default") ELSE s] : s \in Specs}

\* The plans as values computed once.
Plans(Chosen(_)) == [n \in Names |-> [s \in Specs |-> PlanFor(n, s, Chosen)]]
AllPlans == Plans(Kept)
SharedPlans == Plans(Shared)
FewPlans == Plans(Few)
ObjectsOf(plans) ==
  UNION {UNION {UNION {Range(plans[n][s][g]) : g \in {"po", "prom", "gitpod", "exporters"}}
                  : s \in Specs} : n \in Names}
AllObjects == ObjectsOf(AllPlans)
SharedObjects == ObjectsOf(SharedPlans)
FewObjects == ObjectsOf(FewPlans)

MCPlan(n, s) == AllPlans[n][s]
MCFewPlan(n, s) == FewPlans[n][s]
MCSharedPlan(n, s) == SharedPlans[n][s]
MCSharedObjs == SharedObjects
MCObjs == AllObjects
MCFewObjs == FewObjects

\* What FleetProofs asks of the Cells.
ASSUME HypothesesMet == SharersTogether /\ HomeGates
=============================================================================
