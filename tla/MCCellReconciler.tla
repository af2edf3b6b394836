---------------------------- MODULE MCCellReconciler ----------------------------
(***************************************************************************)
(* Small instances of CellReconciler over the objects of Manifests.        *)
(***************************************************************************)
EXTENDS CellPromise, Manifests

MCTargets == <<"server">>
MCCellNamespace == "monitoring"

\* Values of the Cell.
Base     == [labels |-> "l1", clusterName |-> "n1", gitpodNamespace |-> "default"]
Moved    == [Base EXCEPT !.gitpodNamespace = "gitpod"]
Relabelled == [Base EXCEPT !.labels = "l2"]

OneConfig == {Base}
FewConfigs == {Base, Moved}
MoveConfigs == {Base, Moved, Relabelled}
MovedConfigs == {Base, Moved}

MCRendered(o, c) == RenderedBy(o, c)
MCSelector(o, c) == IF HasSelector(o) THEN c.labels ELSE Unset

OperatorDeployment == The("prometheus-operator", "Deployment")
Prometheus == The("prometheus", "Prometheus")

\* The plan for c, restricted to some of its objects: the order, the variables and
\* the functions stay.  Written as explicit values, which TLC computes once.
PlanOf(c, Kept(_)) ==
  LET Keep(steps) == SelectSeq(steps, LAMBDA s : Kept(s.obj))
      full == FullPlan(c)
  IN c :> [po     |-> Keep(full.po),     prom      |-> Keep(full.prom),
           gitpod |-> Keep(full.gitpod), exporters |-> Keep(full.exporters)]
ObjectsOf(plan) ==
  UNION {UNION {{plan[c][g][i].obj : i \in DOMAIN plan[c][g]} : g \in Groups}
           : c \in DOMAIN plan}

\* The smallest selection that keeps every interaction: both readiness gates, both
\* blocks that send another block's variable, the object behind the operator's
\* Deployment, an object of Gitpod's, and objects that scrape jobs need.
Core(o) ==
  \/ o \in {OperatorDeployment, Prometheus,
            Object("prometheus", "Role", "prometheus-config", CellNamespace),
            Object("prometheus", "RoleBinding", "prometheus-config", CellNamespace),
            The("node-exporter", "DaemonSet"),
            The("kube-state-metrics", "Deployment"),
            The("prometheus-operator", "ServiceMonitor"),
            The("apiserver", "ServiceMonitor")}
  \/ o.app = "gitpod" /\ o.name = "server" /\ o.kind = "ServiceMonitor"

\* For edits of the Cell: also an object in the namespace that the Cell names.
Moving(o) == Core(o) \/ (o.app = "gitpod" /\ o.name = "server" /\ o.kind = "Service")

\* The two workloads, a Gitpod object that moves, and an object behind a scrape job.
Few(o) ==
  \/ o \in {OperatorDeployment, Prometheus, The("apiserver", "ServiceMonitor")}
  \/ o.app = "gitpod" /\ o.name = "server" /\ o.kind = "Service"

CorePlan == PlanOf(Base, Core)
CoreObjs == ObjectsOf(CorePlan)
MovePlan == PlanOf(Base, Moving) @@ PlanOf(Moved, Moving)
              @@ PlanOf(Relabelled, Moving)
MoveObjs == ObjectsOf(MovePlan)
MovedPlan == PlanOf(Base, Moving) @@ PlanOf(Moved, Moving)
FewPlan == PlanOf(Base, Few) @@ PlanOf(Moved, Few)
FewObjs == ObjectsOf(FewPlan)

\* The whole plan is as the proofs ask for: its variables in every function, and where
\* the gated workloads are in it.
ASSUME FullPlanFits ==
  /\ \A g \in Groups : OwnVariables(Range(FullPlan(Base)[g]))
  /\ GatesLast(FullPlan(Base))

\* Scrape jobs need the objects of theirs that the plan has.
FeedsIn(objs) ==
  LET Of(j) == j :> (FedBy[j] \cap objs)
  IN  Of("node-exporter") @@ Of("kube-state-metrics") @@ Of("kubelet")
        @@ Of("apiserver")
CoreFeeds == FeedsIn(CoreObjs)
FewFeeds == FeedsIn(FewObjs)

\* A cluster with one node, on which the counts in the code are right.
OneNode == ExpectedTargets

\* A new Cell in a cluster that has none of its objects.
Empty(objs) ==
  [store |-> [o \in objs |-> Gone(0)], up |-> [j \in Jobs |-> 0],
   status |-> [f \in FlagNames |-> "nil"]]

\* Everything was installed for c, and runs and is reported ready.
Installed(objs, c) ==
  [store |-> [o \in objs |->
     IF o \notin PlanObjects(c) THEN Gone(0)
     ELSE [present |-> TRUE, ver |-> 0, content |-> MCRendered(o, c),
           sel |-> MCSelector(o, c),
           avail |-> o \in {OperatorDeployment, Prometheus}]],
   up |-> OneNode, status |-> [f \in FlagNames |-> "true"]]

\* The same by an earlier operator, which did not have Gitpod's objects yet.
Upgraded(objs, c) ==
  [Installed(objs, c) EXCEPT !.store =
     [o \in objs |-> IF o.app = "gitpod" THEN Gone(0) ELSE @[o]]]

InstalledOrUpgradedMove == {Installed(MoveObjs, Base), Upgraded(MoveObjs, Base)}
InstalledMove == {Installed(MoveObjs, Base)}
EmptyFew == {Empty(FewObjs)}
EmptyCore == {Empty(CoreObjs)}
InstalledCore == {Installed(CoreObjs, Base)}

\* The cfg files name these: TLC evaluates the body of a definition it substitutes
\* for a constant at every use, so these bodies only name values computed once.
MCCorePlan == CorePlan
MCCoreObjs == CoreObjs
MCMovePlan == MovePlan
MCMoveObjs == MoveObjs
MCMovedPlan == MovedPlan
MCFewPlan == FewPlan
MCFewObjs == FewObjs
MCFewFeeds == FewFeeds
MCCoreFeeds == CoreFeeds
MCOneNode == OneNode
MCOperatorDeployment == OperatorDeployment
MCPrometheus == Prometheus
=============================================================================
