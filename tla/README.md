# Verification of the monitoring-cell operator

TLA+ specifications of the operator in this repository, the TLC runs that check
them on small instances, and proofs that hold for every instance. Paths below are
relative to the repository (`cell_controller.go` is
`controllers/cell_controller.go`).

The operator has one custom resource, the *Cell*. For each Cell it installs a
monitoring stack (Prometheus Operator, Prometheus, node-exporter,
kube-state-metrics, and the services and scrape configurations of Gitpod's own
components), and reports in the Cell's status which parts are ready.

## 1. The system

| Part | State | Operations | Interacts with |
|---|---|---|---|
| `Reconcile` (77-128) | local copy of the Cell | one pass: read the Cell, compute and publish the status, walk the children, ask for a requeue | work queue (called by), API server |
| `updateCellStatus` and checks (249-295, 443-457, 656-670, 950-963) | six `*bool` flags in `Cell.Status` | read two workloads from the cache, ask Prometheus four queries, write the status | informer caches, Prometheus (`pkg/components/prometheus/client.go`), API server |
| reconcile functions (297-441, 459-654, 672-749, 751-948) | Go variables of each function | per child: Get from the cache, then Create, or assign and Update | informer caches, API server, builders |
| builders (`pkg/components`) | none | Cell → desired object | called by the reconcile functions |
| controller-runtime (external) | work queue, timers, informer caches | watch events of Cells, retries after errors, `RequeueAfter`, resync | calls `Reconcile` |
| API server and cluster (external) | the Cell, the children, workloads, scrape targets | optimistic locking, admission of updates, availability of workloads | everything |
| garbage collector (external) | owner references of the children | collects an object whose owner is gone, or is not in its namespace | API server |
| Prometheus Operator, Prometheus, RBAC (external) | targets, series, permissions | select ServiceMonitors, Services and pods by label; scrape; check tokens | the objects the builders describe |
| manager (`main.go`) | none | start, end, leader election | starts the controller again after a panic or a crash |

What makes this system hard is that a pass is a sequence of up to two hundred requests.
Every read is answered by a cache that lags behind the API server, every write is
checked against the version that was read, and between any two requests the user,
other actors, the cluster or a crash can intervene. Nothing but the Cell
is watched (`SetupWithManager`, 244-246): progress depends on returned errors,
`RequeueAfter` and the resync. Whole functions are skipped by readiness gates
(lines 92 and 100), and two blocks send a variable of another block (551, 909).
Several Cells share one worker, Gitpod's objects, the cluster-scoped names, the nodes'
ports and the kubelet Service. Most labels are the user's: they are the selectors by
which the installed objects find one another.

What has to be right, part by part:

* the pass: acts on the status it published and never on an outdated Cell; never
  dereferences an unset flag; is repeated after every kind of failure;
* the status: agrees with the cluster when the operator is at rest;
* the children: all installed in the end, restored when somebody changes them,
  changed with the Cell, and never overwritten on the strength of an outdated copy;
* several Cells: each gets its turn, whatever another one's passes end in; they do not take
  objects or permissions from one another; a deleted Cell leaves nothing in a namespace; one
  that is created again is whole;
* the builders: objects that refer to one another agree on names, ports and labels, and
  Prometheus counts what `updateCellStatus` waits for.

`PROJECT.json` lists the components, the hazards at the line where they bite, and
which property is about which hazard.

## 2. The modules

| Module | Contents |
|---|---|
| `CellReconciler` | the loop for one Cell: queue, caches, pass, API server, cluster; its properties |
| `Manifests` | which children each function reconciles, in which order, through which Go variables, and which fields of the Cell reach them |
| `MCCellReconciler` | instances of the two for TLC |
| `LevelTriggered` | the promise: observe what is wanted, make objects fit it, rest only when all fits; and the theorem about what it is worth |
| `CellPromise` | the refinement mapping from `CellReconciler` to `LevelTriggered` |
| `Fleet` | several Cells: the work queue, owner references, the garbage collector, Cells deleted and created again, panics |
| `MCFleet` | instances of `Fleet` over the objects of `Manifests` |
| `Wiring` | what the manifests say of one another: labels, selectors, ports, series, bindings and rules |
| `MCWiring` | instances of `Wiring` |
| `CellReconcilerProofs` | theorems about `CellReconciler`: types, the published status, readiness |
| `AppliedProofs` | a pass writes its own objects only; no edit of the Cell is lost |
| `InstalledProofs` | no installation is left half done |
| `CellPromiseProofs` | the loop keeps the promise |
| `FleetProofs` | types, no inheritance, and no Cell forgotten, for any number of Cells |
| `WiringProofs` | types; each Cell's programs keep their permissions |
| `ScrapingProofs` | what Prometheus counts of a settled Cell |

The three models are of one program at three grains. `CellReconciler` has one Cell,
every request, and caches that lag. `Fleet` has several Cells and the life of the
objects, and makes a block (Get; Create or Update) one step that sees the cluster as it
is; a pass is still many steps, between which Cells are deleted, created and edited.
`Wiring` makes a pass one step and has the content of the objects. What a model
leaves out of a step, another one has: a request that fails is `RequestFails` in
the first, `PassFails` in the second.

`CellReconciler` takes what the pass walks as parameters: `Plan` (for each
configuration and each function, the sequence of blocks), `Rendered` and
`Selector` (what the builders write), `Feeds` (what a scrape job depends on).
`Manifests` holds their values, so that the proofs hold for any list of children
and the runs check the real one, or a selection of it.

### State and code

| Variable | Stands for |
|---|---|
| `cell`, `cellCache` | the Cell in the API server; the informer's copy. Spec and labels are one value `config` |
| `store`, `cache` | the children and the informers' copies: presence, version, content, immutable selector, availability |
| `up` | targets per scrape job that Prometheus sees up |
| `queued`, `timer` | the request is in the work queue; it is due to be added later (rate-limited retry or `RequeueAfter`) |
| `pc`, `phase`, `at` | the next request of the pass: function, block and call |
| `me` | the pass's `cell` variable, read at 81 and updated by the status update at 294 |
| `loc` | the Go variables of the running function (`clusterRole`, `currentRole`, `daemonset`, ...) |
| `left` | disruptions left (a bound) |

### Actions and code

| Action | Code |
|---|---|
| `Start`, `Fetch` | a worker takes the request; `r.Get` of the Cell and `IgnoreNotFound` (79-84) |
| `CheckPO`, `CheckProm` | `isPrometheusOperatorReady`, `isPrometheusReady`, both from the cache |
| `Query`, `QueryFails` | `isExporterReady` for the four jobs, in order; a query nobody answers ends the pass |
| `Publish`, `PublishRejected` | `Status().Update` (294) and its error (86-90) |
| `Read` | the `Get` of a block; `NotFound` leaves the variable as it was |
| `Create`, `CreateRejected` | `Create`; `AlreadyExists` when the cache was behind |
| `Update`, `UpdateRejected` | the assignments, and `Update` of the variable the code names. The API server refuses an empty variable (it has no name), an object that is gone, an outdated version and a changed selector |
| `Finish` | the last test (120-126) and the return |
| `RequestFails`, `Unanswered`, `Restart` | a request that does not arrive; a write whose answer is lost; the process dies |
| `SyncCell`, `SyncChild`, `TimerFires`, `Resync` | controller-runtime: only `SyncCell` queues the Cell |
| `BecomesAvailable`, `GoesDown`, `TargetsUp`, `TargetsLost`, `TargetDown` | the cluster |
| `DeleteChild`, `EditChild`, `EditCell`, `DeleteCell` | other actors and the user |

A step of the pass is one request, because between two of them anything may
happen. `After` is the order of the functions with the two gates; the gates read
the status the pass has published.

Choices of abstraction: content is what the builders make of the Cell, or
`Foreign` (somebody else's edit); the version of an object never repeats, also after a deletion (the real
resource version and UID together do the same); an update that changes nothing
leaves the version alone, as the API server does; the two ways to be added later
(rate limiter, `RequeueAfter`) are one flag, since their durations do not matter
and the queue holds a request once.

### Fleet

| Variable | Stands for |
|---|---|
| `cells` | the Cells: existence, generation (the UID), spec, and the two flags the gates read |
| `owner` | for each child, the Cell its owner reference names, or that it does not exist |
| `running` | gated workloads with an available replica |
| `queue`, `again`, `later` | the work queue, its dirty mark for the Cell being worked on, its timers |
| `who`, `pc`, `copy`, `todo` | the running pass: its Cell, where it is, its copy of the Cell, the blocks it has left |

`Start`, `Fetch`, `Publish`, `Block` and `Finish` are `Reconcile`; `Publish` computes
the two gates, publishes them and fixes the blocks that remain. `Panic` is `Labels(cell)`
on a Cell without labels: the write into a nil map ends the process, and `Reborn` is the
next one, which lists the Cells in any order (`Listings`). `Write` is what the code does with owner
references: a new object gets the one its builder wrote (`CreatedBy`), an update leaves
them alone. `Collect` is the garbage collector: an owner is looked up by UID in the
object's own namespace; a cluster-scoped object with such an owner is left alone.
The children are those of `Manifests` with the name of their Cell, Gitpod's excepted,
which carry none.

### Wiring

A pod, Service, ServiceMonitor or binding is what the others see of it. Label maps are built
with `Label` and `++`, which are `:>` and `@@` of the TLC module written as functions, because
the provers do not know those two. `Labels`
replaces the name and keeps the user's other labels, `Matches` is a label selector,
`SeriesOf` the series Prometheus has of a monitor and a Service: one per set of labels, so
that pods and Services are told apart unless a relabelling drops what tells them apart
(kube-state-metrics' `https-main`). `wrote` keeps, for each kind of object, the labels
it was last written with, because the gates, and the selectors that may not change, let
them fall apart after an edit. `binding` has the ClusterRoleBindings, by app and name of
the Cell, as any number of Cells writes them; they outlive the Cell. `gitpod` has the owner of
each object that Cells share because its name has no Cell's in it (`GitpodObjects`): the
NetworkPolicies and Services beside Gitpod's components, one set for all Cells, and the
ServiceMonitors beside the Cells, one set for each namespace. A pass makes those of its own
(`GitpodOf`) that are absent
and leaves the owners of the others; the owner is the Cell, or `Nobody` when the Cell is in
another namespace (`GitpodOwner`), as it is when the Cell has been deleted. `Collect` takes
what nobody owns, one object at a time and whenever it likes, also from under a Cell at
rest. `policy` is the namespace that the NetworkPolicies which are there
admit, that of the Cell reconciled last. A pod of Gitpod's carries the labels that its
NetworkPolicy and its Service select by, which differ for the message bus; while no
NetworkPolicy selects it, it is open to everybody (`Admits`). `ready` are the
workloads whose gate is closed, `daemon` who has a node's port 9100.
What the programs need (`RunsPrometheus`, `Scrapes`, `Asks`) is external: the
requests Prometheus Operator, Prometheus and kube-rbac-proxy make to do their work.

## 3. The runs

Twelve runs, each for a question of its own. Runs of `MCCellReconciler` (`Core` is the
smallest selection of children that keeps every interaction: both gated workloads, the
two blocks that send another block's variable together with the block whose variable they
send, the object behind the operator's Deployment, the objects a scrape job needs, and a
Gitpod object; `Moving` has one more, in the namespace the Cell names. The order of the
blocks is that of the code):

| Run | Checks | Shows |
|---|---|---|
| `Safety` | `ActsOnPublishedStatus`, `NoNilDereference`, `QuiescentMeansReady` | an installation from nothing of four children, with an edit of the Cell (namespace), its deletion, a failed or unanswered request or a crash at any moment |
| `Edits` | `TypeOK`, `QuiescentMeansApplied`, `KeepsPromise` | a Cell that this operator installed, or an earlier one without Gitpod's objects, with any three of: edits of labels or namespace, deletion, failures, crashes: no edit is lost, and every step of the loop is a step of `LevelTriggered` or none |
| `Install` | `QuiescentMeansInstalled`, `Installs` | from an empty cluster, with one failure or crash anywhere: the operator never rests on a half-made installation (but for `BehindDeployment`), and in the end all is installed and five of the six flags are true for good; the sixth is node-exporter's, whose targets may come up and need not (finding 5) |
| `Heal` | `Heals`, `OnlyOwnObject` | one deletion or edit of a child, edit of the Cell, outage, lost target, failure or crash anywhere in an installed cluster: what every pass reconciles is as the Cell wants it in the end, and no write falls on another object than its block's |
| `PartialInstall` | `QuiescentMeansComplete` violated | finding 1 |
| `EditedDeployment` | `ExportersRestored` violated | finding 2 |

Runs of `MCFleet`:

| Run | Checks | Shows |
|---|---|---|
| `Recreate` | `TypeOK`, `RestsWhole`, `NoHeir`, `LeavesNothing`, `Restored` | one Cell, three of: deletion, creation, an edit (another Gitpod namespace, none, or no labels, which panics every pass), failure, crash, at any step of any pass, with a garbage collector that comes at any time: no edit is forgotten, nothing is inherited or left behind, and a Cell that has labels and a namespace again is whole again |
| `Fleet` | `RestsWhole`, `Restored`, `Settles` | two Cells, the objects they share and their workloads; the second Cell may have no labels, which panics every pass, or no namespace, which fails every pass; with one deletion, edit, failure or crash: no Cell is forgotten, the sound Cell is whole in the end although the other one is never mended, and the objects come to rest while passes go on |
| `RecreatedCell` | `PrometheusComplete` violated | finding 3 |
| `OtherNamespaces` | `OtherNamespacesServed` violated | finding 4 |

Runs of `MCWiring`:

| Run | Checks | Shows |
|---|---|---|
| `Neighbours` | `TypeOK`, `CountsFit`, `OwnRights`, `GitpodScraped` | three Cells in two namespaces on two nodes, labelled, relabelled (three sets of labels, none of which contains another) and deleted, and a garbage collector that takes Gitpod's Services, ServiceMonitors and NetworkPolicies one by one: which counts Prometheus reports, that a neighbour whose objects agree on their labels adds to kube-state-metrics' and to nothing else, that permissions hold, and which Gitpod component a settled Cell scrapes under which job |
| `NodeExporterRole` | `NodeExporterScraped` violated | finding 5 |

`RestsWhole` says that no event, retry or restart is lost: a Cell of which no pass is running,
queued or due has both its workloads and all that every pass makes in its namespace. It speaks
of behaviours in which nobody has deleted a Cell (`Undeleted`), and is not true of others: Cells
that shared objects with a deleted one lose them and hear of it with the next resync only.
`Settles` is about Cells in one namespace with Gitpod: where an object's owner is elsewhere,
every pass makes it and the collector takes it again (finding 4).
The assumptions `HypothesesMet` of `MCFleet` and `MCWiring`, evaluated with their runs, say that
the instances are ones the theorems of section 5 are about.

The assumption `FullPlanFits` of `MCCellReconciler` is evaluated with each of its runs: it
says of the whole plan (40 objects, with one Gitpod target for the eighteen), not of a
selection, what the proofs ask of a plan (section 5).

`Safety`, `Edits`, `Recreate`, `Fleet` and `Neighbours` turn the deadlock check off, because
after the Cells' deletion the operator stops; in the others the resync, or a pass, keeps
steps coming.
`Safety` has few children because an installation interleaves with the targets of four jobs
coming up; `Edits` starts where they are up, and affords all the children of interest and
three disruptions.

### Bounds

* `MaxDisruptions = 1` (3 in `Edits` and `Recreate`, 2 in `RecreatedCell`): things that go
  wrong per behaviour, at any moment of it. Each finding needs one or two; the theorems of
  section 5 are for any number.
* `MaxLag = 1`: a write waits while the cache lags on another object
  than the one it writes. The pass reads objects one at a time, so the cases that matter
  (the cache behind on the object a block is about, or on a gated workload) happen; what
  is left out is a cache behind on several objects at once.
* `Targets = <<"server">>`: of the eighteen Gitpod targets that share their builders, beside
  the two that have their own. In `Wiring`, `Components` has the message bus only, the one whose
  NetworkPolicy and Service ask for different labels; the theorem is about any of them.
* Two or three values of the Cell: one that moves the Gitpod namespace, one that changes the
  labels (and with them the immutable selectors).
* One worker, which is controller-runtime's default.
* In `Fleet`, one or two objects of each kind of fate: gated workloads, gated objects in
  and outside the Cell's namespace, a Gitpod object, an object every pass makes (`Kept`; `Few`
  and `Shared` are selections of it). Two Cells are enough for one to be in the other's way;
  the theorems are for any number.
* In `Wiring`, `MaxEdits = 3`: enough to create three Cells, or to create two and relabel or
  delete one. Two nodes, so that the counts that grow with the nodes differ from those that do
  not, and two Cells' node-exporters can share them. The nodes are symmetric, and so are the two
  Cells in Gitpod's namespace: they are interchangeable in the definitions, and no property
  names one.

### Fairness

`LiveSpec` asks for weak fairness of: the pass as a whole (`Reconcile`; the worker
keeps running and a request is answered in the end), the delivery of watch events, timers,
the resync (the manager uses the default `SyncPeriod`), and the cluster starting
workloads and discovering targets whose requirements are met (`Sure`: all but node-exporter's,
whose proxy's binding names a role and an account that nobody makes, so that its targets may
come up, where nothing enforces RBAC, and need not). Nothing that goes
wrong is fair. The pass is one fair action and not one per step because the steps of
a pass exclude one another.

`Fleet` asks the same of the worker, the timers, the resync and the cluster, and of the
garbage collector, which re-examines what it has found collectable. The worker is fair as
such, not for each Cell. One thing can keep a Cell from the worker for ever: another one
without labels, whose every pass panics, if after each restart it is the first in the queue.
The queue of a new process has the order of the informer's first listing, which iterates over a
Go map and is drawn anew each time, so each Cell comes first now and then: strong fairness
of `PanicBefore`. `Restored` fails in the run `Fleet` without it. `Wiring` states
safety only and asks for none.

## 4. Findings

1. **A partial installation is never completed** (`PartialInstall`, line 92). When
   a request fails after the Prometheus Operator's Deployment was created and before its
   ServiceMonitor, later passes skip the function because the Deployment is ready. In the trace
   the operator rests then, which takes node-exporter's flag to be true; where finding 5
   keeps it false, the passes go on and skip the function all the same. So it is with finding 3.
2. **The kube-state-metrics Deployment is never updated** (`EditedDeployment`,
   line 909): the block sends `&daemonset`. Line 551 does the same to RoleBindings.
3. **A Cell created again may lose its Prometheus's objects** (`RecreatedCell`, line 100):
   the gate reads the old Cell's Prometheus, and the objects the pass has skipped go with the
   old Cell.
4. **What a Cell has in other namespaces does not last** (`OtherNamespaces`,
   `prometheus/rolebindings.go:19`): its owner is in another namespace, so it is collected.
   That is the RoleBinding in kube-system (which refers to a Role that is commented out,
   `prometheus/roles.go:17-19`), and all of Gitpod's objects if Gitpod is elsewhere.
5. **node-exporter is never scraped** (`NodeExporterRole`,
   `node-exporter/clusterrolebinding.go:33`): its binding names a role and an account that
   do not exist, so its proxy may not check who is calling.

Because of finding 5 `Installs` says nothing of node-exporter's flag: on a cluster that
enforces RBAC it is never true, the requeues never end and the operator does not rest. The
invariants about an operator at rest (`QuiescentMeans...`) are about the other clusters,
and about what the last test would let rest.

The properties that hold make exceptions, and the exceptions are behaviour too:

* While Prometheus is ready nothing behind its gate follows the Cell, a new cluster
  name included, although `cell_types.go:32` says it is added to all metrics (`Maintained`
  has no such object).
* The scrape flags keep their last value while Prometheus is away (line 264: `Heals` speaks
  of the two other flags), and after an outage that is over the operator's own flag may
  rest at false until the resync (line 120: `QuiescentMeansReady` leaves it out).
* Readiness is an exact count, and the kubelets' grows with the nodes (`CountsFit`: three
  per node): a Cell on two nodes is never ready (line 265).
* kube-state-metrics is counted more than the two times that line 265 waits for when another
  Cell is in the namespace, since Prometheus takes its monitors, too (`Watched`). `CountsFit`
  claims this of a neighbour whose objects agree on their labels (`Uniform`): one that was
  relabelled and stopped at its DaemonSet (line 885) has a Service with new labels before pods
  and monitors with old ones, and may add nothing.
* With a label `component: server` on a Cell beside Gitpod, its exporters' pods are among those the Service of
  that Gitpod component selects, and the NetworkPolicies close them to Prometheus: the counts are
  wrong. The theorems about counts ask for Cells without a label `component` (`PlainLabels`).
* An edit of the Cell's labels changes the selector of the DaemonSet, which may not
  change, so every pass ends there and nothing behind it follows (line 885). The loop does not
  rest then, which is how `QuiescentMeansApplied` holds, and `Heals` has no such edit.
* A Cell without `gitpodNamespace`, an optional field, has no exporters (line 108), and one
  without labels panics the operator (`prometheus-operator/constants.go:14`), again after each
  restart, and with it the work for every other Cell (`Restored` asks for both).
* Cells of one name in two namespaces share permissions: cluster-scoped names lack the
  namespace, so the last writer is the only subject (`OwnRightsKept` asks for `UniqueNames`).
* Gitpod's NetworkPolicies admit the namespace of the Cell that was reconciled last only, and
  ask for `app.kubernetes.io/component=prometheus`, which only the Cell's own labels could
  give its Prometheus; those of the sample do not. Where a NetworkPolicy is gone, its component
  is open to every Prometheus; where a Service or a ServiceMonitor is gone, the component is not
  scraped. All three go with the Cell that made them, the first two at once if that Cell is in
  another namespace, and other Cells at rest make them again at the next resync only
  (`GitpodScraped`).
* The Service of Gitpod's Caddy proxy calls its port `caddy-metrics` and its ServiceMonitor
  asks for `metrics`: this one component is never scraped (`GitpodScraped`).

Noticed, and not modelled: the Service of Prometheus itself selects by a
`created-by` label that only the Cell's own labels can provide, as the sample's do; the
operator's generated role lacks roles, role bindings, network policies, daemon sets and
`pods/proxy` (`cell_controller.go:61-71`).

## 5. The proofs

Eight modules prove the theorems below for every value of the constants: plans,
clusters, numbers of Cells, disruptions, and lag.

**The loop.** These theorems assume the three named assumptions of `CellReconciler`:
the parameters have their types, every function has at least one block, the two
gated workloads differ, and no two blocks share a variable unless both read and
send it (`OwnVariables`, which the two odd blocks meet). TLC evaluates the
assumptions on every run, and in `FullPlanFits` what depends on the plan for the plan of
all the objects.

* `TypeCorrect`: `Spec => []TypeOK`. Types alone are not inductive: that `Step`
  is defined, and that the variable to be filled in holds a copy, depends on the
  program counter. `Inv` adds `Control`: the position is within the plan of the
  configuration the pass has read, a pass past `Fetch` holds a Cell, and a pass about to
  update holds a copy of the object it is about. One lemma per group of actions.
* `StepKinds` then sorts the steps once, so that the other theorems need not look at
  every action: a step of the status part, a step that proceeds within the children, a
  pass that fails, a restart, or the background.
* `PublishedStatusActedOn`: `ActsOnPublishedStatus` is inductive on top of `Inv`.
  `Publish` establishes it, and nobody but the pass writes the status.
* `NoNilDereferenced`: `Asked` says how many flags `updateCellStatus` has set at each
  point.
* `RestsOnlyWhenReady`: needs `PublishedStatusActedOn` (what `Finish` tests is
  what the Cell shows) and `CacheBehind`, that the cached Cell is no newer than
  the Cell: a change of the Cell therefore leaves the cache outdated, and the event that
  repairs that queues the request.
* `OnlyOwnObjectChanged`: `OnlyOwnObject` as an action property. What makes it
  true is optimistic locking, so the invariant `CopiesCurrent` relates every copy to the
  object: a copy in a cache, or in a variable that some block of the running function sends, is
  never newer than the object, and equal to it if it has its version. A block that sends
  another block's variable (551, 909) can thus write only what is already there; one that
  sends its own variable names its own object.
* `RestsOnlyWhenApplied`: `Spec => []QuiescentMeansApplied`, under the hypothesis
  `Undisturbed` that nobody else deletes or edits child objects (drift is undone too, but
  by the next pass only, which is what `Heals` is about). `Applied` has three parts: what the
  running pass has walked is as the configuration it has read wants it (`WalkedDone`); that
  configuration is the Cell's, or another pass is due, or the Cell is deleted
  (`PassCurrent`); and the same of an idle operator and all maintained objects
  (`RestDone`). `DoneKept`, that no step spoils an object that is as wanted, needs
  `CopiesCurrent` for the blocks that send another variable.
* `RestsOnlyWhenInstalled`: `Spec => []QuiescentMeansInstalled`, where nobody else touches the
  objects and the Cell stays as it is (`Untouched`), the cluster starts with none of them
  (`FromNothing`), and the two gated workloads are made by their own functions only,
  Prometheus as the last of its function (`GatesFit`, which `FullPlanFits` checks for the
  real plan; what comes after the operator's Deployment is left out of the property). Failures, crashes
  and lost answers are allowed without number. The gates are what makes
  it hard: a pass may skip a whole function. `Gated` says that a gated workload exists only
  after everything its gate is about, since the block that makes it comes last; `Closed`
  that a status which closes a gate was read from a workload that exists, through a
  cache that never shows what is not there (`Seen`); `Progress` that whatever the running
  pass has been through, or was led past, is there.

**The promise.** `ImplementsPromise` is `Spec => KeepsPromise`, under `Undisturbed`: the loop
implements `LevelTriggered` through the mapping of `CellPromise`. `wanted` is the live
Cell's configuration, `working` what the pass has read, `fit` which configurations an object is as
wanted for, and `due` whether the request is in the queue, on its way to it, or with a
worker that has not read the Cell yet. Three facts make it go through: a pass that works
for an outdated configuration leaves the cache behind the Cell, so another pass is due
(`CellCopies`); a write makes its own object fit and no other (`OnlyOwnObjectChanged`); and
a pass that rests has walked all that `Needs` asks for (`Applied`). `RestsOnlyFitting`
(`RestsFitting` is inductive on top of the types) says what an implementation of the
promise is worth.

**Fleet**, under `FleetAssumption` (the parameters have their types).
* `FleetTypeCorrect`: the type invariant is inductive; the listings need
  that finitely many Cells have a finite sequence.
* `FleetNoHeir`: needs `Genealogy` (`GenealogyKept`), that no owner reference, in an object or in the copy
  of the running pass, is younger than its Cell. A pass for a Cell that was deleted and
  created again meanwhile still writes the old UID.
* `FleetRestsWhole`: `Spec => []RestsWhole`, for Cells that share objects of a namespace only
  with Cells of that namespace (`SharersTogether`) and whose Prometheus is started by their own
  operator beside it (`HomeGates`). The first is needed: where a Cell elsewhere has made a shared
  object first, the garbage collector takes it away and no pass is due for it (TLC
  finds this with two Cells in two namespaces and Gitpod in one of them). `RestsWhole` is not
  inductive, and `RestInv` adds what a running pass knows: what it has been through is there,
  and Prometheus runs if it has published so (`Trodden`); its copy is the Cell as it is, or the
  Cell has been added meanwhile (`CopyNow`); no Prometheus runs without its operator
  (`OperatorFirst`); and every owner reference is of a Cell that makes that object (`Planted`), so
  that, with `Genealogy`, nothing of an undeleted Cell is collectable (`Kept`). `NotForgotten`
  goes through all steps: a Cell of which no pass is due was in that state before, as it is now
  written, or its pass has just ended well and nothing was added meanwhile.

**Wiring**, under `WiringAssumption` (a binding, an account and a label map are not `None`).
* `WiringTypeCorrect`: `Spec => []TypeOK`, from `WiringInv`, which adds that a Cell's labels were
  written to all kinds of objects or to none (`Whole`) and that no Prometheus runs without the
  Cell's operator, which starts it (`Chain`).
* `OwnRightsKept`: `Spec => []OwnRights` where no two Cells have the same name
  (`UniqueNames`, which is needed: two such Cells write the same binding). That a Cell's
  accounts have their rights is not inductive, since a closed gate keeps a pass from writing a
  binding: `Bound` says that all its bindings are in place once it has made its workloads, and
  the types that no gate closes before. `RolesSuffice` then compares the rules with the needs.

**Scraping**, under `ScrapingAssumption` (finitely many Cells and nodes; no component of
Gitpod's has the name of another job, nor the name `proxy`, which is Caddy's label), and for
Cells of different names (`UniqueNames`) without a label `component` (`PlainLabels`).
* `CountsAlwaysFit`: `Spec => []CountsFit`, and `GitpodAlwaysScraped`: `Spec => []GitpodScraped`,
  for any number of Cells, nodes and components and any labels, wherever Gitpod runs and
  whatever the collector has taken. On top of `WiringInv` and `Bound`
  (a settled Cell's Prometheus may scrape, kube-state-metrics' proxy may ask who is calling, and
  node-exporter's may not) the proofs go
  job by job: which Services a monitor discovers, which pods these offer, and so which set
  `OfJob` is; then its cardinality, of a bijection with the nodes for the kubelets. That nothing
  else has the job is the longer half: the labels that the exporters take from the user must not
  make them pods of another Service, which is where `PlainLabels` comes in. For a component of
  Gitpod's, `Admission` says whom its pod lets in: that no policy but its own selects it is where
  the assumption about names comes in.

Every invariant that a passing run checks is thus a theorem, and so is every action property.
Only model-checked are the liveness properties (`Installs`, `Heals`, `LeavesNothing`, `Restored`,
`Settles`), which need fairness and are out of the prover's reach; and the
findings, which are counterexamples.

## 6. Not modelled

* Of the manifests: images, arguments, resources, security contexts, drop lists; the
  Services and monitors of Prometheus and its operator themselves, whose series no flag
  waits for.
* Two managers at a time (leader election off), flags and probes of `main.go`; a Pod
  client that could not be built (`main.go:99-102`).
* Which of the operator's own requests its role allows: any request may fail.
* Durations: ten-second requeues, back-off, the resync period.
* Generated code, YAML, the unused client functions (`Metadata`, `Targets`, and
  `apiRequest`, which serves them) and the indexes nobody queries (131-242).

## 7. Possible extensions

1. Two managers, each with its own caches, over one API server: the writes of another
   pass in place of `EditChild`.
2. Scraping and passes in one model, so that the counts of `Wiring` drive the queries of
   `CellReconciler`.
