---------------------------- MODULE CellReconciler ----------------------------
(***************************************************************************)
(* The reconciliation loop of the monitoring-cell operator                 *)
(* (controllers/cell_controller.go) for one Cell: the work queue that      *)
(* starts a pass, the pass itself, one API request at a time, and the      *)
(* cluster it acts on.                                                     *)
(*                                                                         *)
(* A pass reads the Cell from the informer cache, computes and publishes   *)
(* its status, and walks the child objects in program order.  Every read   *)
(* comes from a cache that lags behind the API server, every write goes to *)
(* the API server and is guarded by the resource version (`ver`) of the    *)
(* copy that is sent, and anything may happen between two requests.        *)
(*                                                                         *)
(* What the pass walks (Plan), what it writes there (Rendered, Selector)   *)
(* and what the scrape jobs depend on (Feeds) are parameters; Manifests    *)
(* holds their values.  Wording, logging and the manifests' other fields   *)
(* are left out.                                                           *)
(***************************************************************************)
EXTENDS Naturals, Sequences, FiniteSets

CONSTANTS
  Objs,                         \* child objects, by kind, name and namespace
  Locals,                       \* Go variables the child objects are read into
  Configs, InitConfig,          \* values of the Cell's spec and labels
  Plan,                         \* [Configs -> [Groups -> steps in code order]]
  Rendered(_, _),               \* what the builders write for (object, config)
  Selector(_, _),               \* its immutable label selector, if it has one
  Foreign, Unset,               \* content nobody rendered; no value
  PrometheusOperatorDeployment, \* the object isPrometheusOperatorReady reads
  PrometheusInstance,           \* the object isPrometheusReady reads
  Feeds,                        \* objects a scrape job needs to have targets
  Instances,                    \* targets a scrape job has in this cluster
  InitStates,                   \* clusters the operator may be started in
  Disruptions, MaxDisruptions,  \* what may go wrong, and how often (bound)
  MaxLag                        \* objects the cache may lag on at once (bound)

VARIABLES
  cell,      \* the Cell in the API server
  store,     \* the child objects in the API server
  up,        \* targets each scrape job sees up
  cellCache, \* the informer's copy of the Cell
  cache,     \* the informers' copies of the child objects
  queued,    \* the Cell's request is in the work queue
  timer,     \* the Cell's request is to be added later (retry, RequeueAfter)
  pc,        \* next request of the running pass, or "idle"
  phase,     \* function the pass is in
  at,        \* position in that function's sequence of requests
  me,        \* the pass's copy of the Cell
  loc,       \* the Go variables of that function
  left       \* disruptions left

cluster   == <<cell, store, up>>
informers == <<cellCache, cache>>
queue     == <<queued, timer>>
pass      == <<pc, phase, at, me, loc>>
vars      == <<cluster, informers, queue, pass, left>>

-----------------------------------------------------------------------------
(* Types *)

\* The functions that reconcile child objects.
Groups == {"po", "prom", "gitpod", "exporters"}

\* The scrape jobs updateCellStatus asks Prometheus about, in its order, and
\* the number of targets it expects of each.
JobOrder == <<"node-exporter", "kube-state-metrics", "kubelet", "apiserver">>
Jobs == {"node-exporter", "kube-state-metrics", "kubelet", "apiserver"}
ExpectedTargets == [j \in Jobs |->
  CASE j = "node-exporter"      -> 1
    [] j = "kube-state-metrics" -> 2
    [] j = "kubelet"            -> 3
    [] j = "apiserver"          -> 1]

\* CellStatus: one *bool per component.
FlagNames == {"po", "prom"} \cup Jobs
Flags == {"nil", "true", "false"}
Flag(b) == IF b THEN "true" ELSE "false"
Statuses == [FlagNames -> Flags]

Cells == [live : BOOLEAN, ver : Nat, config : Configs, status : Statuses]

Contents == {Rendered(o, c) : o \in Objs, c \in Configs} \cup {Foreign, Unset}
Selectors == {Selector(o, c) : o \in Objs, c \in Configs} \cup {Unset}
Children == [present : BOOLEAN, ver : Nat, content : Contents,
             sel : Selectors, avail : BOOLEAN]
Copies == [obj : Objs, child : Children]

\* The name is free; `ver` keeps counting so that no copy becomes current again.
Gone(v) == [present |-> FALSE, ver |-> v, content |-> Unset, sel |-> Unset,
            avail |-> FALSE]

\* One block "Get; Create or Update" of the code: the object, the variable it is
\* read into and the variable whose content is sent to Update.
Steps == [obj : Objs, into : Locals, upd : Locals]

\* No two steps share a variable unless both read and send it.
OwnVariables(steps) ==
  \A s \in steps, t \in steps : s.into = t.upd => s.upd = s.into

\* The two workloads are made by their functions only, and Prometheus comes last in its.
GatesLast(plan) ==
  \A g \in Groups : \A i \in DOMAIN plan[g] :
    /\ plan[g][i].obj = PrometheusOperatorDeployment => g = "po"
    /\ plan[g][i].obj = PrometheusInstance => g = "prom" /\ i = Len(plan[g])

StepsOf(c, g) == {Plan[c][g][i] : i \in DOMAIN Plan[c][g]}

ASSUME PlanAssumption ==
  /\ Plan \in [Configs -> [Groups -> Seq(Steps)]]
  /\ \A c \in Configs, g \in Groups :
       Len(Plan[c][g]) > 0 /\ OwnVariables(StepsOf(c, g))

ASSUME ClusterAssumption ==
  /\ InitConfig \in Configs
  /\ {PrometheusOperatorDeployment, PrometheusInstance} \subseteq Objs
  /\ PrometheusOperatorDeployment # PrometheusInstance
  /\ Feeds \in [Jobs -> SUBSET Objs]
  /\ Instances \in [Jobs -> Nat]
  /\ InitStates \subseteq
       [store : [Objs -> Children], up : [Jobs -> Nat], status : Statuses]

ASSUME BoundAssumption == MaxDisruptions \in Nat /\ MaxLag \in Nat

Pcs == {"idle", "fetch", "checkPO", "checkProm", "query", "publish",
        "read", "create", "update", "finish"}
Phases == Groups \cup {"status", "done"}

TypeOK ==
  /\ cell \in Cells /\ cellCache \in Cells
  /\ store \in [Objs -> Children] /\ cache \in [Objs -> Children]
  /\ up \in [Jobs -> Nat]
  /\ queued \in BOOLEAN /\ timer \in BOOLEAN
  /\ pc \in Pcs /\ phase \in Phases /\ at \in Nat \ {0}
  /\ me \in Cells \cup {Unset}
  /\ loc \in [Locals -> Copies \cup {Unset}]
  /\ left \in Nat

-----------------------------------------------------------------------------
(* The pass: control flow *)

NoLocals == [l \in Locals |-> Unset]

\* The operator starts: caches are filled, and the initial list of Cells puts each
\* of them on the queue.
Init ==
  /\ \E s \in InitStates :
       /\ cell = [live |-> TRUE, ver |-> 0, config |-> InitConfig,
                  status |-> s.status]
       /\ store = s.store /\ up = s.up
  /\ cellCache = cell /\ cache = store
  /\ queued = TRUE /\ timer = FALSE
  /\ pc = "idle" /\ phase = "status" /\ at = 1 /\ me = Unset /\ loc = NoLocals
  /\ left = MaxDisruptions

\* Something that goes wrong, at most MaxDisruptions times in a behaviour.
Disrupt(kind) == kind \in Disruptions /\ left > 0 /\ left' = left - 1

\* Writes to the API server wait while the cache lags on MaxLag other objects.
Room(o) == Cardinality({p \in Objs : cache[p] # store[p]} \cup {o}) <= MaxLag

EndPass == /\ pc' = "idle" /\ phase' = "status" /\ at' = 1
           /\ me' = Unset /\ loc' = NoLocals

\* Reconcile returns an error: the work queue adds the request again later.
FailPass == EndPass /\ timer' = TRUE

\* Mutant of After: nothing is reconciled once Prometheus is ready.
AfterUnlessReady(p, s) ==
  IF p = "status" /\ s["po"] # "true" THEN "po"
  ELSE IF p \in {"status", "po"} THEN (IF s["prom"] # "true" THEN "prom" ELSE "done")
  ELSE IF p = "prom" THEN "gitpod"
  ELSE IF p = "gitpod" THEN "exporters" ELSE "done"

\* Mutant of After: the first gate without its negation.
AfterReady(p, s) ==
  IF p = "status" /\ s["po"] = "true" THEN "po"
  ELSE IF p \in {"status", "po"} /\ s["prom"] # "true" THEN "prom"
  ELSE IF p \in {"status", "po", "prom"} THEN "gitpod"
  ELSE IF p = "gitpod" THEN "exporters" ELSE "done"

\* The function Reconcile calls after p, by the flags of the published status.
After(p, s) ==
  IF p = "status" /\ s["po"] # "true" THEN "po"
  ELSE IF p \in {"status", "po"} /\ s["prom"] # "true" THEN "prom"
  ELSE IF p \in {"status", "po", "prom"} THEN "gitpod"
  ELSE IF p = "gitpod" THEN "exporters" ELSE "done"

\* Mutant of Enter: the blocks are counted from 0.
EnterAtZero(p) == /\ phase' = p /\ at' = 0 /\ loc' = NoLocals
                  /\ pc' = IF p = "done" THEN "finish" ELSE "read"

Enter(p) == /\ phase' = p /\ at' = 1 /\ loc' = NoLocals
            /\ pc' = IF p = "done" THEN "finish" ELSE "read"

Step == Plan[me.config][phase][at]

\* On to the next block of the function, its variables being l, or to the next
\* function.
StepDone(l) ==
  IF at < Len(Plan[me.config][phase])
  THEN pc' = "read" /\ at' = at + 1 /\ loc' = l /\ UNCHANGED phase
  ELSE Enter(After(phase, me.status))

-----------------------------------------------------------------------------
(* The pass: Reconcile and updateCellStatus *)

\* A worker takes the request off the queue.
Start ==
  /\ pc = "idle" /\ queued
  /\ queued' = FALSE /\ pc' = "fetch"
  /\ UNCHANGED <<cluster, informers, timer, phase, at, me, loc, left>>

\* r.Get of the Cell; a Cell that is gone ends the pass without an error.
Fetch ==
  /\ pc = "fetch"
  /\ IF cellCache.live
     THEN pc' = "checkPO" /\ me' = cellCache /\ UNCHANGED <<phase, at, loc>>
     ELSE EndPass
  /\ UNCHANGED <<cluster, informers, queue, left>>

Running(c) == c.present /\ c.avail

\* isPrometheusOperatorReady
CheckPO ==
  /\ pc = "checkPO"
  /\ me' = [me EXCEPT !.status["po"] =
              Flag(Running(cache[PrometheusOperatorDeployment]))]
  /\ pc' = "checkProm"
  /\ UNCHANGED <<cluster, informers, queue, phase, at, loc, left>>

\* Mutant of CheckProm: the exporters are not asked about.
CheckPromOnly ==
  /\ pc = "checkProm"
  /\ me' = [me EXCEPT !.status["prom"] = Flag(Running(cache[PrometheusInstance]))]
  /\ pc' = "publish"
  /\ UNCHANGED <<cluster, informers, queue, phase, at, loc, left>>

\* isPrometheusReady; the exporters are asked about only if it is.
CheckProm ==
  /\ pc = "checkProm"
  /\ LET ready == Running(cache[PrometheusInstance]) IN
       /\ me' = [me EXCEPT !.status["prom"] = Flag(ready)]
       /\ pc' = IF ready THEN "query" ELSE "publish"
  /\ UNCHANGED <<cluster, informers, queue, phase, at, loc, left>>

\* isExporterReady: exactly the expected number of targets is up.
Query ==
  /\ pc = "query" /\ Running(store[PrometheusInstance])
  /\ LET j == JobOrder[at] IN
       me' = [me EXCEPT !.status[j] = Flag(up[j] = ExpectedTargets[j])]
  /\ IF at < Len(JobOrder)
     THEN at' = at + 1 /\ UNCHANGED pc
     ELSE at' = 1 /\ pc' = "publish"
  /\ UNCHANGED <<cluster, informers, queue, phase, loc, left>>

\* The cache says Prometheus runs, but nobody answers: the pass ends there.
QueryFails ==
  /\ pc = "query" /\ ~Running(store[PrometheusInstance])
  /\ FailPass
  /\ UNCHANGED <<cluster, informers, queued, left>>

\* The API server takes a status computed from the current version only; a
\* status that changes nothing leaves the version alone.
Publishable == cell.live /\ me.ver = cell.ver
Published ==
  [cell EXCEPT !.status = me.status,
               !.ver = IF me.status = cell.status THEN @ ELSE @ + 1]

Publish ==
  /\ pc = "publish" /\ Publishable
  /\ cell' = Published /\ me' = cell'
  /\ Enter(After("status", me.status))
  /\ UNCHANGED <<store, up, informers, queue, left>>

\* Mutant of PublishRejected: the error of the status update is only logged.
PublishRejectedLogged ==
  /\ pc = "publish" /\ ~Publishable
  /\ Enter(After("status", me.status))
  /\ UNCHANGED <<cluster, informers, queue, me, left>>

PublishRejected ==
  /\ pc = "publish" /\ ~Publishable
  /\ FailPass
  /\ UNCHANGED <<cluster, informers, queued, left>>

\* Mutant of NeedsRequeue: one flag is missing in the test.
NeedsRequeueButKSM(s) == \E f \in {"prom", "node-exporter", "kubelet", "apiserver"} :
                           s[f] # "true"

\* Reconcile's last test; PrometheusOperatorReady is not in it.
NeedsRequeue(s) == \E f \in {"prom"} \cup Jobs : s[f] # "true"

Finish ==
  /\ pc = "finish"
  /\ timer' = (timer \/ NeedsRequeue(me.status))
  /\ EndPass
  /\ UNCHANGED <<cluster, informers, queued, left>>

-----------------------------------------------------------------------------
(* The pass: one child object *)

\* Get from the cache into the step's variable; NotFound leaves it as it was.
Read ==
  /\ pc = "read"
  /\ LET c == cache[Step.obj] IN
       IF c.present
       THEN /\ loc' = [loc EXCEPT ![Step.into] = [obj |-> Step.obj, child |-> c]]
            /\ pc' = "update"
       ELSE pc' = "create" /\ UNCHANGED loc
  /\ UNCHANGED <<cluster, informers, queue, phase, at, me, left>>

Created ==
  [present |-> TRUE, ver |-> store[Step.obj].ver + 1,
   content |-> Rendered(Step.obj, me.config),
   sel |-> Selector(Step.obj, me.config), avail |-> FALSE]

CreateInStore ==
  /\ ~store[Step.obj].present /\ Room(Step.obj)
  /\ store' = [store EXCEPT ![Step.obj] = Created]

\* Mutant of Create: the pass returns after it has created an object.
CreateAndReturn ==
  /\ pc = "create" /\ CreateInStore
  /\ EndPass
  /\ UNCHANGED <<cell, up, informers, queue, left>>

Create ==
  /\ pc = "create" /\ CreateInStore
  /\ StepDone(loc)
  /\ UNCHANGED <<cell, up, informers, queue, me, left>>

\* AlreadyExists: the cache had not seen the object yet.
CreateRejected ==
  /\ pc = "create" /\ store[Step.obj].present
  /\ FailPass
  /\ UNCHANGED <<cluster, informers, queued, left>>

\* The desired fields are assigned to the variable read into, and the variable
\* the code names is sent.
Assigned ==
  [loc EXCEPT ![Step.into].child.content = Rendered(Step.obj, me.config),
              ![Step.into].child.sel = Selector(Step.obj, me.config)]
Sent == Assigned[Step.upd]

\* Mutant of Acceptable: updates without optimistic locking.
AcceptableAnyVersion ==
  /\ Sent # Unset
  /\ store[Sent.obj].present /\ store[Sent.obj].sel = Sent.child.sel

\* The API server refuses a variable nothing was read into (it has no name), an
\* object that is gone, an old version and a changed selector.
Acceptable ==
  /\ Sent # Unset
  /\ LET c == store[Sent.obj] IN
       c.present /\ c.ver = Sent.child.ver /\ c.sel = Sent.child.sel
Written ==
  LET c == store[Sent.obj] IN
    [c EXCEPT !.content = Sent.child.content,
              !.ver = IF c.content = Sent.child.content THEN @ ELSE @ + 1]

UpdateInStore ==
  /\ Acceptable /\ Room(Sent.obj)
  /\ store' = [store EXCEPT ![Sent.obj] = Written]

Update ==
  /\ pc = "update" /\ UpdateInStore
  /\ StepDone([Assigned EXCEPT ![Step.upd].child = Written])
  /\ UNCHANGED <<cell, up, informers, queue, me, left>>

\* Mutant of UpdateRejected: the error of Update is only logged.
UpdateRejectedLogged ==
  /\ pc = "update" /\ ~Acceptable
  /\ StepDone(loc)
  /\ UNCHANGED <<cluster, informers, queue, me, left>>

UpdateRejected ==
  /\ pc = "update" /\ ~Acceptable
  /\ FailPass
  /\ UNCHANGED <<cluster, informers, queued, left>>

-----------------------------------------------------------------------------
(* Requests that fail, the process that dies *)

\* A request that never reaches the other side, or a cache that has no answer.
RequestFails ==
  /\ pc \in Pcs \ {"idle", "finish"}
  /\ Disrupt("fault") /\ FailPass
  /\ UNCHANGED <<cluster, informers, queued>>

\* A write that is carried out, and whose answer is lost.
Unanswered ==
  /\ \/ pc = "publish" /\ Publishable /\ cell' = Published /\ UNCHANGED store
     \/ pc = "create" /\ CreateInStore /\ UNCHANGED cell
     \/ pc = "update" /\ UpdateInStore /\ UNCHANGED cell
  /\ Disrupt("fault") /\ FailPass
  /\ UNCHANGED <<up, informers, queued>>

\* The process dies and starts again: queue, timers and caches are rebuilt, and
\* the initial list of Cells puts each of them on the queue.
Restart ==
  /\ Disrupt("crash") /\ EndPass
  /\ queued' = cell.live /\ timer' = FALSE
  /\ cellCache' = cell /\ cache' = store
  /\ UNCHANGED cluster

-----------------------------------------------------------------------------
(* controller-runtime: informers and queue *)

\* Mutant of SyncCell: a predicate drops the events of spec changes.
SyncCellStatus ==
  /\ cellCache # cell
  /\ cellCache' = cell /\ queued' = (queued \/ cellCache.config = cell.config)
  /\ UNCHANGED <<cluster, cache, timer, pass, left>>

\* A watch event of the Cell updates the cache and queues the request.  The
\* controller watches nothing else, so a child's event only updates the cache.
SyncCell ==
  /\ cellCache # cell
  /\ cellCache' = cell /\ queued' = TRUE
  /\ UNCHANGED <<cluster, cache, timer, pass, left>>

SyncChild(o) ==
  /\ cache[o] # store[o]
  /\ cache' = [cache EXCEPT ![o] = store[o]]
  /\ UNCHANGED <<cluster, cellCache, queue, pass, left>>

TimerFires ==
  /\ timer
  /\ timer' = FALSE /\ queued' = TRUE
  /\ UNCHANGED <<cluster, informers, pass, left>>

\* The informer's periodic resync queues every Cell it knows.
Resync ==
  /\ cellCache.live /\ ~queued
  /\ queued' = TRUE
  /\ UNCHANGED <<cluster, informers, timer, pass, left>>

-----------------------------------------------------------------------------
(* The rest of the cluster *)

\* The two objects whose availability the code reads.
Workloads == {PrometheusOperatorDeployment, PrometheusInstance}

\* A replica comes up.  Only a running Prometheus Operator starts a Prometheus.
BecomesAvailable(o) ==
  /\ store[o].present /\ ~store[o].avail /\ store[o].content # Foreign
  /\ o = PrometheusInstance => Running(store[PrometheusOperatorDeployment])
  /\ Room(o)
  /\ store' = [store EXCEPT ![o].avail = TRUE, ![o].ver = @ + 1]
  /\ UNCHANGED <<cell, up, informers, queue, pass, left>>

\* Its last replica goes away.
GoesDown(o) ==
  /\ Disrupt("outage") /\ Running(store[o]) /\ Room(o)
  /\ store' = [store EXCEPT ![o].avail = FALSE, ![o].ver = @ + 1]
  /\ UNCHANGED <<cell, up, informers, queue, pass>>

\* Prometheus can discover and reach the targets of the job.
Fed(j) == /\ Running(store[PrometheusInstance])
          /\ \A o \in Feeds[j] : store[o].present /\ store[o].content # Foreign

TargetsUp(j) ==
  /\ Fed(j) /\ Running(store[PrometheusOperatorDeployment])
  /\ up[j] # Instances[j]
  /\ up' = [up EXCEPT ![j] = Instances[j]]
  /\ UNCHANGED <<cell, store, informers, queue, pass, left>>

TargetsLost(j) ==
  /\ ~Fed(j) /\ up[j] # 0
  /\ up' = [up EXCEPT ![j] = 0]
  /\ UNCHANGED <<cell, store, informers, queue, pass, left>>

\* One target stops answering for a while.
TargetDown(j) ==
  /\ up[j] > 0 /\ Disrupt("target")
  /\ up' = [up EXCEPT ![j] = @ - 1]
  /\ UNCHANGED <<cell, store, informers, queue, pass>>

\* Somebody else deletes or edits a child object.
DeleteChild(o) ==
  /\ Disrupt("delete") /\ store[o].present /\ Room(o)
  /\ store' = [store EXCEPT ![o] = Gone(@.ver + 1)]
  /\ UNCHANGED <<cell, up, informers, queue, pass>>

EditChild(o) ==
  /\ Disrupt("edit") /\ store[o].present /\ store[o].content # Foreign /\ Room(o)
  /\ store' = [store EXCEPT ![o].content = Foreign, ![o].ver = @ + 1]
  /\ UNCHANGED <<cell, up, informers, queue, pass>>

\* The user edits or deletes the Cell.
EditCell(c) ==
  /\ cell.live /\ c # cell.config /\ Disrupt("spec")
  /\ cell' = [cell EXCEPT !.config = c, !.ver = @ + 1]
  /\ UNCHANGED <<store, up, informers, queue, pass>>

DeleteCell ==
  /\ cell.live /\ Disrupt("uninstall")
  /\ cell' = [cell EXCEPT !.live = FALSE, !.ver = @ + 1]
  /\ UNCHANGED <<store, up, informers, queue, pass>>

-----------------------------------------------------------------------------
(* Specification *)

Reconcile ==
  \/ Start \/ Fetch \/ CheckPO \/ CheckProm \/ Query \/ QueryFails
  \/ Publish \/ PublishRejected
  \/ Read \/ Create \/ CreateRejected \/ Update \/ UpdateRejected \/ Finish

Failures == RequestFails \/ Unanswered \/ Restart

Informers == SyncCell \/ TimerFires \/ Resync \/ (\E o \in Objs : SyncChild(o))

Environment ==
  \/ \E o \in Workloads : BecomesAvailable(o) \/ GoesDown(o)
  \/ \E o \in Objs : DeleteChild(o) \/ EditChild(o)
  \/ \E j \in Jobs : TargetsUp(j) \/ TargetsLost(j) \/ TargetDown(j)
  \/ \E c \in Configs : EditCell(c)
  \/ DeleteCell

Next == Reconcile \/ Failures \/ Informers \/ Environment

Spec == Init /\ [][Next]_vars

\* A job whose targets come up with its objects.  node-exporter's binding names a role
\* and an account that are not those the operator makes, so where access is enforced
\* nobody can scrape it.
Sure == Jobs \ {"node-exporter"}

\* The worker keeps running, watches deliver, timers and resyncs fire, and the
\* cluster starts what can start.  Nothing that goes wrong is fair.
Fairness ==
  /\ WF_vars(Reconcile)
  /\ WF_vars(SyncCell) /\ WF_vars(\E o \in Objs : SyncChild(o))
  /\ WF_vars(TimerFires) /\ WF_vars(Resync)
  /\ \A o \in Workloads : WF_vars(BecomesAvailable(o))
  /\ \A j \in Sure : WF_vars(TargetsUp(j))
  /\ \A j \in Jobs : WF_vars(TargetsLost(j))

LiveSpec == Spec /\ Fairness
-----------------------------------------------------------------------------
(* Properties *)

\* Past updateCellStatus, the flags the pass acts on are the ones the Cell shows:
\* the gates of Reconcile (lines 92, 100, 120) never follow a status that was not
\* published, or that somebody else has since replaced.
ActsOnPublishedStatus ==
  pc \in {"read", "create", "update", "finish"} /\ cell.live =>
    cell.status = me.status

\* Reconcile dereferences the flags without a nil check (lines 92, 100, 120-124).
\* Both readiness flags are set by then, and the scrape flags whenever the
\* short-circuit evaluation of the last test gets that far.
NoNilDereference ==
  pc \in {"read", "create", "update", "finish"} =>
    /\ me.status["po"] # "nil" /\ me.status["prom"] # "nil"
    /\ me.status["prom"] = "true" => \A j \in Jobs : me.status[j] # "nil"

\* Nothing is left to start a pass, until a watch event or the resync.
Quiescent == pc = "idle" /\ ~queued /\ ~timer /\ cellCache = cell

\* The operator comes to rest only when everything its last test looks at is
\* ready: no error path, crash or lost event drops the requeue of a Cell that is
\* not.
QuiescentMeansReady ==
  Quiescent /\ cell.live =>
    \A f \in {"prom"} \cup Jobs : cell.status[f] = "true"

Desired(o) ==
  /\ store[o].present
  /\ store[o].content = Rendered(o, cell.config)
  /\ store[o].sel = Selector(o, cell.config)

\* Objects every pass reconciles, and whose own variable is the one it sends.
MaintainedFor(c) ==
  {s.obj : s \in {t \in StepsOf(c, "gitpod") \cup StepsOf(c, "exporters") :
                     t.upd = t.into}}
Maintained == MaintainedFor(cell.config)

\* Where nobody else touches the child objects, a change of the Cell is never
\* lost: the operator comes to rest only with every such object as the current
\* Cell wants it, whenever the edit fell and whatever failed meanwhile.
QuiescentMeansApplied ==
  Quiescent /\ cell.live => \A o \in Maintained : Desired(o)

\* A request of the pass changes no object but the one its block is about; the
\* two blocks that send another block's variable (lines 551 and 909) may fail,
\* but never overwrite what somebody did to that object since.
OnlyOwnObject ==
  [][\A o \in Objs : store'[o] # store[o] /\ pc' # pc => o = Step.obj]_vars

\* Every object the pass may reconcile.
PlannedObjects(c) == UNION {{s.obj : s \in StepsOf(c, g)} : g \in Groups}

\* Objects of reconcilePrometheusOperator that come after its Deployment: once that
\* runs, a pass that had failed before them is not made up for.
BehindDeployment ==
  LET steps == Plan[cell.config]["po"] IN
    {steps[k].obj : k \in {k \in DOMAIN steps :
       \E i \in 1..(k - 1) : steps[i].obj = PrometheusOperatorDeployment}}

\* In a cluster that had none of its objects, the operator comes to rest only with
\* all of them installed, whatever failed on the way; also those behind the readiness
\* gates, whose functions later passes skip (lines 92 and 100), if they come before
\* the workload that the gate asks for.
QuiescentMeansInstalled ==
  Quiescent /\ cell.live =>
    \A o \in PlannedObjects(cell.config) \ BehindDeployment : Desired(o)

\* Whatever fails on the way, everything is installed (but for the objects behind
\* the Deployment) and in the end reported ready, for good, node-exporter excepted:
\* whether that one ever answers or not, it keeps nothing else from getting there.
Installs ==
  <>[](/\ \A o \in PlannedObjects(cell.config) \ BehindDeployment : Desired(o)
       /\ \A f \in {"po", "prom"} \cup Sure : cell.status[f] = "true")

\* What other actors do to the child objects every pass reconciles is undone,
\* although the controller watches none of them, and an edit of the Cell reaches them
\* all, wherever in a pass it falls.  The two workloads behind the readiness gates come
\* back if they are deleted or go down, and the status says so in the end.
Heals ==
  <>[](/\ \A o \in Maintained : Desired(o)
       /\ store[PrometheusOperatorDeployment].present
       /\ store[PrometheusInstance].present
       /\ cell.status["po"] = "true" /\ cell.status["prom"] = "true")

-----------------------------------------------------------------------------
(* What comments of the code say, and the code does not do *)

\* Reconcile "aims to move the current state of the cluster closer to the desired
\* state" (cell_controller.go:73): it comes to rest only with all objects installed,
\* those behind the operator's Deployment, too.
QuiescentMeansComplete ==
  Quiescent /\ cell.live => \A o \in PlannedObjects(cell.config) : Desired(o)

\* Reconcile "aims to move the current state of the cluster closer to the desired
\* state" (cell_controller.go:73): an edited exporter object is restored.
ExportersRestored ==
  <>[](\A s \in StepsOf(cell.config, "exporters") : Desired(s.obj))
=============================================================================
