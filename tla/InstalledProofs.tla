---------------------------- MODULE InstalledProofs ----------------------------
(***************************************************************************)
(* An installation is never left half done: in a cluster that had none of  *)
(* the Cell's objects, where nobody but the operator touches them, the     *)
(* operator rests only when all of them are there, those behind the        *)
(* readiness gates too.                                                    *)
(***************************************************************************)
EXTENDS AppliedProofs

\* Nobody but the operator writes child objects, and the Cell stays as it is.
Untouched == Disruptions \cap {"delete", "edit", "spec", "uninstall"} = {}

\* The operator is started in a cluster that has none of the objects.
FromNothing == \A s \in InitStates, o \in Objs : ~s.store[o].present

BlocksOf(g) == Plan[InitConfig][g]

\* The gates hide what comes before the workloads they ask for, and nothing else.
GatesFit == GatesLast(Plan[InitConfig])

\* Objects of prometheus-operator behind its Deployment.
Behind ==
  {BlocksOf("po")[k].obj : k \in {k \in DOMAIN BlocksOf("po") :
     \E i \in 1 .. (k - 1) : BlocksOf("po")[i].obj = PrometheusOperatorDeployment}}

Required(g) == {s.obj : s \in StepsOf(InitConfig, g)} \ Behind

Made(g) == \A o \in Required(g) : store[o].present

-----------------------------------------------------------------------------
(* The inductive invariant *)

\* The Cell stays as it is, for the pass and the cache, too.
Steady ==
  /\ cell.live /\ cell.config = InitConfig
  /\ cellCache.live /\ cellCache.config = InitConfig
  /\ pc \notin {"idle", "fetch"} => me.config = InitConfig

\* What is there is as wanted, and what the caches have is there.
Fresh == \A o \in Objs : store[o].present => Done(o, InitConfig)
Seen  == \A o \in Objs : cache[o].present => store[o].present

\* Each workload is made after everything the gate it closes is about.
Gated ==
  /\ store[PrometheusOperatorDeployment].present => Made("po")
  /\ store[PrometheusInstance].present => Made("prom")

\* A gate is closed only by a workload that is there.
Closed ==
  /\ pc \notin {"idle", "fetch", "checkPO"} /\ me.status["po"] = "true" =>
       store[PrometheusOperatorDeployment].present
  /\ pc \notin {"idle", "fetch", "checkPO", "checkProm"} /\ me.status["prom"] = "true" =>
       store[PrometheusInstance].present

\* What the pass has been through is there, or was left out behind a closed gate.
Progress ==
  pc \in Acting \cup {"finish"} =>
    /\ phase # "po" => Made("po")
    /\ phase \notin {"po", "prom"} => Made("prom")
    /\ phase \in {"exporters", "done"} => Made("gitpod")
    /\ phase = "done" => Made("exporters")
    /\ pc \in Acting => \A s \in Walked : store[s.obj].present
    /\ pc = "update" => store[Step.obj].present
    /\ pc = "finish" => phase = "done"

Resting ==
  pc = "idle" => queued \/ timer \/ \A g \in Groups : Made(g)

Installing == Steady /\ Fresh /\ Seen /\ Gated /\ Closed /\ Progress /\ Resting

-----------------------------------------------------------------------------
(* The Cell *)

LEMMA StatusOnly ==
  ASSUME NEW c \in Cells, NEW f \in FlagNames, NEW v, NEW d,
         d = [c EXCEPT !.status[f] = v]
  PROVE  d.config = c.config
BY DEF Cells

LEMMA SteadyStep ==
  ASSUME Untouched, Inv, Steady, [Next]_vars
  PROVE  Steady'
<1>1. cell \in Cells /\ (pc \notin {"idle", "fetch"} => me \in Cells)
  BY DEF Inv, TypeOK, Control
<1>2. /\ Published.live = cell.live /\ Published.config = cell.config
  BY <1>1 DEF Published, Cells
<1>3. CASE Start \/ Fetch \/ Finish \/ Failed \/ Restart
  BY <1>2, <1>3
  DEF Start, Fetch, EndPass, Finish, Failed, FailPass, Restart, cluster, informers,
      Steady
<1>4. CASE CheckPO \/ CheckProm \/ Query
  <2>1. me'.config = me.config /\ pc \notin {"idle", "fetch"}
    BY <1>1, <1>4 DEF CheckPO, CheckProm, Query, Cells
  <2> QED
    BY <1>4, <2>1 DEF CheckPO, CheckProm, Query, cluster, informers, Steady
<1>5. CASE Publish
  BY <1>2, <1>5 DEF Publish, informers, Steady
<1>6. CASE Proceeds
  BY <1>6 DEF Proceeds, Acting, Steady
<1>7. CASE Background
  <2>1. ~DeleteCell /\ \A c \in Configs : ~EditCell(c)
    BY DEF Untouched, DeleteCell, EditCell, Disrupt
  <2>2. UNCHANGED pass
    BY <1>7 DEF Background
  <2>3. /\ cell'.live = cell.live /\ cell'.config = cell.config
        /\ cellCache' = cellCache \/ cellCache' = cell
    <3>1. CASE Informers \/ UNCHANGED vars
      BY <3>1
      DEF Informers, SyncCell, SyncChild, TimerFires, Resync, cluster, informers, vars
    <3>2. CASE Environment
      BY <2>1, <3>2
      DEF Environment, BecomesAvailable, GoesDown, DeleteChild, EditChild, TargetsUp,
          TargetsLost, TargetDown, informers
    <3>3. CASE Failures \/ Reconcile
      <4>1. cell' = cell \/ cell' = Published
        BY <3>3
        DEF Failures, RequestFails, Unanswered, Restart, Reconcile, Start, Fetch,
            CheckPO, CheckProm, Query, QueryFails, Publish, PublishRejected, Read,
            Create, CreateRejected, Update, UpdateRejected, Finish, cluster
      <4>2. cellCache' = cellCache \/ cellCache' = cell
        BY <1>7 DEF Background, CellChanges, Queued
      <4> QED
        BY <1>2, <4>1, <4>2
    <3> QED
      BY <3>1, <3>2, <3>3 DEF Next
  <2> QED
    BY <2>2, <2>3 DEF Steady, pass
<1> QED
  BY <1>3, <1>4, <1>5, <1>6, <1>7, StepKinds

-----------------------------------------------------------------------------
(* Objects stay *)

LEMMA OthersAway == Untouched => Undisturbed
BY DEF Untouched, Undisturbed

LEMMA ThereKept ==
  ASSUME Untouched, Inv, CopiesCurrent, Steady, Fresh, [Next]_vars,
         NEW o \in Objs, store[o].present
  PROVE  store'[o].present /\ Done(o, InitConfig)'
<1>1. Done(o, InitConfig)
  BY DEF Fresh
<1>2. pc \in Acting => InitConfig = me.config
  BY DEF Steady, Acting
<1>3. InitConfig \in Configs
  BY ClusterAssumption
<1>4. Done(o, InitConfig)'
  BY <1>1, <1>2, DoneKept, OthersAway
<1> QED
  BY <1>4 DEF Done

\* An object appears only by the block that is about it.
LEMMA Appears ==
  ASSUME Untouched, Inv, Steady, [Next]_vars,
         NEW o \in Objs, ~store[o].present, store'[o].present
  PROVE  /\ pc = "create" /\ CreateInStore /\ o = Step.obj
         /\ Done(o, InitConfig)'
<1>1. store \in [Objs -> Children]
  BY DEF Inv, TypeOK
<1>2. CASE pc = "create" /\ CreateInStore
  <2>1. o = Step.obj /\ store'[o] = Created
    BY <1>1, <1>2, CreatedType DEF CreateInStore
  <2>2. me.config = InitConfig
    BY <1>2 DEF Steady
  <2> QED
    BY <1>2, <2>1, <2>2 DEF Created, Done
<1>3. CASE pc = "update" /\ UpdateInStore
  <2>1. Sent.obj \in Objs /\ store' = [store EXCEPT ![Sent.obj] = Written]
    BY <1>3, WrittenGrows DEF UpdateInStore
  <2>2. Written.present = store[Sent.obj].present
    BY <1>1, <2>1 DEF Written, Children
  <2> QED
    BY <1>1, <2>1, <2>2
<1>4. ASSUME NEW p \in Workloads, BecomesAvailable(p) \/ GoesDown(p)
      PROVE  FALSE
  <2>1. PICK d \in Children :
          /\ p \in Objs /\ store' = [store EXCEPT ![p] = d]
          /\ d.present = store[p].present
    BY <1>4, AvailabilityChanged
  <2> QED
    BY <1>1, <2>1
<1>5. ~ \E p \in Objs : DeleteChild(p) \/ EditChild(p)
  BY DEF Untouched, DeleteChild, EditChild, Disrupt
<1> QED
  BY <1>2, <1>3, <1>4, <1>5, StoreKinds

LEMMA FreshStep ==
  ASSUME Untouched, Inv, CopiesCurrent, Steady, Fresh, [Next]_vars
  PROVE  Fresh'
<1> SUFFICES ASSUME NEW o \in Objs, store'[o].present
             PROVE  Done(o, InitConfig)'
  BY DEF Fresh
<1> QED
  BY Appears, ThereKept

\* A step of the caches.
LEMMA CacheCatchesUp ==
  ASSUME Inv, [Next]_vars, NEW o \in Objs
  PROVE  cache'[o] = cache[o] \/ cache'[o] = store[o]
<1>1. ASSUME NEW p \in Objs, SyncChild(p)
      PROVE  cache'[o] = cache[o] \/ cache'[o] = store[o]
  BY <1>1 DEF SyncChild, Inv, TypeOK
<1>2. CASE Reconcile \/ Failures
  BY <1>2
  DEF Reconcile, Start, Fetch, CheckPO, CheckProm, Query, QueryFails, Publish,
      PublishRejected, Read, Create, CreateRejected, Update, UpdateRejected, Finish,
      Failures, RequestFails, Unanswered, Restart, informers
<1>3. CASE SyncCell \/ TimerFires \/ Resync \/ UNCHANGED vars
  BY <1>3 DEF SyncCell, TimerFires, Resync, informers, vars
<1>4. CASE Environment
  BY <1>4
  DEF Environment, BecomesAvailable, GoesDown, DeleteChild, EditChild, TargetsUp,
      TargetsLost, TargetDown, EditCell, DeleteCell, informers
<1> QED
  BY <1>1, <1>2, <1>3, <1>4 DEF Next, Informers

LEMMA SeenStep ==
  ASSUME Untouched, Inv, CopiesCurrent, Steady, Fresh, Seen, [Next]_vars
  PROVE  Seen'
<1> SUFFICES ASSUME NEW o \in Objs, cache'[o].present
             PROVE  store'[o].present
  BY DEF Seen
<1>1. store[o].present
  BY CacheCatchesUp DEF Seen
<1> QED
  BY <1>1, ThereKept

LEMMA RequiredTyped ==
  ASSUME NEW g \in Groups
  PROVE  Required(g) \subseteq Objs
<1>1. InitConfig \in Configs
  BY ClusterAssumption
<1> QED
  BY <1>1, StepsTyped DEF Required

LEMMA MadeKept ==
  ASSUME Untouched, Inv, CopiesCurrent, Steady, Fresh, [Next]_vars,
         NEW g \in Groups, Made(g)
  PROVE  Made(g)'
<1> SUFFICES ASSUME NEW o \in Required(g)
             PROVE  store'[o].present
  BY DEF Made
<1>1. o \in Objs /\ store[o].present
  BY RequiredTyped DEF Made
<1> QED
  BY <1>1, ThereKept

-----------------------------------------------------------------------------
(* The gates *)

\* The block the pass is at, in the plan of the only configuration there is.
LEMMA AtBlock ==
  ASSUME Inv, Steady, pc \in Acting
  PROVE  /\ phase \in Groups /\ BlocksOf(phase) \in Seq(Steps)
         /\ at \in DOMAIN BlocksOf(phase) /\ Step = BlocksOf(phase)[at]
         /\ Step.obj \in Objs
         /\ StepsOf(me.config, phase) = StepsOf(InitConfig, phase)
         /\ Walked = {BlocksOf(phase)[i] : i \in 1 .. (at - 1)}
<1>1. me.config = InitConfig
  BY DEF Steady, Acting
<1>2. /\ phase \in Groups /\ BlocksOf(phase) \in Seq(Steps)
      /\ at \in 1 .. Len(BlocksOf(phase)) /\ Step \in Steps
  BY <1>1, StepType DEF Inv, Control, BlocksOf
<1> QED
  BY <1>1, <1>2 DEF BlocksOf, Step, Steps, Walked

LEMMA GatedStep ==
  ASSUME Untouched, GatesFit, Inv, CopiesCurrent, Steady, Fresh, Gated, Progress,
         [Next]_vars
  PROVE  Gated'
<1>1. /\ PrometheusOperatorDeployment \in Objs /\ PrometheusInstance \in Objs
      /\ "po" \in Groups /\ "prom" \in Groups
  BY ClusterAssumption DEF Groups
<1>2. ASSUME store'[PrometheusOperatorDeployment].present
      PROVE  Made("po")'
  <2>1. CASE store[PrometheusOperatorDeployment].present
    BY <1>1, <2>1, MadeKept DEF Gated
  <2>2. CASE ~store[PrometheusOperatorDeployment].present
    <3>1. /\ pc = "create" /\ pc \in Acting
          /\ PrometheusOperatorDeployment = Step.obj
      BY <1>1, <1>2, <2>2, Appears DEF Acting
    <3>2. /\ phase = "po" /\ BlocksOf("po") \in Seq(Steps)
          /\ at \in DOMAIN BlocksOf("po") /\ Step = BlocksOf("po")[at]
          /\ Walked = {BlocksOf("po")[i] : i \in 1 .. (at - 1)}
      BY <3>1, AtBlock DEF GatesFit, GatesLast, BlocksOf
    <3> SUFFICES ASSUME NEW o \in Required("po")
                 PROVE  store'[o].present
      BY DEF Made
    <3>3. PICK k \in DOMAIN BlocksOf("po") : o = BlocksOf("po")[k].obj
      BY DEF Required, StepsOf, BlocksOf
    <3>4. at \in Nat /\ k \in Nat /\ at > 0 /\ k > 0
      BY <3>2
    <3>5. ~(at < k)
      <4> SUFFICES ASSUME at < k PROVE FALSE
        OBVIOUS
      <4>1. at \in 1 .. (k - 1)
        BY <3>4
      <4>2. o \in Behind
        BY <3>1, <3>2, <3>3, <4>1 DEF Behind
      <4> QED
        BY <4>2 DEF Required
    <3>6. CASE k = at
      BY <1>2, <3>1, <3>2, <3>3, <3>6
    <3>7. CASE k < at
      <4>1. k \in 1 .. (at - 1)
        BY <3>4, <3>7
      <4>2. store[o].present
        BY <3>1, <3>2, <3>3, <4>1 DEF Progress
      <4> QED
        BY <1>1, <4>2, RequiredTyped, ThereKept
    <3> QED
      BY <3>4, <3>5, <3>6, <3>7
  <2> QED
    BY <2>1, <2>2
<1>3. ASSUME store'[PrometheusInstance].present
      PROVE  Made("prom")'
  <2>1. CASE store[PrometheusInstance].present
    BY <1>1, <2>1, MadeKept DEF Gated
  <2>2. CASE ~store[PrometheusInstance].present
    <3>1. pc = "create" /\ pc \in Acting /\ PrometheusInstance = Step.obj
      BY <1>1, <1>3, <2>2, Appears DEF Acting
    <3>2. /\ phase = "prom" /\ BlocksOf("prom") \in Seq(Steps)
          /\ at = Len(BlocksOf("prom")) /\ Step = BlocksOf("prom")[at]
          /\ Walked = {BlocksOf("prom")[i] : i \in 1 .. (at - 1)}
      BY <3>1, AtBlock DEF GatesFit, GatesLast, BlocksOf
    <3> SUFFICES ASSUME NEW o \in Required("prom")
                 PROVE  store'[o].present
      BY DEF Made
    <3>3. PICK k \in DOMAIN BlocksOf("prom") : o = BlocksOf("prom")[k].obj
      BY DEF Required, StepsOf, BlocksOf
    <3>4. k \in 1 .. at /\ at \in Nat
      BY <3>2
    <3>5. CASE k = at
      BY <1>3, <3>1, <3>2, <3>3, <3>5
    <3>6. CASE k # at
      <4>1. k \in 1 .. (at - 1)
        BY <3>4, <3>6
      <4>2. store[o].present
        BY <3>1, <3>2, <3>3, <4>1 DEF Progress
      <4> QED
        BY <1>1, <4>2, RequiredTyped, ThereKept
    <3> QED
      BY <3>5, <3>6
  <2> QED
    BY <2>1, <2>2
<1> QED
  BY <1>2, <1>3 DEF Gated

LEMMA ClosedStep ==
  ASSUME Untouched, Inv, CopiesCurrent, Steady, Fresh, Seen, Closed, [Next]_vars
  PROVE  Closed'
<1>1. PrometheusOperatorDeployment \in Objs /\ PrometheusInstance \in Objs
  BY ClusterAssumption
<1>2. /\ store[PrometheusOperatorDeployment].present =>
           store'[PrometheusOperatorDeployment].present
      /\ store[PrometheusInstance].present => store'[PrometheusInstance].present
  BY <1>1, ThereKept
<1>3. pc \notin {"idle", "fetch"} => me \in Cells
  BY DEF Inv, Control
<1>4. "po" \in FlagNames /\ "prom" \in FlagNames
  BY DEF FlagNames
<1>5. CASE Start \/ Fetch \/ Finish \/ Restart \/ Failed
  BY <1>5 DEF Start, Fetch, EndPass, Finish, Restart, Failed, FailPass, Closed
<1>6. CASE CheckPO
  <2> DEFINE v == Flag(Running(cache[PrometheusOperatorDeployment]))
  <2>1. me'.status["po"] = v
    BY <1>3, <1>4, <1>6 DEF CheckPO, Cells, Statuses
  <2>2. v = "true" => store[PrometheusOperatorDeployment].present
    BY <1>1 DEF Flag, Running, Seen
  <2> QED
    BY <1>2, <1>6, <2>1, <2>2 DEF CheckPO, Closed
<1>7. CASE CheckProm
  <2> DEFINE v == Flag(Running(cache[PrometheusInstance]))
  <2>1. me'.status["prom"] = v /\ me'.status["po"] = me.status["po"]
    BY <1>3, <1>4, <1>7 DEF CheckProm, Cells, Statuses
  <2>2. v = "true" => store[PrometheusInstance].present
    BY <1>1 DEF Flag, Running, Seen
  <2> QED
    BY <1>2, <1>7, <2>1, <2>2 DEF CheckProm, Closed
<1>8. CASE Query
  <2>1. JobOrder[at] \in FlagNames \ {"po", "prom"}
    BY <1>8 DEF Query, Inv, Control, JobOrder, FlagNames, Jobs
  <2>2. \A f \in {"po", "prom"} : me'.status[f] = me.status[f]
    BY <1>3, <1>4, <1>8, <2>1 DEF Query, Cells, Statuses
  <2> QED
    BY <1>2, <1>8, <2>2 DEF Query, Closed
<1>9. CASE Publish
  <2>1. me'.status = me.status
    BY <1>9 DEF Publish, Published, Inv, TypeOK, Cells
  <2> QED
    BY <1>2, <1>9, <2>1 DEF Publish, Closed
<1>10. CASE Proceeds
  BY <1>2, <1>10 DEF Proceeds, Acting, Closed
<1>11. CASE Background
  BY <1>2, <1>11 DEF Background, pass, Closed
<1> QED
  BY <1>5, <1>6, <1>7, <1>8, <1>9, <1>10, <1>11, StepKinds

-----------------------------------------------------------------------------
(* The pass *)

\* The function that is entered follows those whose objects are there.
Entered(p) ==
  /\ p # "po" => Made("po")
  /\ p \notin {"po", "prom"} => Made("prom")
  /\ p \in {"exporters", "done"} => Made("gitpod")
  /\ p = "done" => Made("exporters")

LEMMA FunctionEntered ==
  ASSUME Entered(phase)', Walked' = {}, pc' \in {"read", "finish"},
         pc' = "finish" => phase' = "done"
  PROVE  Progress'
BY DEF Entered, Progress

\* A block is done: its object is there, and what was there still is.
LEMMA BlockThere ==
  ASSUME Untouched, Inv, CopiesCurrent, Steady, Fresh, Seen, Gated, Closed, Progress,
         [Next]_vars, pc \in Acting, NEW l, StepDone(l), UNCHANGED me,
         store'[Step.obj].present
  PROVE  Progress'
<1>1. /\ phase \in Groups /\ StepsOf(me.config, phase) = StepsOf(InitConfig, phase)
  BY AtBlock
<1>2. ASSUME NEW g \in Groups, Made(g)
      PROVE  Made(g)'
  BY <1>2, MadeKept
<1>3. ASSUME NEW s \in Walked \cup {Step}
      PROVE  store'[s.obj].present
  <2>1. CASE s \in Walked
    <3>1. s.obj \in Objs /\ store[s.obj].present
      BY <2>1, WalkedTyped DEF Progress
    <3> QED
      BY <3>1, ThereKept
  <2> QED
    BY <2>1
<1>4. CASE /\ pc' = "read" /\ phase' = phase
           /\ Walked' = Walked \cup {Step}
  <2>1. Entered(phase)
    BY DEF Progress, Entered
  <2> QED
    BY <1>1, <1>2, <1>3, <1>4, <2>1 DEF Entered, Progress, Groups
<1>5. CASE /\ Walked \cup {Step} = StepsOf(me.config, phase)
           /\ phase' = After(phase, me.status) /\ Walked' = {}
           /\ pc' = "finish" <=> phase' = "done"
  <2>1. ASSUME NEW g \in Groups, g = phase
        PROVE  Made(g)'
    <3> SUFFICES ASSUME NEW o \in Required(g)
                 PROVE  store'[o].present
      BY DEF Made
    <3>1. PICK s \in StepsOf(InitConfig, g) : o = s.obj
      BY DEF Required
    <3>2. s \in Walked \cup {Step}
      BY <1>1, <1>5, <2>1, <3>1
    <3> QED
      BY <1>3, <3>1, <3>2
  <2>2. Entered(phase)'
    <3>1. CASE phase = "po"
      <4>1. Made("po")' /\ phase' \in {"prom", "gitpod"}
        BY <1>1, <1>5, <2>1, <3>1 DEF After
      <4>2. phase' = "gitpod" => Made("prom")'
        <5>1. phase' = "gitpod" => me.status["prom"] = "true"
          BY <1>5, <3>1 DEF After
        <5>2. me.status["prom"] = "true" => Made("prom")
          BY DEF Closed, Acting, Gated
        <5> QED
          BY <1>2, <5>1, <5>2 DEF Groups
      <4> QED
        BY <4>1, <4>2 DEF Entered
    <3>2. CASE phase = "prom"
      <4>1. Made("po") /\ phase' = "gitpod"
        BY <1>5, <3>2 DEF Progress, After
      <4>2. Made("po")' /\ Made("prom")'
        BY <1>1, <1>2, <2>1, <3>2, <4>1 DEF Groups
      <4> QED
        BY <4>1, <4>2 DEF Entered
    <3>3. CASE phase = "gitpod"
      <4>1. Made("po") /\ Made("prom") /\ phase' = "exporters"
        BY <1>5, <3>3 DEF Progress, After
      <4>2. Made("po")' /\ Made("prom")' /\ Made("gitpod")'
        BY <1>1, <1>2, <2>1, <3>3, <4>1 DEF Groups
      <4> QED
        BY <4>1, <4>2 DEF Entered
    <3>4. CASE phase = "exporters"
      <4>1. Made("po") /\ Made("prom") /\ Made("gitpod")
        BY <3>4 DEF Progress
      <4>2. Made("po")' /\ Made("prom")' /\ Made("gitpod")' /\ Made("exporters")'
        BY <1>1, <1>2, <2>1, <3>4, <4>1 DEF Groups
      <4> QED
        BY <4>2 DEF Entered
    <3> QED
      BY <1>1, <3>1, <3>2, <3>3, <3>4 DEF Groups
  <2> QED
    BY <1>5, <2>2, FunctionEntered, StepDoneProceeds
<1> QED
  BY <1>4, <1>5, Advance

LEMMA ProgressStep ==
  ASSUME Untouched, Inv, CopiesCurrent, Steady, Fresh, Seen, Gated, Closed, Progress,
         [Next]_vars
  PROVE  Progress'
<1>1. store \in [Objs -> Children] /\ store' \in [Objs -> Children]
  BY NextInv DEF Inv, TypeOK
<1>2. ASSUME NEW g \in Groups, Made(g)
      PROVE  Made(g)'
  BY <1>2, MadeKept
<1>3. CASE Start \/ Fetch \/ CheckPO \/ CheckProm \/ Query \/ Finish \/ Restart
           \/ Failed
  <2>1. pc' \notin Acting \cup {"finish"}
    BY <1>3
    DEF Start, Fetch, CheckPO, CheckProm, Query, Finish, Restart, Failed, FailPass,
        EndPass, Acting
  <2> QED
    BY <2>1 DEF Progress
<1>4. CASE Publish
  <2>1. /\ phase' = After("status", me.status) /\ at' = 1 /\ pc' = "read"
        /\ pc = "publish"
    BY <1>4 DEF Publish, Enter, After
  <2>2. Walked' = {}
    BY <2>1 DEF Walked
  <2>3. me.status["po"] = "true" => Made("po")'
    BY <1>2, <2>1 DEF Closed, Gated, Groups
  <2>4. me.status["prom"] = "true" => Made("prom")'
    BY <1>2, <2>1 DEF Closed, Gated, Groups
  <2>5. /\ phase' \in {"po", "prom", "gitpod"}
        /\ phase' # "po" => me.status["po"] = "true"
        /\ phase' = "gitpod" => me.status["prom"] = "true"
    BY <2>1 DEF After
  <2>6. Entered(phase)'
    BY <2>3, <2>4, <2>5 DEF Entered
  <2> QED
    BY <2>1, <2>2, <2>6, FunctionEntered
<1>5. CASE Background \/ Read
  <2>1. UNCHANGED <<me, phase, at>>
    BY <1>5 DEF Background, Read, pass
  <2>2. Walked' = Walked /\ Step' = Step
    BY <2>1 DEF Walked, Step
  <2>3. CASE pc' \in Acting \cup {"finish"}
    <3>1. /\ pc \in Acting \cup {"finish"} /\ (pc' = "finish" <=> pc = "finish")
          /\ pc' \in Acting <=> pc \in Acting
      BY <1>5, <2>3 DEF Background, Read, pass, Acting
    <3>2. ASSUME pc' = "update" PROVE store'[Step.obj].present
      <4>1. Step.obj \in Objs
        BY <3>1, <3>2, AtBlock DEF Acting
      <4>2. store[Step.obj].present
        <5>1. CASE Read
          BY <3>2, <4>1, <5>1 DEF Read, Seen
        <5>2. CASE Background
          BY <3>2, <5>2 DEF Background, pass, Progress, Acting
        <5> QED
          BY <1>5, <5>1, <5>2
      <4> QED
        BY <4>1, <4>2, ThereKept
    <3>3. ASSUME pc \in Acting, NEW s \in Walked
          PROVE  store'[s.obj].present
      <4>1. s.obj \in Objs /\ store[s.obj].present
        BY <3>3, WalkedTyped DEF Progress
      <4> QED
        BY <4>1, ThereKept
    <3>4. Entered(phase) /\ (pc = "finish" => phase = "done")
      BY <3>1 DEF Progress, Entered
    <3> QED
      BY <1>2, <2>1, <2>2, <3>1, <3>2, <3>3, <3>4 DEF Progress, Entered, Groups
  <2>4. CASE pc' \notin Acting \cup {"finish"}
    BY <2>4 DEF Progress
  <2> QED
    BY <2>3, <2>4
<1>6. CASE Create
  <2>1. pc \in Acting /\ StepDone(loc) /\ UNCHANGED me /\ Step.obj \in Objs
    BY <1>6, AtBlock DEF Create, Acting
  <2>2. store'[Step.obj].present
    BY <1>1, <1>6, <2>1 DEF Create, CreateInStore, Created
  <2> QED
    BY <2>1, <2>2, BlockThere
<1>7. CASE Update
  <2> DEFINE l == [Assigned EXCEPT ![Step.upd].child = Written]
  <2>1. pc \in Acting /\ StepDone(l) /\ UNCHANGED me /\ Step.obj \in Objs
    BY <1>7, AtBlock DEF Update, Acting
  <2>2. store[Step.obj].present
    BY <1>7 DEF Update, Progress, Acting
  <2>3. store'[Step.obj].present
    BY <2>1, <2>2, ThereKept
  <2> QED
    BY <2>1, <2>3, BlockThere
<1> QED
  BY <1>3, <1>4, <1>5, <1>6, <1>7, StepKinds

LEMMA RestingStep ==
  ASSUME Untouched, Inv, CopiesCurrent, Steady, Fresh, Progress, Resting, [Next]_vars
  PROVE  Resting'
<1>1. ASSUME NEW g \in Groups, Made(g)
      PROVE  Made(g)'
  BY <1>1, MadeKept
<1>2. CASE Start \/ CheckPO \/ CheckProm \/ Query \/ Publish \/ Proceeds
  <2>1. pc' # "idle"
    BY <1>2
    DEF Start, CheckPO, CheckProm, Query, Publish, Enter, Proceeds, Acting
  <2> QED
    BY <2>1 DEF Resting
<1>3. CASE Fetch
  <2>1. pc' # "idle"
    BY <1>3 DEF Fetch, Steady
  <2> QED
    BY <2>1 DEF Resting
<1>4. CASE Finish
  <2>1. \A g \in Groups : Made(g)
    BY <1>4 DEF Finish, Progress, Groups
  <2> QED
    BY <1>1, <2>1 DEF Resting
<1>5. CASE Restart
  BY <1>5 DEF Restart, Resting, Steady
<1>6. CASE Failed
  BY <1>6 DEF Failed, FailPass, Resting
<1>7. CASE Background
  <2>1. UNCHANGED pc /\ (queued \/ timer => queued' \/ timer')
    BY <1>7 DEF Background, CellChanges, Queued, pass, queue
  <2> QED
    BY <1>1, <2>1 DEF Resting
<1> QED
  BY <1>2, <1>3, <1>4, <1>5, <1>6, <1>7, StepKinds

-----------------------------------------------------------------------------
(* The theorem *)

LEMMA InitInstalling ==
  ASSUME FromNothing, Init
  PROVE  Installing
<1>1. \A o \in Objs : ~store[o].present
  BY DEF FromNothing, Init
<1>2. PrometheusOperatorDeployment \in Objs /\ PrometheusInstance \in Objs
  BY ClusterAssumption
<1>3. /\ cell.live /\ cell.config = InitConfig /\ cellCache = cell /\ cache = store
      /\ pc = "idle" /\ queued
  BY DEF Init
<1>4. Steady /\ Resting /\ Closed /\ Progress
  BY <1>3 DEF Steady, Resting, Closed, Progress, Acting
<1> QED
  BY <1>1, <1>2, <1>3, <1>4 DEF Installing, Fresh, Seen, Gated

LEMMA RestingInstalled ==
  ASSUME Inv, Installing
  PROVE  QuiescentMeansInstalled
<1> SUFFICES ASSUME Quiescent,
                    NEW o \in PlannedObjects(cell.config) \ BehindDeployment
             PROVE  Desired(o)
  BY DEF QuiescentMeansInstalled
<1>1. cell.config = InitConfig /\ \A g \in Groups : Made(g)
  BY DEF Quiescent, Installing, Steady, Resting
<1>2. BehindDeployment = Behind
  BY <1>1 DEF BehindDeployment, Behind, BlocksOf
<1>3. PICK g \in Groups : o \in Required(g)
  BY <1>1, <1>2 DEF PlannedObjects, Required
<1>4. o \in Objs /\ store[o].present
  BY <1>1, <1>3, RequiredTyped DEF Made
<1> QED
  BY <1>1, <1>4 DEF Installing, Fresh, Done, Desired

\* An installation into a cluster that has none of the objects, whatever fails, dies or
\* goes down on the way: the operator rests only when all is there.
THEOREM RestsOnlyWhenInstalled ==
  ASSUME Untouched, FromNothing, GatesFit
  PROVE  Spec => []QuiescentMeansInstalled
<1> DEFINE I == Inv /\ CopiesCurrent /\ Installing
<1>1. Init => I
  BY InitInv, InitCopiesCurrent, InitInstalling
<1>2. I /\ [Next]_vars => I'
  <2>1. I /\ [Next]_vars => Inv' /\ CopiesCurrent'
    BY NextInv, CopiesCurrentStep
  <2>2. I /\ [Next]_vars => Steady' /\ Fresh' /\ Seen' /\ Gated'
    BY SteadyStep, FreshStep, SeenStep, GatedStep DEF Installing
  <2>3. I /\ [Next]_vars => Closed' /\ Progress' /\ Resting'
    BY ClosedStep, ProgressStep, RestingStep DEF Installing
  <2> QED
    BY <2>1, <2>2, <2>3 DEF Installing
<1>3. I => QuiescentMeansInstalled
  BY RestingInstalled
<1> QED
  BY <1>1, <1>2, <1>3, PTL DEF Spec
=============================================================================
