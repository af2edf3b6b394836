--------------------------- MODULE CellPromiseProofs ---------------------------
(***************************************************************************)
(* The loop implements the promise of LevelTriggered, for every plan,      *)
(* cluster, number of failures and lag of the caches.                      *)
(***************************************************************************)
EXTENDS AppliedProofs, CellPromise

\* A copy of the Cell is no newer than the Cell, and has its spec if it has its
\* version.
SameSpec(x) == x.ver <= cell.ver /\ (x.ver = cell.ver => x.config = cell.config)

CellCopies ==
  SameSpec(cellCache) /\ (pc \notin {"idle", "fetch"} => SameSpec(me))

\* The value of the refinement's `fit`.
FitOf == [o \in Objs |-> FitFor(o)]

LEMMA PublishedSpec ==
  ASSUME Inv
  PROVE  /\ Published.config = cell.config /\ Published.live = cell.live
         /\ Published.ver \in {cell.ver, cell.ver + 1}
         /\ Published = cell \/ Published.ver = cell.ver + 1
<1>1. cell \in Cells /\ cell.ver \in Nat
  BY DEF Inv, TypeOK, Cells
<1>2. CASE me.status = cell.status
  BY <1>1, <1>2 DEF Published, Cells
<1>3. CASE me.status # cell.status
  BY <1>1, <1>3 DEF Published, Cells
<1> QED
  BY <1>2, <1>3

LEMMA CellCopiesStep ==
  ASSUME Inv, CellCopies, [Next]_vars
  PROVE  CellCopies'
<1>1. /\ cell \in Cells /\ cell.ver \in Nat
      /\ cellCache \in Cells /\ cellCache.ver \in Nat
  BY DEF Inv, TypeOK, Cells
<1>2. pc \notin {"idle", "fetch"} => me \in Cells /\ me.ver \in Nat
  BY DEF Inv, TypeOK, Control, Cells, Pcs, Acting
<1>3. CASE Start \/ Fetch
  BY <1>1, <1>3
  DEF Start, Fetch, EndPass, cluster, informers, CellCopies, SameSpec
<1>4. CASE CheckPO \/ CheckProm \/ Query \/ Proceeds
  <2>1. /\ UNCHANGED <<cell, cellCache>> /\ pc \notin {"idle", "fetch"}
        /\ me'.config = me.config /\ me'.ver = me.ver
    BY <1>2, <1>4
    DEF CheckPO, CheckProm, Query, Proceeds, Cells, cluster, informers, Acting
  <2> QED
    BY <2>1 DEF CellCopies, SameSpec
<1>5. CASE Publish
  <2>1. cellCache' = cellCache /\ cell' = Published /\ me' = cell'
    BY <1>5 DEF Publish, informers
  <2>2. cell' \in Cells /\ cell'.ver \in Nat
    BY <1>1, <2>1, PublishedSpec, NextInv DEF Inv, TypeOK, Cells
  <2>3. SameSpec(cellCache)'
    BY <1>1, <2>1, PublishedSpec DEF CellCopies, SameSpec
  <2> QED
    BY <2>1, <2>2, <2>3 DEF CellCopies, SameSpec
<1>6. CASE Finish \/ Restart \/ Failed
  <2>1. pc' = "idle"
    BY <1>6 DEF Finish, Restart, Failed, FailPass, EndPass
  <2>2. SameSpec(cellCache)'
    BY <1>1, <1>6, PublishedSpec
    DEF Finish, Restart, Failed, cluster, informers, CellCopies, SameSpec
  <2> QED
    BY <2>1, <2>2 DEF CellCopies
<1>7. CASE Background
  <2>1. UNCHANGED <<pc, me>>
    BY <1>7 DEF Background, pass
  <2>2. cell' = cell \/ cell'.ver = cell.ver + 1
    BY <1>7 DEF Background, CellChanges, Queued
  <2>3. cellCache' = cellCache \/ (cellCache' = cell /\ cell' = cell)
    BY <1>7 DEF Background, CellChanges, Queued
  <2> QED
    BY <1>1, <1>2, <2>1, <2>2, <2>3 DEF CellCopies, SameSpec
<1> QED
  BY <1>3, <1>4, <1>5, <1>6, <1>7, StepKinds

-----------------------------------------------------------------------------
(* What a step does to the objects *)

LEMMA StoreWriters ==
  ASSUME [Next]_vars
  PROVE  \/ UNCHANGED store \/ Create \/ Update \/ Unanswered
         \/ \E o \in Workloads : BecomesAvailable(o) \/ GoesDown(o)
         \/ \E o \in Objs : DeleteChild(o) \/ EditChild(o)
<1>1. CASE Reconcile /\ ~Create /\ ~Update
  BY <1>1
  DEF Reconcile, Start, Fetch, CheckPO, CheckProm, Query, QueryFails, Publish,
      PublishRejected, Read, CreateRejected, UpdateRejected, Finish, cluster
<1>2. CASE RequestFails \/ Restart \/ Informers \/ UNCHANGED vars
  BY <1>2
  DEF RequestFails, Restart, Informers, SyncCell, SyncChild, TimerFires, Resync,
      cluster, vars
<1>3. CASE Environment
  BY <1>3 DEF Environment, TargetsUp, TargetsLost, TargetDown, EditCell, DeleteCell
<1> QED
  BY <1>1, <1>2, <1>3 DEF Next, Failures

\* Only a write of the pass changes what an object is as wanted for.
LEMMA FitKept ==
  ASSUME Undisturbed, Inv, [Next]_vars, ~Create, ~Update, ~Unanswered
  PROVE  UNCHANGED FitOf
<1>1. CASE UNCHANGED store
  BY <1>1 DEF FitOf, FitFor
<1>2. ASSUME NEW p \in Workloads, BecomesAvailable(p) \/ GoesDown(p)
      PROVE  UNCHANGED FitOf
  <2>1. PICK d \in Children :
          /\ p \in Objs /\ store' = [store EXCEPT ![p] = d]
          /\ d.present = store[p].present
          /\ d.content = store[p].content /\ d.sel = store[p].sel
    BY <1>2, AvailabilityChanged
  <2>2. \A o \in Objs : /\ store'[o].present = store[o].present
                        /\ store'[o].content = store[o].content
                        /\ store'[o].sel = store[o].sel
    BY <2>1 DEF Inv, TypeOK
  <2> QED
    BY <2>2 DEF FitOf, FitFor
<1>3. ~ \E o \in Objs : DeleteChild(o) \/ EditChild(o)
  BY DEF Undisturbed, DeleteChild, EditChild, Disrupt
<1> QED
  BY <1>1, <1>2, <1>3, StoreWriters

\* A write of the pass makes one object fit what the pass works for.
LEMMA OneMade ==
  ASSUME Inv, CopiesCurrent,
         (pc = "create" /\ CreateInStore) \/ (pc = "update" /\ UpdateInStore)
  PROVE  UNCHANGED FitOf \/ \E o \in Objs : Promise!Make(o)
<1>1. /\ store \in [Objs -> Children] /\ Step.obj \in Objs
      /\ me.config \in Configs /\ pc \in Acting
  BY StepType DEF Inv, TypeOK, Cells, Steps, Acting
<1>2. ASSUME /\ \A p \in Objs \ {Step.obj} : store'[p] = store[p]
             /\ store'[Step.obj].present
             /\ store'[Step.obj].content = Rendered(Step.obj, me.config)
             /\ store'[Step.obj].sel = Selector(Step.obj, me.config)
      PROVE  \E o \in Objs : Promise!Make(o)
  <2> DEFINE o == Step.obj
             s == {c \in Configs : /\ store'[o].present
                                   /\ store'[o].content = Rendered(o, c)
                                   /\ store'[o].sel = Selector(o, c)}
  <2>1. s \in SUBSET Configs /\ {me.config} \subseteq s
    BY <1>1, <1>2
  <2>2. FitOf' = [FitOf EXCEPT ![o] = s]
    <3>1. \A p \in Objs : FitOf'[p] = IF p = o THEN s ELSE FitOf[p]
      BY <1>2 DEF FitOf, FitFor
    <3> QED
      BY <1>1, <3>1 DEF FitOf
  <2>3. Observed = {me.config}
    BY <1>1 DEF Observed, Acting
  <2> HIDE DEF s, o
  <2>4. Promise!Make(o)
    BY <2>1, <2>2, <2>3 DEF Promise!Make, FitOf
  <2> QED
    BY <1>1, <2>4 DEF o
<1>3. CASE pc = "create" /\ CreateInStore
  BY <1>1, <1>2, <1>3 DEF CreateInStore, Created
<1>4. CASE pc = "update" /\ UpdateInStore
  <2>1. /\ Sent.obj \in Objs /\ Acceptable
        /\ store' = [store EXCEPT ![Sent.obj] = Written]
    BY <1>4, WrittenGrows DEF UpdateInStore
  <2>2. CASE Step.upd # Step.into
    <3>1. store' = store
      BY <1>1, <1>4, <2>1, <2>2, OtherVariableSent
    <3> QED
      BY <3>1 DEF FitOf, FitFor
  <2>3. CASE Step.upd = Step.into
    <3>1. Sent.obj = Step.obj
      BY <1>4, <2>3, OwnVariableSent
    <3>2. /\ Sent.child.content = Rendered(Step.obj, me.config)
          /\ Sent.child.sel = Selector(Step.obj, me.config)
      BY <1>4, <2>3, OwnVariableSent
    <3>3. /\ Written.content = Sent.child.content
          /\ Written.present = store[Step.obj].present
          /\ Written.sel = store[Step.obj].sel
      BY <1>1, <3>1 DEF Written, Children
    <3>4. store[Step.obj].present /\ store[Step.obj].sel = Sent.child.sel
      BY <2>1, <3>1 DEF Acceptable
    <3>5. store'[Step.obj] = Written
      BY <1>1, <2>1, <3>1
    <3> QED
      BY <1>1, <1>2, <2>1, <3>1, <3>2, <3>3, <3>4, <3>5
  <2> QED
    BY <2>2, <2>3
<1> QED
  BY <1>3, <1>4

-----------------------------------------------------------------------------
(* Every step keeps the promise *)

\* Writes of the pass.
LEMMA WriteSteps ==
  ASSUME Inv, CopiesCurrent, Create \/ Update
  PROVE  [Promise!Next]_(Promise!lvars)
<1>1. UNCHANGED FitOf \/ \E o \in Objs : Promise!Make(o)
  BY OneMade DEF Create, Update
<1>2. /\ pc \notin {"idle", "fetch"} /\ pc' \notin {"idle", "fetch"}
      /\ UNCHANGED <<cell, cellCache, queued, timer, me>>
  BY StepDoneProceeds DEF Create, Update, informers, queue
<1>3. Observed # {} /\ UNCHANGED <<Observed, PassDue>>
  BY <1>2 DEF Observed, PassDue
<1> QED
  BY <1>1, <1>2, <1>3 DEF Promise!Next, Promise!Act, Promise!lvars, FitOf

\* A write that is carried out, and unanswered.
LEMMA UnansweredStep ==
  ASSUME Inv, CopiesCurrent, Unanswered
  PROVE  Promise!GiveUp
<1>1. Observed' = {} /\ PassDue' = TRUE
  BY DEF Unanswered, FailPass, EndPass, Observed, PassDue
<1>2. cell'.config = cell.config /\ cell'.live = cell.live
  BY PublishedSpec DEF Unanswered
<1>3. Observed # {}
  BY DEF Unanswered, Observed
<1>4. UNCHANGED FitOf \/ \E o \in Objs : Promise!Make(o)
  <2>1. CASE UNCHANGED store
    BY <2>1 DEF FitOf, FitFor
  <2>2. CASE (pc = "create" /\ CreateInStore) \/ (pc = "update" /\ UpdateInStore)
    BY <2>2, OneMade
  <2> QED
    BY <2>1, <2>2 DEF Unanswered
<1> QED
  BY <1>1, <1>2, <1>3, <1>4 DEF Promise!GiveUp, FitOf

LEMMA FetchStep ==
  ASSUME Inv, Fetch, UNCHANGED FitOf
  PROVE  [Promise!Next]_(Promise!lvars)
<1>1. /\ Observed = {} /\ PassDue = TRUE
      /\ UNCHANGED <<cell, cellCache, queued, timer>>
  BY DEF Fetch, Observed, PassDue, cluster, informers, queue
<1>2. PassDue' = (queued \/ timer \/ cellCache # cell) /\ PassDue' \in BOOLEAN
  BY <1>1 DEF Fetch, EndPass, PassDue, Inv, TypeOK
<1>3. CASE cellCache.live
  <2>1. Observed' = {cellCache.config} /\ cellCache.config \in Configs
    BY <1>3 DEF Fetch, Observed, Inv, TypeOK, Cells
  <2>2. PassDue' \/ (cellCache = cell /\ cell.live)
    BY <1>2, <1>3
  <2>3. Promise!Observe
    BY <1>1, <1>2, <2>1, <2>2 DEF Promise!Observe, Promise!Singles, FitOf
  <2> QED
    BY <2>3 DEF Promise!Next
<1>4. CASE ~cellCache.live
  <2>1. Observed' = {}
    BY <1>4 DEF Fetch, EndPass, Observed
  <2>2. CASE PassDue'
    BY <1>1, <1>2, <2>1, <2>2 DEF Promise!lvars, FitOf
  <2>3. CASE ~PassDue'
    <3>1. ~cell.live
      BY <1>2, <1>4, <2>3
    <3>2. Promise!Forget
      BY <1>1, <1>2, <2>1, <3>1 DEF Promise!Forget, FitOf
    <3> QED
      BY <3>2 DEF Promise!Next
  <2> QED
    BY <2>2, <2>3
<1> QED
  BY <1>3, <1>4

LEMMA PublishStep ==
  ASSUME Inv, CellCopies, Publish, UNCHANGED FitOf
  PROVE  [Promise!Next]_(Promise!lvars)
<1>1. /\ cell' = Published /\ me' = cell' /\ me.config = cell.config
      /\ UNCHANGED <<cellCache, queued, timer>>
      /\ pc \notin {"idle", "fetch"} /\ pc' \notin {"idle", "fetch"}
  BY DEF Publish, Publishable, CellCopies, SameSpec, Enter, informers, queue
<1>2. UNCHANGED Observed
  BY <1>1, PublishedSpec DEF Observed
<1>3. cell'.config = cell.config /\ cell'.live = cell.live
  BY <1>1, PublishedSpec
<1>4. PassDue => PassDue'
  <2>1. cellCache.ver \in Nat /\ cell.ver \in Nat
    BY DEF Inv, TypeOK, Cells
  <2>2. cell' = cell \/ cell'.ver = cell.ver + 1
    BY <1>1, PublishedSpec
  <2>3. cellCache # cell => cellCache # cell'
    BY <2>1, <2>2 DEF CellCopies, SameSpec
  <2> QED
    BY <1>1, <2>3 DEF PassDue
<1>5. PassDue \in BOOLEAN /\ PassDue' \in BOOLEAN
  BY <1>1 DEF PassDue, Inv, TypeOK
<1>6. CASE PassDue' = PassDue
  BY <1>2, <1>3, <1>6 DEF Promise!lvars, FitOf
<1>7. CASE PassDue' = TRUE
  <2>1. Promise!Wake
    BY <1>2, <1>3, <1>7 DEF Promise!Wake, FitOf
  <2> QED
    BY <2>1 DEF Promise!Next
<1> QED
  BY <1>4, <1>5, <1>6, <1>7

\* A pass that ends by itself has made everything.
LEMMA FinishStep ==
  ASSUME Inv, WalkedDone, Finish, UNCHANGED FitOf
  PROVE  Promise!Rest
<1>1. /\ pc = "finish" /\ pc' = "idle" /\ Observed = {me.config} /\ Observed' = {}
      /\ UNCHANGED <<cell, cellCache, queued>> /\ (timer => timer')
  BY DEF Finish, EndPass, Observed, cluster, informers
<1>2. me.config \in Configs
  BY <1>1 DEF Inv, Control, Cells, Acting
<1>3. \A o \in MaintainedFor(me.config) : me.config \in FitFor(o)
  <2> SUFFICES ASSUME NEW o \in MaintainedFor(me.config)
               PROVE  me.config \in FitFor(o)
    OBVIOUS
  <2>1. AllDone(OwnSteps("gitpod")) /\ AllDone(OwnSteps("exporters"))
    BY <1>1 DEF WalkedDone
  <2>2. PICK s \in OwnSteps("gitpod") \cup OwnSteps("exporters") : o = s.obj
    BY DEF MaintainedFor, OwnSteps
  <2> QED
    BY <1>2, <2>1, <2>2 DEF AllDone, Done, FitFor
<1>4. \A o \in MaintainedFor(me.config) : o \in Objs
  BY <1>2, StepsTyped DEF MaintainedFor, Groups
<1>5. PassDue' \in BOOLEAN /\ (PassDue => PassDue')
  <2>1. PassDue' \in BOOLEAN
    BY <1>1, NextInv DEF PassDue, Inv, TypeOK, Finish
  <2> QED
    BY <1>1, <2>1 DEF PassDue
<1>6. \A c \in Observed :
        \A o \in [d \in Configs |-> MaintainedFor(d)][c] : c \in FitOf[o]
  BY <1>1, <1>2, <1>3, <1>4 DEF FitOf
<1> QED
  BY <1>1, <1>5, <1>6 DEF Promise!Rest, FitOf

LEMMA RestartStep ==
  ASSUME Inv, Restart, UNCHANGED FitOf
  PROVE  [Promise!Next]_(Promise!lvars)
<1>1. /\ Observed' = {} /\ UNCHANGED cell /\ PassDue' = cell.live
      /\ cell.live \in BOOLEAN
  BY DEF Restart, EndPass, Observed, PassDue, cluster, Inv, TypeOK, Cells
<1>2. CASE cell.live
  <2>1. Promise!GiveUp
    BY <1>1, <1>2 DEF Promise!GiveUp, FitOf
  <2> QED
    BY <2>1 DEF Promise!Next
<1>3. CASE ~cell.live
  <2>1. Promise!Forget
    BY <1>1, <1>3 DEF Promise!Forget, FitOf
  <2> QED
    BY <2>1 DEF Promise!Next
<1> QED
  BY <1>2, <1>3

LEMMA FailedStep ==
  ASSUME Inv, Failed, UNCHANGED FitOf
  PROVE  Promise!GiveUp
<1>1. Observed' = {} /\ PassDue' = TRUE
  BY DEF Failed, FailPass, EndPass, Observed, PassDue
<1>2. cell'.config = cell.config /\ cell'.live = cell.live
  BY PublishedSpec DEF Failed
<1> QED
  BY <1>1, <1>2 DEF Promise!GiveUp, FitOf

LEMMA BackgroundStep ==
  ASSUME Inv, CellCopies, Background, [Next]_vars, UNCHANGED FitOf
  PROVE  [Promise!Next]_(Promise!lvars)
<1>1. UNCHANGED Observed /\ UNCHANGED pc
  BY DEF Background, pass, Observed
<1>2. /\ cell \in Cells /\ cell' \in Cells /\ cell.ver \in Nat
      /\ cellCache.ver \in Nat
  BY NextInv DEF Inv, TypeOK, Cells
<1>3. CASE CellChanges
  <2>1. PassDue' = TRUE
    BY <1>2, <1>3 DEF CellChanges, PassDue, CellCopies, SameSpec
  <2>2. CASE ~cell.live
    <3>1. ~cell'.live
      BY <1>3, <2>2 DEF CellChanges
    <3>2. Promise!Wake
      BY <1>1, <2>1, <2>2, <3>1 DEF Promise!Wake, FitOf
    <3> QED
      BY <3>2 DEF Promise!Next
  <2>3. CASE cell.live
    <3>1. Promise!Change
      BY <1>1, <1>2, <2>1, <2>3 DEF Promise!Change, Promise!Singles, FitOf, Cells
    <3> QED
      BY <3>1 DEF Promise!Next
  <2> QED
    BY <2>2, <2>3
<1>4. CASE Queued
  <2>1. PassDue' = TRUE /\ UNCHANGED cell
    BY <1>4 DEF Queued, PassDue
  <2>2. Promise!Wake
    BY <1>1, <2>1 DEF Promise!Wake, FitOf
  <2> QED
    BY <2>2 DEF Promise!Next
<1>5. CASE UNCHANGED <<cell, cellCache, queue>>
  <2>1. UNCHANGED PassDue
    BY <1>1, <1>5 DEF PassDue, queue
  <2> QED
    BY <1>1, <1>5, <2>1 DEF Promise!lvars, FitOf
<1> QED
  BY <1>3, <1>4, <1>5 DEF Background

LEMMA PromiseStep ==
  ASSUME Undisturbed, Inv, CopiesCurrent, CellCopies, WalkedDone, [Next]_vars
  PROVE  [Promise!Next]_(Promise!lvars)
<1>1. CASE Create \/ Update
  BY <1>1, WriteSteps
<1>2. CASE Unanswered
  BY <1>2, UnansweredStep DEF Promise!Next
<1>3. CASE ~Create /\ ~Update /\ ~Unanswered
  <2>1. UNCHANGED FitOf
    BY <1>3, FitKept
  <2>2. CASE Start
    <3>1. UNCHANGED <<cell, Observed, PassDue>>
      BY <2>2 DEF Start, Observed, PassDue, cluster
    <3> QED
      BY <2>1, <3>1 DEF Promise!lvars, FitOf
  <2>3. CASE CheckPO \/ CheckProm \/ Query \/ Read
    <3>1. /\ pc \notin {"idle", "fetch"} /\ pc' \notin {"idle", "fetch"}
          /\ UNCHANGED <<cell, cellCache, queued, timer>>
      BY <2>3
      DEF CheckPO, CheckProm, Query, Read, cluster, informers, queue
    <3>2. me \in Cells
      BY <2>3 DEF CheckPO, CheckProm, Query, Read, Inv, Control, Acting
    <3>3. me'.config = me.config
      BY <2>3, <3>2 DEF CheckPO, CheckProm, Query, Read, Cells
    <3>4. UNCHANGED <<Observed, PassDue>>
      BY <3>1, <3>3 DEF Observed, PassDue
    <3> QED
      BY <2>1, <3>1, <3>4 DEF Promise!lvars, FitOf
  <2>4. CASE Fetch \/ Publish \/ Restart \/ Background
    BY <2>1, <2>4, FetchStep, PublishStep, RestartStep, BackgroundStep
  <2>5. CASE Finish \/ Failed
    BY <2>1, <2>5, FinishStep, FailedStep DEF Promise!Next
  <2> QED
    BY <1>3, <2>2, <2>3, <2>4, <2>5, StepKinds
<1> QED
  BY <1>1, <1>2, <1>3

LEMMA PromiseInit == Init => Promise!Init
<1> SUFFICES ASSUME Init PROVE Promise!Init
  OBVIOUS
<1>1. cell.live /\ cell.config \in Configs /\ pc = "idle" /\ queued
  <2>1. PICK s \in InitStates :
          cell = [live |-> TRUE, ver |-> 0, config |-> InitConfig,
                  status |-> s.status]
    BY DEF Init
  <2> QED
    BY <2>1, ClusterAssumption DEF Init
<1>2. FitOf \in [Objs -> SUBSET Configs]
  BY DEF FitOf, FitFor
<1>3. Observed = {} /\ PassDue = TRUE
  BY <1>1 DEF Observed, PassDue
<1> QED
  BY <1>1, <1>2, <1>3 DEF Promise!Init, Promise!Singles, FitOf

\* Where nobody else touches the child objects, the loop with its caches, conflicts,
\* failures, crashes and gates is a level-triggered controller of the objects every
\* pass reconciles.
THEOREM ImplementsPromise ==
  ASSUME Undisturbed
  PROVE  Spec => KeepsPromise
<1> DEFINE I == Inv /\ CopiesCurrent /\ CellCopies /\ WalkedDone
<1>1. Init => I
  <2>1. Init => CellCopies
    BY InitInv DEF Init, Inv, TypeOK, Cells, CellCopies, SameSpec
  <2>2. Init => WalkedDone
    BY DEF Init, WalkedDone, Acting
  <2> QED
    BY <2>1, <2>2, InitInv, InitCopiesCurrent
<1>2. I /\ [Next]_vars => I'
  BY NextInv, CopiesCurrentStep, CellCopiesStep, WalkedDoneStep
<1>3. I /\ [Next]_vars => [Promise!Next]_(Promise!lvars)
  BY PromiseStep
<1> HIDE DEF I
<1> QED
  BY <1>1, <1>2, <1>3, PromiseInit, PTL DEF Spec, KeepsPromise, Promise!Spec
=============================================================================
