----------------------------- MODULE AppliedProofs -----------------------------
(***************************************************************************)
(* A pass changes no object but the one its block is about: a copy that    *)
(* the API server accepts is the object as it is there now, in the caches  *)
(* and in every variable a block sends.  From that, an edit of the Cell is *)
(* never lost: where nobody else touches the child objects, the operator   *)
(* rests only when the objects every pass reconciles are as the Cell wants *)
(* them.                                                                   *)
(***************************************************************************)
EXTENDS CellReconcilerProofs

\* A copy is no newer than the object, and is the object if it has its version.
Current(child, o) ==
  /\ child.ver <= store[o].ver
  /\ child.ver = store[o].ver => child = store[o]

CacheCurrent == \A o \in Objs : Current(cache[o], o)

\* Variables that a block of the running function sends.
SentVariables == {t.upd : t \in StepsOf(me.config, phase)}

Held(v) == loc[v] # Unset => Current(loc[v].child, loc[v].obj)

LocCurrent ==
  pc \in Acting => \A v \in Locals : v \in SentVariables => Held(v)

CopiesCurrent == CacheCurrent /\ LocCurrent

-----------------------------------------------------------------------------
(* Versions grow *)

LEMMA ObjectTyped ==
  ASSUME Inv, NEW o \in Objs
  PROVE  /\ store[o] \in Children /\ store[o].ver \in Nat
         /\ cache[o] \in Children /\ cache[o].ver \in Nat
BY DEF Inv, TypeOK, Children

\* Replacing one object by a newer one.
LEMMA OneGrows ==
  ASSUME Inv, NEW p \in Objs, NEW c, store' = [store EXCEPT ![p] = c],
         c = store[p] \/ c.ver = store[p].ver + 1
  PROVE  \A o \in Objs : store'[o] = store[o] \/ store'[o].ver = store[o].ver + 1
BY DEF Inv, TypeOK

\* An update writes what is there, or a new version.
LEMMA WrittenGrows ==
  ASSUME Inv, pc = "update", Acceptable
  PROVE  /\ Sent.obj \in Objs
         /\ Written = store[Sent.obj] \/ Written.ver = store[Sent.obj].ver + 1
         /\ Sent.child = store[Sent.obj] => Written = store[Sent.obj]
<1>1. Sent.obj \in Objs /\ Sent.child \in Children
  BY UpdateType DEF Copies
<1>2. store[Sent.obj] \in Children
  BY <1>1, ObjectTyped
<1>3. CASE store[Sent.obj].content = Sent.child.content
  BY <1>1, <1>2, <1>3 DEF Written, Children
<1>4. CASE store[Sent.obj].content # Sent.child.content
  BY <1>1, <1>2, <1>4 DEF Written, Children
<1> QED
  BY <1>1, <1>3, <1>4

\* The steps that change the child objects.
LEMMA StoreKinds ==
  ASSUME [Next]_vars
  PROVE  \/ UNCHANGED store
         \/ pc = "create" /\ CreateInStore
         \/ pc = "update" /\ UpdateInStore
         \/ \E o \in Workloads : BecomesAvailable(o) \/ GoesDown(o)
         \/ \E o \in Objs : DeleteChild(o) \/ EditChild(o)
<1>1. CASE Create \/ Update \/ Unanswered
  BY <1>1 DEF Create, Update, Unanswered
<1>2. CASE Reconcile /\ ~Create /\ ~Update
  BY <1>2
  DEF Reconcile, Start, Fetch, CheckPO, CheckProm, Query, QueryFails, Publish,
      PublishRejected, Read, CreateRejected, UpdateRejected, Finish, cluster
<1>3. CASE RequestFails \/ Restart \/ Informers \/ UNCHANGED vars
  BY <1>3
  DEF RequestFails, Restart, Informers, SyncCell, SyncChild, TimerFires, Resync,
      cluster, vars
<1>4. CASE Environment
  BY <1>4 DEF Environment, TargetsUp, TargetsLost, TargetDown, EditCell, DeleteCell
<1> QED
  BY <1>1, <1>2, <1>3, <1>4 DEF Next, Failures

\* A replica that comes or goes changes the availability of an object only.
LEMMA AvailabilityChanged ==
  ASSUME Inv, NEW o \in Workloads, BecomesAvailable(o) \/ GoesDown(o)
  PROVE  \E c \in Children :
           /\ o \in Objs /\ store' = [store EXCEPT ![o] = c]
           /\ c.ver = store[o].ver + 1 /\ c.present = store[o].present
           /\ c.content = store[o].content /\ c.sel = store[o].sel
<1>1. o \in Objs
  BY ClusterAssumption DEF Workloads
<1>2. store[o] \in Children /\ store[o].ver + 1 \in Nat
  BY <1>1, ObjectTyped
<1>3. PICK b \in BOOLEAN :
        store' = [store EXCEPT ![o] = [store[o] EXCEPT !.avail = b, !.ver = @ + 1]]
  BY <1>1, <1>2 DEF BecomesAvailable, GoesDown, Inv, TypeOK
<1> DEFINE c == [store[o] EXCEPT !.avail = b, !.ver = @ + 1]
<1>4. /\ c \in Children /\ c.ver = store[o].ver + 1 /\ c.present = store[o].present
      /\ c.content = store[o].content /\ c.sel = store[o].sel
  BY <1>2 DEF Children
<1>5. store' = [store EXCEPT ![o] = c]
  BY <1>3
<1> HIDE DEF c
<1> QED
  BY <1>1, <1>4, <1>5

LEMMA StoreGrows ==
  ASSUME Inv, [Next]_vars
  PROVE  \A o \in Objs : store'[o] = store[o] \/ store'[o].ver = store[o].ver + 1
<1>1. ASSUME pc = "create", CreateInStore
      PROVE  \A o \in Objs : store'[o] = store[o] \/ store'[o].ver = store[o].ver + 1
  <2>1. Step.obj \in Objs /\ Created.ver = store[Step.obj].ver + 1
    BY <1>1, CreatedType DEF Created
  <2> QED
    BY <1>1, <2>1, OneGrows DEF CreateInStore
<1>2. ASSUME pc = "update", UpdateInStore
      PROVE  \A o \in Objs : store'[o] = store[o] \/ store'[o].ver = store[o].ver + 1
  BY <1>2, WrittenGrows, OneGrows DEF UpdateInStore
<1>3. ASSUME NEW o \in Workloads, BecomesAvailable(o) \/ GoesDown(o)
      PROVE  \A p \in Objs : store'[p] = store[p] \/ store'[p].ver = store[p].ver + 1
  BY <1>3, AvailabilityChanged, OneGrows
<1>4. ASSUME NEW o \in Objs, DeleteChild(o) \/ EditChild(o)
      PROVE  \A p \in Objs : store'[p] = store[p] \/ store'[p].ver = store[p].ver + 1
  <2>1. store[o] \in Children
    BY ObjectTyped
  <2>2. CASE DeleteChild(o)
    <3>1. store' = [store EXCEPT ![o] = Gone(store[o].ver + 1)]
      BY <2>2 DEF DeleteChild
    <3>2. Gone(store[o].ver + 1).ver = store[o].ver + 1
      BY DEF Gone
    <3> QED
      BY <3>1, <3>2, OneGrows
  <2>3. CASE EditChild(o)
    <3> DEFINE c == [store[o] EXCEPT !.content = Foreign, !.ver = @ + 1]
    <3>1. store' = [store EXCEPT ![o] = c]
      BY <2>3 DEF EditChild, Inv, TypeOK
    <3>2. c.ver = store[o].ver + 1
      BY <2>1 DEF Children
    <3> HIDE DEF c
    <3> QED
      BY <3>1, <3>2, OneGrows
  <2> QED
    BY <1>4, <2>2, <2>3
<1> QED
  BY <1>1, <1>2, <1>3, <1>4, StoreKinds

-----------------------------------------------------------------------------
(* Copies stay current *)

LEMMA CacheCurrentStep ==
  ASSUME Inv, CacheCurrent, [Next]_vars
  PROVE  CacheCurrent'
<1> SUFFICES ASSUME NEW o \in Objs
             PROVE  Current(cache[o], o)'
  BY DEF CacheCurrent
<1>1. Current(cache[o], o) /\ cache[o].ver \in Nat /\ store[o].ver \in Nat
  BY ObjectTyped DEF CacheCurrent
<1>2. cache'[o] = cache[o] \/ (cache'[o] = store[o] /\ store'[o] = store[o])
  <2>1. CASE UNCHANGED cache
    BY <2>1
  <2>2. ASSUME NEW p \in Objs, SyncChild(p)
        PROVE  cache'[o] = cache[o] \/ (cache'[o] = store[o] /\ store'[o] = store[o])
    BY <2>2 DEF SyncChild, cluster, Inv, TypeOK
  <2>3. CASE Restart
    BY <2>3 DEF Restart, cluster
  <2>4. CASE Reconcile
    BY <2>4
    DEF Reconcile, Start, Fetch, CheckPO, CheckProm, Query, QueryFails, Publish,
        PublishRejected, Read, Create, CreateRejected, Update, UpdateRejected,
        Finish, informers
  <2>5. CASE RequestFails \/ Unanswered
    BY <2>5 DEF RequestFails, Unanswered, informers
  <2>6. CASE SyncCell \/ TimerFires \/ Resync
    BY <2>6 DEF SyncCell, TimerFires, Resync, informers
  <2>7. CASE Environment
    BY <2>7
    DEF Environment, BecomesAvailable, GoesDown, DeleteChild, EditChild, TargetsUp,
        TargetsLost, TargetDown, EditCell, DeleteCell, informers
  <2>8. CASE UNCHANGED vars
    BY <2>8 DEF vars, informers
  <2> QED
    BY <2>2, <2>3, <2>4, <2>5, <2>6, <2>7, <2>8 DEF Next, Failures, Informers
<1>3. CASE cache'[o] = cache[o]
  <2>1. CASE store'[o] = store[o]
    BY <1>1, <1>3, <2>1 DEF Current
  <2>2. CASE store'[o].ver = store[o].ver + 1
    <3>1. cache'[o].ver < store'[o].ver /\ store'[o].ver \in Nat
      BY <1>1, <1>3, <2>2 DEF Current
    <3> QED
      BY <1>1, <1>3, <3>1 DEF Current
  <2> QED
    BY <2>1, <2>2, StoreGrows
<1>4. CASE cache'[o] = store[o] /\ store'[o] = store[o]
  BY <1>1, <1>4 DEF Current
<1> QED
  BY <1>2, <1>3, <1>4

\* The variables of a function that is entered are empty, and those of a function
\* that goes on are the ones given.
LEMMA StepDoneVariables ==
  ASSUME Inv, pc \in Acting, NEW l, StepDone(l), UNCHANGED me
  PROVE  \/ loc' = NoLocals
         \/ loc' = l /\ SentVariables' = SentVariables
BY DEF StepDone, Enter, SentVariables, StepsOf

LEMMA VariableTyped ==
  ASSUME Inv, NEW v \in Locals, loc[v] # Unset
  PROVE  /\ loc[v] \in Copies /\ loc[v].obj \in Objs
         /\ loc[v].child \in Children /\ loc[v].child.ver \in Nat
BY DEF Inv, TypeOK, Copies, Children

\* A variable some block sends is filled in only by blocks that send it.
LEMMA FilledIsSent ==
  ASSUME Inv, pc \in Acting, Step.into \in SentVariables
  PROVE  Step.upd = Step.into
<1>1. me.config \in Configs /\ phase \in Groups /\ Step \in StepsOf(me.config, phase)
  BY StepType DEF Cells
<1>2. OwnVariables(StepsOf(me.config, phase))
  BY <1>1, PlanAssumption
<1> QED
  BY <1>1, <1>2 DEF OwnVariables, SentVariables

LEMMA HeldKept ==
  ASSUME Inv, [Next]_vars, NEW v \in Locals, Held(v), loc'[v] = loc[v]
  PROVE  Held(v)'
<1>1. CASE loc[v] = Unset
  BY <1>1 DEF Held
<1>2. CASE loc[v] # Unset
  <2> DEFINE o == loc[v].obj
             c == loc[v].child
  <2>1. o \in Objs /\ c.ver \in Nat /\ store[o].ver \in Nat
    BY <1>2, VariableTyped, ObjectTyped
  <2>2. c.ver <= store[o].ver /\ (c.ver = store[o].ver => c = store[o])
    BY <1>2 DEF Held, Current
  <2>3. store'[o] = store[o] \/ store'[o].ver = store[o].ver + 1
    BY <2>1, StoreGrows
  <2>4. c.ver <= store'[o].ver /\ (c.ver = store'[o].ver => c = store'[o])
    BY <2>1, <2>2, <2>3
  <2> QED
    BY <2>4 DEF Held, Current
<1> QED
  BY <1>1, <1>2

LEMMA NoVariables ==
  ASSUME loc' = NoLocals
  PROVE  LocCurrent'
BY DEF LocCurrent, Held, NoLocals

LEMMA LocCurrentStep ==
  ASSUME Inv, CopiesCurrent, [Next]_vars
  PROVE  LocCurrent'
<1>1. CASE Start \/ Fetch \/ CheckPO \/ CheckProm \/ Query \/ Finish \/ Restart
           \/ Failed
  <2>1. pc' \notin Acting
    BY <1>1
    DEF Start, Fetch, CheckPO, CheckProm, Query, Finish, Restart, Failed, FailPass,
        EndPass, Acting
  <2> QED
    BY <2>1 DEF LocCurrent
<1>2. CASE Publish
  BY <1>2, NoVariables DEF Publish, Enter
<1>3. CASE Background
  <2>1. UNCHANGED <<pc, loc>> /\ SentVariables' = SentVariables
    BY <1>3 DEF Background, pass, SentVariables, StepsOf
  <2> QED
    BY <2>1, HeldKept DEF CopiesCurrent, LocCurrent
<1>4. CASE Read
  <2>1. Step.obj \in Objs /\ Step.into \in Locals /\ pc \in Acting
    BY <1>4, StepType DEF Read, Steps, Acting
  <2>2. UNCHANGED store /\ SentVariables' = SentVariables
    BY <1>4 DEF Read, SentVariables, StepsOf, cluster
  <2>3. ASSUME NEW v \in Locals, v \in SentVariables
        PROVE  Held(v)'
    <3>1. CASE loc'[v] = loc[v]
      BY <2>1, <2>3, <3>1, HeldKept DEF CopiesCurrent, LocCurrent
    <3>2. CASE loc'[v] # loc[v]
      <4>1. loc'[v] = [obj |-> Step.obj, child |-> cache[Step.obj]]
        BY <1>4, <2>1, <3>2 DEF Read, Inv, TypeOK
      <4>2. Current(cache[Step.obj], Step.obj)
        BY <2>1 DEF CopiesCurrent, CacheCurrent
      <4> QED
        BY <2>2, <4>1, <4>2 DEF Held, Current
    <3> QED
      BY <3>1, <3>2
  <2> QED
    BY <2>2, <2>3 DEF LocCurrent
<1>5. CASE Create
  <2>1. pc \in Acting /\ UNCHANGED me /\ StepDone(loc)
    BY <1>5 DEF Create, Acting
  <2>2. loc' = NoLocals \/ (loc' = loc /\ SentVariables' = SentVariables)
    BY <2>1, StepDoneVariables
  <2> QED
    BY <2>1, <2>2, NoVariables, HeldKept DEF CopiesCurrent, LocCurrent
<1>6. CASE Update
  <2> DEFINE l == [Assigned EXCEPT ![Step.upd].child = Written]
  <2>1. /\ pc = "update" /\ pc \in Acting /\ UNCHANGED me /\ StepDone(l)
        /\ Acceptable /\ store' = [store EXCEPT ![Sent.obj] = Written]
    BY <1>6 DEF Update, UpdateInStore, Acting
  <2>2. loc' = NoLocals \/ (loc' = l /\ SentVariables' = SentVariables)
    BY <2>1, StepDoneVariables
  <2>3. /\ Step.upd \in Locals /\ Step.into \in Locals
        /\ Sent \in Copies /\ Sent = Assigned[Step.upd]
        /\ Assigned \in [Locals -> Copies \cup {Unset}]
    BY <2>1, UpdateType DEF Sent
  <2>4. ASSUME NEW v \in Locals, v \in SentVariables, loc' = l
        PROVE  Held(v)'
    <3>1. CASE v = Step.upd
      <4>1. loc'[v] = [Sent EXCEPT !.child = Written]
        BY <2>3, <2>4, <3>1
      <4>2. loc'[v].child = Written /\ loc'[v].obj = Sent.obj
        BY <2>3, <4>1 DEF Copies
      <4>3. store'[Sent.obj] = Written /\ Written.ver \in Nat
        BY <2>1, UpdateType, WrittenGrows DEF Inv, TypeOK, Children
      <4> QED
        BY <4>2, <4>3 DEF Held, Current
    <3>2. CASE v # Step.upd
      <4>1. v # Step.into
        BY <2>1, <2>4, <3>2, FilledIsSent
      <4>2. loc'[v] = loc[v]
        BY <2>3, <2>4, <3>2, <4>1 DEF Assigned, Inv, TypeOK
      <4> QED
        BY <2>1, <2>4, <4>2, HeldKept DEF CopiesCurrent, LocCurrent
    <3> QED
      BY <3>1, <3>2
  <2> QED
    BY <2>2, <2>4, NoVariables DEF LocCurrent
<1> QED
  BY <1>1, <1>2, <1>3, <1>4, <1>5, <1>6, StepKinds

LEMMA InitCopiesCurrent == Init => CopiesCurrent
<1> SUFFICES ASSUME Init PROVE CopiesCurrent
  OBVIOUS
<1>1. cache = store /\ loc = NoLocals
  BY DEF Init
<1>2. CacheCurrent
  BY <1>1, InitInv, ObjectTyped DEF CacheCurrent, Current
<1>3. LocCurrent
  BY <1>1 DEF LocCurrent, Held, NoLocals
<1> QED
  BY <1>2, <1>3 DEF CopiesCurrent

LEMMA CopiesCurrentStep == Inv /\ CopiesCurrent /\ [Next]_vars => CopiesCurrent'
BY CacheCurrentStep, LocCurrentStep DEF CopiesCurrent

-----------------------------------------------------------------------------
(* The theorem *)

\* A block that sends another variable than its own writes nothing, if it is heard.
LEMMA OtherVariableSent ==
  ASSUME Inv, CopiesCurrent, pc = "update", Acceptable, Step.upd # Step.into
  PROVE  Written = store[Sent.obj]
<1>1. /\ Step.upd \in Locals /\ Step.into \in Locals
      /\ Step \in StepsOf(me.config, phase) /\ pc \in Acting
  BY UpdateType, StepType DEF Acting
<1>2. Sent = loc[Step.upd]
  BY <1>1 DEF Sent, Assigned, Inv, TypeOK
<1>3. Step.upd \in SentVariables
  BY <1>1 DEF SentVariables
<1>4. Current(Sent.child, Sent.obj)
  BY <1>1, <1>2, <1>3 DEF CopiesCurrent, LocCurrent, Held, Acceptable
<1>5. Sent.child = store[Sent.obj]
  BY <1>4 DEF Current, Acceptable
<1> QED
  BY <1>5, WrittenGrows

\* A block that sends its own variable sends its own object, as it wants it.
LEMMA OwnVariableSent ==
  ASSUME Inv, pc = "update", Step.upd = Step.into
  PROVE  /\ Sent.obj = Step.obj
         /\ Sent.child.content = Rendered(Step.obj, me.config)
         /\ Sent.child.sel = Selector(Step.obj, me.config)
<1>1. /\ Step.into \in Locals
      /\ loc[Step.into] \in Copies /\ loc[Step.into].obj = Step.obj
  BY UpdateType DEF Inv, Control
<1> QED
  BY <1>1 DEF Sent, Assigned, Inv, TypeOK, Copies, Children

\* One step of the pass changes the object of its block, or none.
LEMMA OwnObjectStep ==
  ASSUME Inv, CopiesCurrent, [Next]_vars,
         NEW o \in Objs, store'[o] # store[o], pc' # pc
  PROVE  o = Step.obj
<1>1. CASE pc = "create" /\ CreateInStore
  BY <1>1 DEF CreateInStore, Inv, TypeOK
<1>2. CASE pc = "update" /\ UpdateInStore
  <2>1. Sent.obj \in Objs /\ o = Sent.obj /\ Written # store[o]
    BY <1>2, WrittenGrows DEF UpdateInStore, Inv, TypeOK
  <2> QED
    BY <1>2, <2>1, OtherVariableSent, OwnVariableSent DEF UpdateInStore
<1>3. CASE \/ \E p \in Workloads : BecomesAvailable(p) \/ GoesDown(p)
           \/ \E p \in Objs : DeleteChild(p) \/ EditChild(p)
  BY <1>3 DEF BecomesAvailable, GoesDown, DeleteChild, EditChild, pass
<1> QED
  BY <1>1, <1>2, <1>3, StoreKinds

\* No block overwrites what somebody did to another block's object, not even the two
\* that send another block's variable (lines 551 and 909).
THEOREM OnlyOwnObjectChanged == Spec => OnlyOwnObject
<1>1. Inv /\ CopiesCurrent /\ [Next]_vars =>
        [\A o \in Objs : store'[o] # store[o] /\ pc' # pc => o = Step.obj]_vars
  BY OwnObjectStep
<1> QED
  BY <1>1, InitInv, NextInv, InitCopiesCurrent, CopiesCurrentStep, PTL
  DEF Spec, OnlyOwnObject

-----------------------------------------------------------------------------
(* What a pass has been through *)

\* Nobody but the operator writes child objects.
Undisturbed == Disruptions \cap {"delete", "edit"} = {}

\* The object is as configuration c wants it.
Done(o, c) ==
  /\ store[o].present
  /\ store[o].content = Rendered(o, c) /\ store[o].sel = Selector(o, c)

\* The steps of a function that send their own variable.
OwnSteps(g) == {s \in StepsOf(me.config, g) : s.upd = s.into}

AllDone(steps) == \A s \in steps : Done(s.obj, me.config)

\* The blocks of the running function that the pass has been through.
Walked == {Plan[me.config][phase][i] : i \in 1 .. (at - 1)}
WalkedOwn == {s \in Walked : s.upd = s.into}

\* What a pass has been through is as the configuration it has read wants it.
WalkedDone ==
  pc \in Acting \cup {"finish"} =>
    /\ phase \in {"exporters", "done"} => AllDone(OwnSteps("gitpod"))
    /\ phase = "done" => AllDone(OwnSteps("exporters"))
    /\ phase \in {"gitpod", "exporters"} => AllDone(WalkedOwn)
    /\ pc = "finish" => phase = "done"

\* Another pass will follow.
Due == queued \/ timer \/ cellCache # cell

\* A pass works for the configuration of the Cell, or another will follow.
PassCurrent ==
  pc \notin {"idle", "fetch"} => Due \/ ~cell.live \/ me.config = cell.config

RestDone ==
  pc = "idle" => Due \/ ~cell.live \/ \A o \in Maintained : Desired(o)

Applied == WalkedDone /\ PassCurrent /\ RestDone

-----------------------------------------------------------------------------
(* Objects stay as they are wanted *)

LEMMA DoneKept ==
  ASSUME Undisturbed, Inv, CopiesCurrent, [Next]_vars,
         NEW o \in Objs, NEW c, Done(o, c), pc \in Acting => c = me.config
  PROVE  Done(o, c)'
<1>1. store \in [Objs -> Children]
  BY DEF Inv, TypeOK
<1>2. CASE UNCHANGED store
  BY <1>2 DEF Done
<1>3. CASE pc = "create" /\ CreateInStore
  <2>1. store'[o] = store[o]
    BY <1>1, <1>3 DEF CreateInStore, Done
  <2> QED
    BY <2>1 DEF Done
<1>4. CASE pc = "update" /\ UpdateInStore
  <2>1. /\ Sent.obj \in Objs /\ Acceptable /\ Written \in Children
        /\ store' = [store EXCEPT ![Sent.obj] = Written]
        /\ c = me.config
    BY <1>4, WrittenGrows, UpdateType DEF UpdateInStore, Acting
  <2>2. CASE o # Sent.obj \/ Step.upd # Step.into
    <3>1. store'[o] = store[o]
      BY <1>1, <1>4, <2>1, <2>2, OtherVariableSent
    <3> QED
      BY <3>1 DEF Done
  <2>3. CASE o = Sent.obj /\ Step.upd = Step.into
    <3>1. Sent.child.content = Rendered(o, c)
      BY <1>4, <2>1, <2>3, OwnVariableSent
    <3>2. /\ Written.content = Sent.child.content
          /\ Written.present = store[o].present /\ Written.sel = store[o].sel
      BY <1>1, <2>3 DEF Written, Children
    <3>3. store'[o] = Written
      BY <1>1, <2>1, <2>3
    <3> QED
      BY <3>1, <3>2, <3>3 DEF Done
  <2> QED
    BY <2>2, <2>3
<1>5. ASSUME NEW p \in Workloads, BecomesAvailable(p) \/ GoesDown(p)
      PROVE  Done(o, c)'
  <2>1. PICK d \in Children :
          /\ p \in Objs /\ store' = [store EXCEPT ![p] = d]
          /\ d.present = store[p].present
          /\ d.content = store[p].content /\ d.sel = store[p].sel
    BY <1>5, AvailabilityChanged
  <2> QED
    BY <1>1, <2>1 DEF Done
<1>6. ~ \E p \in Objs : DeleteChild(p) \/ EditChild(p)
  BY DEF Undisturbed, DeleteChild, EditChild, Disrupt
<1> QED
  BY <1>2, <1>3, <1>4, <1>5, <1>6, StoreKinds

\* A block that sends its own variable leaves its object as wanted.
LEMMA BlockDone ==
  ASSUME Inv,
         (pc = "create" /\ CreateInStore) \/ (pc = "update" /\ UpdateInStore),
         NEW s, s = Step, s.upd = s.into, NEW c, c = me.config
  PROVE  Done(s.obj, c)'
<1>1. store \in [Objs -> Children]
  BY DEF Inv, TypeOK
<1>2. CASE pc = "create" /\ CreateInStore
  <2>1. s.obj \in Objs /\ store'[s.obj] = Created
    BY <1>1, <1>2, CreatedType DEF CreateInStore
  <2> QED
    BY <2>1 DEF Created, Done
<1>3. CASE pc = "update" /\ UpdateInStore
  <2>1. /\ Sent.obj = s.obj /\ s.obj \in Objs /\ Acceptable
        /\ Sent.child.content = Rendered(s.obj, c)
        /\ Sent.child.sel = Selector(s.obj, c)
        /\ store' = [store EXCEPT ![s.obj] = Written]
    BY <1>3, OwnVariableSent, WrittenGrows DEF UpdateInStore
  <2>2. store[s.obj].present /\ store[s.obj].sel = Sent.child.sel
    BY <2>1 DEF Acceptable
  <2>3. /\ Written.content = Sent.child.content
        /\ Written.present = store[s.obj].present /\ Written.sel = store[s.obj].sel
    BY <1>1, <2>1 DEF Written, Children
  <2>4. store'[s.obj] = Written
    BY <1>1, <2>1
  <2> QED
    BY <2>1, <2>2, <2>3, <2>4 DEF Done
<1> QED
  BY <1>2, <1>3

-----------------------------------------------------------------------------
(* The pass goes through its plan *)

LEMMA StepsTyped ==
  ASSUME NEW c \in Configs, NEW g \in Groups, NEW s \in StepsOf(c, g)
  PROVE  s.obj \in Objs
<1>1. Plan[c][g] \in Seq(Steps)
  BY PlanAssumption
<1>2. s \in Steps
  BY <1>1 DEF StepsOf
<1> QED
  BY <1>2 DEF Steps

\* The next block, or the end of the function and the beginning of the next one.
LEMMA Advance ==
  ASSUME Inv, pc \in Acting, NEW l, StepDone(l), UNCHANGED me
  PROVE  \/ /\ pc' = "read" /\ phase' = phase
            /\ Walked' = Walked \cup {Step}
         \/ /\ Walked \cup {Step} = StepsOf(me.config, phase)
            /\ phase' = After(phase, me.status) /\ Walked' = {}
            /\ pc' = "finish" <=> phase' = "done"
<1>1. /\ Plan[me.config][phase] \in Seq(Steps)
      /\ at \in 1 .. Len(Plan[me.config][phase])
  BY StepType DEF Inv, Control
<1>2. CASE at < Len(Plan[me.config][phase])
  <2>1. pc' = "read" /\ at' = at + 1 /\ phase' = phase
    BY <1>2 DEF StepDone
  <2>2. 1 .. (at' - 1) = (1 .. (at - 1)) \cup {at}
    BY <1>1, <2>1
  <2>3. Walked' = Walked \cup {Step}
    BY <2>1, <2>2 DEF Walked, Step
  <2> QED
    BY <2>1, <2>3
<1>3. CASE ~(at < Len(Plan[me.config][phase]))
  <2>1. at = Len(Plan[me.config][phase])
    BY <1>1, <1>3
  <2>2. DOMAIN Plan[me.config][phase] = (1 .. (at - 1)) \cup {at}
    BY <1>1, <2>1
  <2>3. Walked \cup {Step} = StepsOf(me.config, phase)
    BY <2>2 DEF Walked, Step, StepsOf
  <2>4. Enter(After(phase, me.status))
    BY <1>3 DEF StepDone
  <2>5. Walked' = {}
    BY <2>4 DEF Enter, Walked
  <2> QED
    BY <2>3, <2>4, <2>5 DEF Enter
<1> QED
  BY <1>2, <1>3

\* What the pass has been through is of its plan.
LEMMA WalkedTyped ==
  ASSUME Inv, pc \in Acting, NEW s \in Walked
  PROVE  s \in StepsOf(me.config, phase) /\ s.obj \in Objs
<1>1. /\ Plan[me.config][phase] \in Seq(Steps)
      /\ at \in 1 .. Len(Plan[me.config][phase])
      /\ me.config \in Configs /\ phase \in Groups
  BY StepType DEF Inv, Control, Cells
<1>2. 1 .. (at - 1) \subseteq DOMAIN Plan[me.config][phase]
  BY <1>1
<1>3. s \in StepsOf(me.config, phase)
  BY <1>2 DEF Walked, StepsOf
<1> QED
  BY <1>1, <1>3, StepsTyped

\* A block is done, and what was as wanted still is.
LEMMA BlockWalked ==
  ASSUME Undisturbed, Inv, CopiesCurrent, WalkedDone, [Next]_vars, pc \in Acting,
         NEW l, StepDone(l), UNCHANGED me,
         (pc = "create" /\ CreateInStore) \/ (pc = "update" /\ UpdateInStore)
  PROVE  WalkedDone'
<1> DEFINE c == me.config
<1>1. c \in Configs /\ phase \in Groups /\ me' = me
  BY StepType DEF Cells
<1>2. ASSUME NEW o \in Objs, Done(o, c)
      PROVE  Done(o, c)'
  BY <1>2, DoneKept
<1>3. ASSUME NEW g \in Groups, AllDone(OwnSteps(g))
      PROVE  AllDone(OwnSteps(g))'
  <2> SUFFICES ASSUME NEW s \in OwnSteps(g)
               PROVE  Done(s.obj, c)'
    BY <1>1 DEF AllDone, OwnSteps, StepsOf
  <2>1. s.obj \in Objs /\ Done(s.obj, c)
    BY <1>1, <1>3, StepsTyped DEF AllDone, OwnSteps
  <2> QED
    BY <1>2, <2>1
<1>4. ASSUME NEW s \in Walked \cup {Step}, s.upd = s.into, AllDone(WalkedOwn)
      PROVE  Done(s.obj, c)'
  <2>1. CASE s \in Walked
    <3>1. Done(s.obj, c)
      BY <1>4, <2>1 DEF WalkedOwn, AllDone
    <3> QED
      BY <1>2, <2>1, <3>1, WalkedTyped
  <2>2. CASE s = Step
    BY <1>4, <2>2, BlockDone
  <2> QED
    BY <2>1, <2>2
<1>5. /\ phase = "exporters" => AllDone(OwnSteps("gitpod"))
      /\ phase \in {"gitpod", "exporters"} => AllDone(WalkedOwn)
  BY DEF WalkedDone
<1>6. CASE /\ pc' = "read" /\ phase' = phase
           /\ Walked' = Walked \cup {Step}
  <2>1. phase \in {"gitpod", "exporters"} => AllDone(WalkedOwn)'
    BY <1>1, <1>4, <1>5, <1>6 DEF AllDone, WalkedOwn
  <2>2. phase = "exporters" => AllDone(OwnSteps("gitpod"))'
    BY <1>3, <1>5 DEF Groups
  <2>3. phase' # "done"
    BY <1>1, <1>6 DEF Groups
  <2> QED
    BY <1>6, <2>1, <2>2, <2>3 DEF WalkedDone
<1>7. CASE /\ Walked \cup {Step} = StepsOf(me.config, phase)
           /\ phase' = After(phase, me.status) /\ Walked' = {}
           /\ pc' = "finish" <=> phase' = "done"
  <2>1. ASSUME NEW g \in {"gitpod", "exporters"}, phase = g
        PROVE  AllDone(OwnSteps(g))'
    <3>1. OwnSteps(g)' = OwnSteps(g)
      BY <1>1 DEF OwnSteps, StepsOf
    <3>2. ASSUME NEW s \in OwnSteps(g)
          PROVE  Done(s.obj, c)'
      BY <1>4, <1>5, <1>7, <2>1, <3>2 DEF OwnSteps
    <3> QED
      BY <1>1, <3>1, <3>2 DEF AllDone
  <2>2. AllDone(WalkedOwn)'
    BY <1>7 DEF AllDone, WalkedOwn
  <2>3. CASE phase \in {"po", "prom"}
    <3>1. phase' \in {"prom", "gitpod"}
      BY <1>7, <2>3 DEF After
    <3> QED
      BY <1>7, <2>2, <3>1 DEF WalkedDone
  <2>4. CASE phase = "gitpod"
    <3>1. phase' = "exporters"
      BY <1>7, <2>4 DEF After
    <3>2. AllDone(OwnSteps("gitpod"))'
      BY <2>1, <2>4
    <3> QED
      BY <1>7, <2>2, <3>1, <3>2 DEF WalkedDone
  <2>5. CASE phase = "exporters"
    <3>1. phase' = "done"
      BY <1>7, <2>5 DEF After
    <3>2. AllDone(OwnSteps("gitpod"))' /\ AllDone(OwnSteps("exporters"))'
      BY <1>3, <1>5, <2>1, <2>5 DEF Groups
    <3> QED
      BY <1>7, <3>1, <3>2 DEF WalkedDone
  <2> QED
    BY <1>1, <2>3, <2>4, <2>5 DEF Groups
<1> QED
  BY <1>6, <1>7, Advance

LEMMA WalkedDoneStep ==
  ASSUME Undisturbed, Inv, CopiesCurrent, WalkedDone, [Next]_vars
  PROVE  WalkedDone'
<1>1. CASE Start \/ Fetch \/ CheckPO \/ CheckProm \/ Query \/ Finish \/ Restart
           \/ Failed
  <2>1. pc' \notin Acting \cup {"finish"}
    BY <1>1
    DEF Start, Fetch, CheckPO, CheckProm, Query, Finish, Restart, Failed, FailPass,
        EndPass, Acting
  <2> QED
    BY <2>1 DEF WalkedDone
<1>2. CASE Publish
  <2>1. /\ phase' \in {"po", "prom", "gitpod"} /\ at' = 1 /\ pc' = "read"
    BY <1>2 DEF Publish, Enter, After
  <2>2. Walked' = {}
    BY <2>1 DEF Walked
  <2>3. AllDone(WalkedOwn)'
    BY <2>2 DEF AllDone, WalkedOwn
  <2> QED
    BY <2>1, <2>3 DEF WalkedDone
<1>3. CASE Background \/ Read
  <2>1. UNCHANGED <<me, phase, at>>
    BY <1>3 DEF Background, Read, pass
  <2>2. pc' \in Acting \cup {"finish"} =>
          pc \in Acting \cup {"finish"} /\ (pc' = "finish" => pc = "finish")
    BY <1>3 DEF Background, Read, pass, Acting
  <2>3. CASE pc \notin Acting \cup {"finish"}
    BY <2>2, <2>3 DEF WalkedDone
  <2>4. CASE pc \in Acting \cup {"finish"}
    <3>1. me.config \in Configs
      BY <2>4 DEF Inv, Control, Acting, Cells
    <3>2. ASSUME NEW g \in Groups, AllDone(OwnSteps(g))
          PROVE  AllDone(OwnSteps(g))'
      <4>1. OwnSteps(g)' = OwnSteps(g)
        BY <2>1 DEF OwnSteps, StepsOf
      <4>2. ASSUME NEW s \in OwnSteps(g)
            PROVE  Done(s.obj, me.config)'
        <5>1. s.obj \in Objs /\ Done(s.obj, me.config)
          BY <3>1, <3>2, <4>2, StepsTyped DEF AllDone, OwnSteps
        <5> QED
          BY <2>1, <5>1, DoneKept
      <4> QED
        BY <4>1, <4>2 DEF AllDone
    <3>3. ASSUME pc \in Acting, AllDone(WalkedOwn)
          PROVE  AllDone(WalkedOwn)'
      <4>1. WalkedOwn' = WalkedOwn
        BY <2>1 DEF WalkedOwn, Walked
      <4>2. ASSUME NEW s \in WalkedOwn
            PROVE  Done(s.obj, me.config)'
        <5>1. s.obj \in Objs /\ Done(s.obj, me.config)
          BY <3>1, <3>3, <4>2, WalkedTyped DEF AllDone, WalkedOwn
        <5> QED
          BY <2>1, <5>1, DoneKept
      <4> QED
        BY <4>1, <4>2 DEF AllDone
    <3>4. pc = "finish" => phase = "done"
      BY DEF WalkedDone
    <3> QED
      BY <2>1, <2>2, <2>4, <3>2, <3>3, <3>4 DEF WalkedDone, Groups
  <2> QED
    BY <2>3, <2>4
<1>4. CASE Create
  BY <1>4, BlockWalked DEF Create, Acting
<1>5. CASE Update
  BY <1>5, BlockWalked DEF Update, Acting
<1> QED
  BY <1>1, <1>2, <1>3, <1>4, <1>5, StepKinds

-----------------------------------------------------------------------------
(* No edit is missed *)

\* A deleted Cell stays deleted; a pass that is due stays due until it starts or the
\* process dies.
LEMMA DueKept ==
  ASSUME Inv, CacheBehind, Background
  PROVE  /\ Due => Due'
         /\ Due' \/ UNCHANGED cell
         /\ ~cell.live => ~cell'.live
<1>1. cell.ver \in Nat /\ cellCache.ver \in Nat
  BY DEF Inv, TypeOK, Cells
<1>2. CASE CellChanges
  BY <1>1, <1>2 DEF CellChanges, CacheBehind, Due
<1>3. CASE Queued
  BY <1>3 DEF Queued, Due
<1>4. CASE UNCHANGED <<cell, cellCache, queue>>
  BY <1>4 DEF Due, queue
<1> QED
  BY <1>2, <1>3, <1>4 DEF Background

LEMMA PassCurrentStep ==
  ASSUME Inv, CacheBehind, PassCurrent, [Next]_vars
  PROVE  PassCurrent'
<1>1. CASE Start \/ Finish \/ Restart \/ Failed
  BY <1>1 DEF Start, Finish, Restart, Failed, FailPass, EndPass, PassCurrent
<1>2. CASE Fetch
  BY <1>2 DEF Fetch, EndPass, cluster, informers, queue, PassCurrent, Due
<1>3. CASE CheckPO \/ CheckProm \/ Query \/ Proceeds
  <2>1. me \in Cells /\ pc \notin {"idle", "fetch"}
    BY <1>3 DEF CheckPO, CheckProm, Query, Proceeds, Acting, Inv, Control
  <2>2. me'.config = me.config /\ UNCHANGED <<cell, cellCache, queue>>
    BY <1>3, <2>1
    DEF CheckPO, CheckProm, Query, Proceeds, Cells, cluster, informers, queue
  <2> QED
    BY <2>1, <2>2 DEF PassCurrent, Due, queue
<1>4. CASE Publish
  BY <1>4 DEF Publish, PassCurrent
<1>5. CASE Background
  <2>1. UNCHANGED <<pc, me>>
    BY <1>5 DEF Background, pass
  <2> QED
    BY <1>5, <2>1, DueKept DEF PassCurrent
<1> QED
  BY <1>1, <1>2, <1>3, <1>4, <1>5, StepKinds

\* A pass that has come to its end has reconciled what every pass reconciles.
LEMMA PassFinished ==
  ASSUME Inv, WalkedDone, pc = "finish", NEW o \in Maintained,
         me.config = cell.config
  PROVE  Desired(o)
<1>1. AllDone(OwnSteps("gitpod")) /\ AllDone(OwnSteps("exporters"))
  BY DEF WalkedDone
<1>2. PICK s \in OwnSteps("gitpod") \cup OwnSteps("exporters") : o = s.obj
  BY DEF Maintained, MaintainedFor, OwnSteps
<1> QED
  BY <1>1, <1>2 DEF AllDone, Done, Desired

LEMMA MaintainedTyped ==
  ASSUME Inv
  PROVE  Maintained \subseteq Objs
<1>1. cell.config \in Configs
  BY DEF Inv, TypeOK, Cells
<1> QED
  BY <1>1, StepsTyped DEF Maintained, MaintainedFor, Groups

LEMMA RestDoneStep ==
  ASSUME Undisturbed, Inv, CopiesCurrent, CacheBehind, Applied, [Next]_vars
  PROVE  RestDone'
<1>1. CASE Start \/ CheckPO \/ CheckProm \/ Query \/ Publish \/ Proceeds
  <2>1. pc' # "idle"
    BY <1>1
    DEF Start, CheckPO, CheckProm, Query, Publish, Enter, Proceeds, Acting
  <2> QED
    BY <2>1 DEF RestDone
<1>2. CASE Fetch
  BY <1>2 DEF Fetch, cluster, informers, queue, RestDone, Due
<1>3. CASE Finish
  <2>1. UNCHANGED <<cell, store, cellCache, queued>> /\ (timer => timer')
    BY <1>3 DEF Finish, cluster, informers
  <2>2. Due => Due'
    BY <2>1 DEF Due
  <2>3. Due \/ ~cell.live \/ me.config = cell.config
    BY <1>3 DEF Finish, Applied, PassCurrent
  <2>4. me.config = cell.config => \A o \in Maintained : Desired(o)
    BY <1>3, PassFinished DEF Finish, Applied
  <2>5. (\A o \in Maintained : Desired(o)) => (\A o \in Maintained : Desired(o))'
    BY <2>1 DEF Maintained, MaintainedFor, Desired, StepsOf
  <2> QED
    BY <2>1, <2>2, <2>3, <2>4, <2>5 DEF RestDone
<1>4. CASE Restart
  BY <1>4 DEF Restart, cluster, RestDone, Due
<1>5. CASE Failed
  BY <1>5 DEF Failed, FailPass, RestDone, Due
<1>6. CASE Background
  <2>1. UNCHANGED pc
    BY <1>6 DEF Background, pass
  <2>2. CASE Due' \/ pc # "idle" \/ ~cell.live
    BY <1>6, <2>1, <2>2, DueKept DEF RestDone
  <2>3. CASE ~Due' /\ pc = "idle" /\ cell.live
    <3>1. UNCHANGED cell /\ ~Due
      BY <1>6, <2>3, DueKept
    <3>2. Maintained' = Maintained
      BY <3>1 DEF Maintained, MaintainedFor, StepsOf
    <3>3. ASSUME NEW o \in Maintained
          PROVE  Desired(o)'
      <4>1. o \in Objs /\ Done(o, cell.config)
        BY <2>3, <3>1, MaintainedTyped DEF Applied, RestDone, Done, Desired
      <4>2. pc \notin Acting
        BY <2>3 DEF Acting
      <4>3. Done(o, cell.config)'
        BY <3>1, <4>1, <4>2, DoneKept
      <4> QED
        BY <4>3 DEF Done, Desired
    <3> QED
      BY <3>2, <3>3 DEF RestDone
  <2> QED
    BY <2>2, <2>3
<1> QED
  BY <1>1, <1>2, <1>3, <1>4, <1>5, <1>6, StepKinds

\* Where nobody else touches the child objects, the operator rests only with every
\* object of Gitpod's and of the exporters as the current Cell wants it.
THEOREM RestsOnlyWhenApplied ==
  ASSUME Undisturbed
  PROVE  Spec => []QuiescentMeansApplied
<1> DEFINE I == Inv /\ CopiesCurrent /\ CacheBehind /\ Applied
<1>1. Init => I
  <2>1. Init => CacheBehind
    BY InitInv DEF Init, Inv, TypeOK, Cells, CacheBehind
  <2>2. Init => Applied
    BY DEF Init, Applied, WalkedDone, Acting, PassCurrent, RestDone, Due
  <2> QED
    BY <2>1, <2>2, InitInv, InitCopiesCurrent
<1>2. I /\ [Next]_vars => I'
  <2>1. I /\ [Next]_vars => Inv' /\ CopiesCurrent' /\ CacheBehind'
    BY NextInv, CopiesCurrentStep, CacheBehindStep
  <2>2. I /\ [Next]_vars => Applied'
    BY WalkedDoneStep, PassCurrentStep, RestDoneStep DEF Applied
  <2> QED
    BY <2>1, <2>2
<1>3. I => QuiescentMeansApplied
  BY DEF Applied, RestDone, Due, QuiescentMeansApplied, Quiescent
<1> QED
  BY <1>1, <1>2, <1>3, PTL DEF Spec
=============================================================================
