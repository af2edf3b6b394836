-------------------------- MODULE CellReconcilerProofs --------------------------
(***************************************************************************)
(* Proofs about CellReconciler, for every plan, cluster and bound.         *)
(***************************************************************************)
EXTENDS CellReconciler, TLAPS

-----------------------------------------------------------------------------
(* Where a pass is, and what it holds there *)

Acting == {"read", "create", "update"}

\* The position of the pass fits its plan, a pass past Fetch holds a Cell, and a
\* pass about to update holds the copy of the object it is about to fill in.
Control ==
  /\ pc \notin {"idle", "fetch"} => me \in Cells
  /\ pc \in {"idle", "fetch", "checkPO", "checkProm", "query", "publish"} =>
       phase = "status"
  /\ pc \in {"idle", "fetch", "checkPO", "checkProm"} => at = 1
  /\ pc = "query" => at \in 1 .. Len(JobOrder)
  /\ pc \in Acting => /\ phase \in Groups
                      /\ at \in 1 .. Len(Plan[me.config][phase])
  /\ pc = "update" => /\ loc[Step.into] \in Copies
                      /\ loc[Step.into].obj = Step.obj

Inv == TypeOK /\ Control

\* A pass is at a block of its plan.
LEMMA StepType ==
  ASSUME Inv, pc \in Acting
  PROVE  /\ Step \in Steps
         /\ Plan[me.config][phase] \in Seq(Steps)
         /\ Step \in StepsOf(me.config, phase)
         /\ me \in Cells /\ phase \in Groups
<1>1. me \in Cells /\ phase \in Groups /\ at \in 1 .. Len(Plan[me.config][phase])
  BY DEF Inv, Control, Acting
<1>2. me.config \in Configs
  BY <1>1 DEF Cells
<1>3. Plan[me.config][phase] \in Seq(Steps)
  BY <1>1, <1>2, PlanAssumption
<1>4. at \in DOMAIN Plan[me.config][phase]
  BY <1>1, <1>3
<1> QED
  BY <1>1, <1>3, <1>4 DEF Step, StepsOf

LEMMA AfterType ==
  ASSUME NEW p, NEW s
  PROVE  After(p, s) \in Groups \cup {"done"}
BY DEF After, Groups

LEMMA NoLocalsType == NoLocals \in [Locals -> Copies \cup {Unset}]
BY DEF NoLocals

\* Leaving a pass keeps the invariant.
LEMMA EndPassInv ==
  ASSUME EndPass,
         cell' \in Cells, cellCache' \in Cells,
         store' \in [Objs -> Children], cache' \in [Objs -> Children],
         up' \in [Jobs -> Nat], queued' \in BOOLEAN, timer' \in BOOLEAN,
         left' \in Nat
  PROVE  Inv'
<1>1. TypeOK'
  BY NoLocalsType DEF EndPass, TypeOK, Pcs, Phases
<1>2. Control'
  BY DEF EndPass, Control, Acting
<1> QED
  BY <1>1, <1>2 DEF Inv

\* What Enter leaves is in type, and at the first block of a function.
LEMMA EnterType ==
  ASSUME NEW p \in Groups \cup {"done"}, Enter(p), me' \in Cells
  PROVE  /\ pc' \in Pcs /\ phase' \in Phases /\ at' \in Nat \ {0}
         /\ loc' \in [Locals -> Copies \cup {Unset}]
         /\ Control'
<1>1. me'.config \in Configs
  BY DEF Cells
<1>2. p \in Groups => /\ Plan[me'.config][p] \in Seq(Steps)
                      /\ Len(Plan[me'.config][p]) > 0
  BY <1>1, PlanAssumption
<1>3. "done" \notin Groups
  BY DEF Groups
<1>4. pc' \in {"read", "finish"} /\ phase' = p /\ at' = 1 /\ loc' = NoLocals
  BY DEF Enter
<1>5. pc' = "read" => p \in Groups
  BY DEF Enter
<1>6. pc' = "read" => 1 \in 1 .. Len(Plan[me'.config][p])
  BY <1>2, <1>5
<1>7. Control'
  BY <1>4, <1>5, <1>6 DEF Control, Acting
<1> QED
  BY <1>4, <1>7, NoLocalsType DEF Pcs, Phases

\* The same for the next block.
LEMMA StepDoneType ==
  ASSUME Inv, pc \in Acting,
         NEW l \in [Locals -> Copies \cup {Unset}], StepDone(l), UNCHANGED me
  PROVE  /\ pc' \in Pcs /\ phase' \in Phases /\ at' \in Nat \ {0}
         /\ loc' \in [Locals -> Copies \cup {Unset}]
         /\ Control'
<1>1. /\ me \in Cells /\ phase \in Groups
      /\ Plan[me.config][phase] \in Seq(Steps) /\ at \in Nat
  BY StepType DEF Inv, TypeOK
<1>2. CASE at < Len(Plan[me.config][phase])
  <2>1. pc' = "read" /\ at' = at + 1 /\ loc' = l /\ phase' = phase
    BY <1>2 DEF StepDone
  <2>2. at' \in 1 .. Len(Plan[me'.config][phase'])
    BY <1>1, <1>2, <2>1
  <2>3. Control'
    BY <1>1, <2>1, <2>2 DEF Control, Acting
  <2> QED
    BY <1>1, <2>1, <2>3 DEF Pcs, Phases
<1>3. CASE ~(at < Len(Plan[me.config][phase]))
  <2>1. Enter(After(phase, me.status))
    BY <1>3 DEF StepDone
  <2> QED
    BY <1>1, <2>1, AfterType, EnterType
<1> QED
  BY <1>2, <1>3

-----------------------------------------------------------------------------
(* Types of the values a pass computes *)

LEMMA ContentType ==
  ASSUME NEW o \in Objs, NEW c \in Configs
  PROVE  Rendered(o, c) \in Contents /\ Selector(o, c) \in Selectors
BY DEF Contents, Selectors

\* A status flag set to one of the flags gives a Cell again.
LEMMA FlagType ==
  ASSUME NEW c \in Cells, NEW f \in FlagNames, NEW b
  PROVE  /\ [c EXCEPT !.status[f] = Flag(b)] \in Cells
         /\ Flag(b) \in {"true", "false"}
<1>1. Flag(b) \in {"true", "false"}
  BY DEF Flag
<1>2. c.status \in [FlagNames -> Flags]
  BY DEF Cells, Statuses
<1>3. [c.status EXCEPT ![f] = Flag(b)] \in Statuses
  BY <1>1, <1>2 DEF Statuses, Flags
<1> QED
  BY <1>1, <1>3 DEF Cells

\* A write keeps the type of what it writes to.
LEMMA ChildWritten ==
  ASSUME NEW c \in Children, NEW v \in Nat
  PROVE  /\ \A b \in BOOLEAN : [c EXCEPT !.avail = b, !.ver = v] \in Children
         /\ \A x \in Contents : [c EXCEPT !.content = x, !.ver = v] \in Children
BY DEF Children

LEMMA CellWritten ==
  ASSUME NEW c \in Cells, NEW v \in Nat
  PROVE  /\ \A x \in Configs : [c EXCEPT !.config = x, !.ver = v] \in Cells
         /\ \A b \in BOOLEAN : [c EXCEPT !.live = b, !.ver = v] \in Cells
BY DEF Cells

LEMMA PublishedType ==
  ASSUME TypeOK, me \in Cells
  PROVE  Published \in Cells
<1> DEFINE v == IF me.status = cell.status THEN cell.ver ELSE cell.ver + 1
<1>1. cell \in Cells /\ me.status \in Statuses
  BY DEF TypeOK, Cells
<1>2. v \in Nat
  BY <1>1 DEF Cells
<1>3. Published = [cell EXCEPT !.status = me.status, !.ver = v]
  BY DEF Published
<1> HIDE DEF v
<1> QED
  BY <1>1, <1>2, <1>3 DEF Cells

LEMMA CreatedType ==
  ASSUME Inv, pc = "create"
  PROVE  Step.obj \in Objs /\ Created \in Children
<1>1. Step \in Steps /\ me \in Cells
  BY StepType DEF Acting
<1>2. Step.obj \in Objs /\ me.config \in Configs
  BY <1>1 DEF Steps, Cells
<1>3. store[Step.obj].ver \in Nat
  BY <1>2 DEF Inv, TypeOK, Children
<1> QED
  BY <1>2, <1>3, ContentType DEF Created, Children

\* What an update sends and what it leaves in the API server.
LEMMA UpdateType ==
  ASSUME Inv, pc = "update"
  PROVE  /\ Step.upd \in Locals /\ Step.into \in Locals /\ Step.obj \in Objs
         /\ Assigned \in [Locals -> Copies \cup {Unset}]
         /\ Acceptable => /\ Sent \in Copies /\ Written \in Children
                          /\ [Assigned EXCEPT ![Step.upd].child = Written]
                               \in [Locals -> Copies \cup {Unset}]
<1>1. Step \in Steps /\ me \in Cells
  BY StepType DEF Acting
<1>2. /\ Step.obj \in Objs /\ me.config \in Configs
      /\ Step.into \in Locals /\ Step.upd \in Locals
  BY <1>1 DEF Steps, Cells
<1>3. loc \in [Locals -> Copies \cup {Unset}] /\ loc[Step.into] \in Copies
  BY DEF Inv, TypeOK, Control
<1> DEFINE filled == [loc[Step.into] EXCEPT
                        !.child.content = Rendered(Step.obj, me.config),
                        !.child.sel = Selector(Step.obj, me.config)]
<1>4. filled \in Copies
  BY <1>2, <1>3, ContentType DEF Copies, Children
<1>5. Assigned = [loc EXCEPT ![Step.into] = filled]
  BY <1>2, <1>3 DEF Assigned
<1>6. Assigned \in [Locals -> Copies \cup {Unset}]
  BY <1>2, <1>3, <1>4, <1>5
<1>7. ASSUME Acceptable
      PROVE  /\ Sent \in Copies /\ Written \in Children
             /\ [Assigned EXCEPT ![Step.upd].child = Written]
                  \in [Locals -> Copies \cup {Unset}]
  <2>1. Sent \in Copies /\ Sent = Assigned[Step.upd]
    BY <1>2, <1>6, <1>7 DEF Sent, Acceptable
  <2>2. Sent.obj \in Objs /\ Sent.child \in Children
    BY <2>1 DEF Copies
  <2>3. store[Sent.obj] \in Children
    BY <2>2 DEF Inv, TypeOK
  <2>4. Written \in Children
    <3> DEFINE c == store[Sent.obj]
               v == IF c.content = Sent.child.content THEN c.ver ELSE c.ver + 1
    <3>1. c \in Children /\ Sent.child.content \in Contents
      BY <2>2, <2>3 DEF Children
    <3>2. v \in Nat
      BY <3>1 DEF Children
    <3>3. Written = [c EXCEPT !.content = Sent.child.content, !.ver = v]
      BY DEF Written
    <3> HIDE DEF c, v
    <3> QED
      BY <3>1, <3>2, <3>3 DEF Children
  <2>5. [Sent EXCEPT !.child = Written] \in Copies
    BY <2>1, <2>4 DEF Copies
  <2> QED
    BY <1>2, <1>6, <2>1, <2>4, <2>5
<1> QED
  BY <1>2, <1>6, <1>7

-----------------------------------------------------------------------------
(* The type invariant *)

\* Everything outside the pass is in type, after a step.
OutsideTyped ==
  /\ cell \in Cells /\ cellCache \in Cells
  /\ store \in [Objs -> Children] /\ cache \in [Objs -> Children]
  /\ up \in [Jobs -> Nat]
  /\ queued \in BOOLEAN /\ timer \in BOOLEAN /\ left \in Nat

LEMMA OutsideKept == 
  ASSUME Inv PROVE OutsideTyped
BY DEF Inv, TypeOK, OutsideTyped

\* A step that ends the pass, and one that leaves it alone.
LEMMA PassEnded ==
  ASSUME EndPass, OutsideTyped'
  PROVE  Inv'
BY EndPassInv DEF OutsideTyped

LEMMA PassKept ==
  ASSUME Inv, UNCHANGED pass, OutsideTyped'
  PROVE  Inv'
<1>1. TypeOK'
  BY DEF Inv, TypeOK, OutsideTyped, pass
<1>2. Control'
  BY DEF Inv, Control, pass, Step, Acting
<1> QED
  BY <1>1, <1>2 DEF Inv

LEMMA PassMoved ==
  ASSUME OutsideTyped', Control',
         pc' \in Pcs, phase' \in Phases, at' \in Nat \ {0},
         me' \in Cells \cup {Unset}, loc' \in [Locals -> Copies \cup {Unset}]
  PROVE  Inv'
BY DEF Inv, TypeOK, OutsideTyped

LEMMA InitInv == Init => Inv
<1> SUFFICES ASSUME Init PROVE Inv
  OBVIOUS
<1>1. PICK s \in InitStates :
        /\ cell = [live |-> TRUE, ver |-> 0, config |-> InitConfig,
                   status |-> s.status]
        /\ store = s.store /\ up = s.up
  BY DEF Init
<1>2. /\ s.store \in [Objs -> Children] /\ s.up \in [Jobs -> Nat]
      /\ s.status \in Statuses
  BY ClusterAssumption
<1>3. cell \in Cells
  BY <1>1, <1>2, ClusterAssumption DEF Cells
<1>4. store \in [Objs -> Children] /\ up \in [Jobs -> Nat]
  BY <1>1, <1>2
<1>5. /\ cellCache = cell /\ cache = store /\ queued = TRUE /\ timer = FALSE
      /\ pc = "idle" /\ phase = "status" /\ at = 1 /\ me = Unset
      /\ loc = NoLocals /\ left = MaxDisruptions
  BY DEF Init
<1>6. TypeOK
  <2>1. at \in Nat \ {0} /\ left \in Nat
    BY <1>5, BoundAssumption
  <2>2. queued \in BOOLEAN /\ timer \in BOOLEAN
    BY <1>5
  <2>3. loc \in [Locals -> Copies \cup {Unset}] /\ me \in Cells \cup {Unset}
    BY <1>5, NoLocalsType
  <2>4. pc \in Pcs /\ phase \in Phases
    BY <1>5 DEF Pcs, Phases
  <2>5. cellCache \in Cells /\ cache \in [Objs -> Children]
    BY <1>3, <1>4, <1>5
  <2> QED
    BY <1>3, <1>4, <2>1, <2>2, <2>3, <2>4, <2>5 DEF TypeOK
<1>7. Control
  BY <1>5 DEF Control, Acting
<1> QED
  BY <1>6, <1>7 DEF Inv

\* Steps of the pass up to the publication of the status.
LEMMA StatusStepsInv ==
  ASSUME Inv, Start \/ Fetch \/ CheckPO \/ CheckProm \/ Query \/ QueryFails
              \/ Publish \/ PublishRejected
  PROVE  Inv'
<1> USE OutsideKept
<1>1. CASE Start
  <2>1. Control'
    BY <1>1 DEF Start, Inv, Control, Acting
  <2> QED
    BY <1>1, <2>1, PassMoved
    DEF Start, Inv, TypeOK, OutsideTyped, Pcs, cluster, informers
<1>2. CASE Fetch
  <2>1. OutsideTyped'
    BY <1>2 DEF Fetch, OutsideTyped, cluster, informers, queue
  <2>2. CASE cellCache.live
    <3>1. pc' = "checkPO" /\ me' = cellCache /\ UNCHANGED <<phase, at, loc>>
      BY <1>2, <2>2 DEF Fetch
    <3>2. Control'
      BY <1>2, <3>1 DEF Fetch, Inv, TypeOK, Control, Acting
    <3> QED
      BY <2>1, <3>1, <3>2, PassMoved DEF Inv, TypeOK, Pcs
  <2>3. CASE ~cellCache.live
    BY <1>2, <2>1, <2>3, PassEnded DEF Fetch
  <2> QED
    BY <2>2, <2>3
<1>3. CASE CheckPO
  <2>1. OutsideTyped'
    BY <1>3 DEF CheckPO, OutsideTyped, cluster, informers, queue
  <2>2. me \in Cells
    BY <1>3 DEF CheckPO, Inv, Control
  <2>3. me' \in Cells
    BY <1>3, <2>2, FlagType DEF CheckPO, FlagNames
  <2>4. Control'
    BY <1>3, <2>3 DEF CheckPO, Inv, Control, Acting
  <2> QED
    BY <1>3, <2>1, <2>3, <2>4, PassMoved DEF CheckPO, Inv, TypeOK, Pcs
<1>4. CASE CheckProm
  <2>1. OutsideTyped'
    BY <1>4 DEF CheckProm, OutsideTyped, cluster, informers, queue
  <2>2. me \in Cells
    BY <1>4 DEF CheckProm, Inv, Control
  <2>3. me' \in Cells /\ pc' \in {"query", "publish"}
    BY <1>4, <2>2, FlagType DEF CheckProm, FlagNames
  <2>4. 1 \in 1 .. Len(JobOrder)
    BY DEF JobOrder
  <2>5. Control'
    BY <1>4, <2>3, <2>4 DEF CheckProm, Inv, Control, Acting
  <2> QED
    BY <1>4, <2>1, <2>3, <2>5, PassMoved DEF CheckProm, Inv, TypeOK, Pcs
<1>5. CASE Query
  <2>1. OutsideTyped'
    BY <1>5 DEF Query, OutsideTyped, cluster, informers, queue
  <2>2. me \in Cells /\ at \in 1 .. Len(JobOrder) /\ phase = "status"
    BY <1>5 DEF Query, Inv, Control
  <2>3. JobOrder[at] \in FlagNames
    BY <2>2 DEF JobOrder, FlagNames, Jobs
  <2>4. me' \in Cells
    BY <1>5, <2>2, <2>3, FlagType DEF Query
  <2>5. /\ at' \in Nat \ {0}
        /\ \/ pc' = "query" /\ at' \in 1 .. Len(JobOrder)
           \/ pc' = "publish"
    BY <1>5, <2>2 DEF Query, JobOrder
  <2>6. Control'
    BY <1>5, <2>2, <2>4, <2>5 DEF Query, Control, Acting
  <2> QED
    BY <1>5, <2>1, <2>4, <2>5, <2>6, PassMoved DEF Query, Inv, TypeOK, Pcs
<1>6. CASE QueryFails
  BY <1>6, PassEnded
  DEF QueryFails, FailPass, OutsideTyped, cluster, informers
<1>7. CASE Publish
  <2>1. me \in Cells
    BY <1>7 DEF Publish, Inv, Control
  <2>2. cell' \in Cells /\ me' \in Cells
    BY <1>7, <2>1, PublishedType DEF Publish, Inv
  <2>3. OutsideTyped'
    BY <1>7, <2>2 DEF Publish, OutsideTyped, informers, queue
  <2> QED
    BY <1>7, <2>2, <2>3, AfterType, EnterType, PassMoved DEF Publish
<1>8. CASE PublishRejected
  BY <1>8, PassEnded
  DEF PublishRejected, FailPass, OutsideTyped, cluster, informers
<1> QED
  BY <1>1, <1>2, <1>3, <1>4, <1>5, <1>6, <1>7, <1>8

\* Steps about one child object, and the end of the pass.
LEMMA ObjectStepsInv ==
  ASSUME Inv, Read \/ Create \/ CreateRejected \/ Update \/ UpdateRejected
              \/ Finish
  PROVE  Inv'
<1> USE OutsideKept
<1>1. CASE Read
  <2>1. OutsideTyped'
    BY <1>1 DEF Read, OutsideTyped, cluster, informers, queue
  <2>2. /\ Step \in Steps /\ me \in Cells
        /\ Step' = Step /\ UNCHANGED <<phase, at, me>>
    BY <1>1, StepType DEF Read, Acting, Step
  <2>3. Step.obj \in Objs /\ Step.into \in Locals
    BY <2>2 DEF Steps
  <2> DEFINE copy == [obj |-> Step.obj, child |-> cache[Step.obj]]
  <2>4. copy \in Copies
    BY <2>3 DEF Copies, Inv, TypeOK
  <2>5. CASE cache[Step.obj].present
    <3>1. loc' = [loc EXCEPT ![Step.into] = copy] /\ pc' = "update"
      BY <1>1, <2>5 DEF Read
    <3>2. /\ loc' \in [Locals -> Copies \cup {Unset}]
          /\ loc'[Step.into] = copy
      BY <2>3, <2>4, <3>1 DEF Inv, TypeOK
    <3> HIDE DEF copy
    <3>3. copy \in Copies /\ copy.obj = Step.obj
      BY <2>4 DEF copy
    <3>4. Control'
      BY <1>1, <2>2, <3>1, <3>2, <3>3 DEF Read, Inv, Control, Acting
    <3> QED
      BY <2>1, <2>2, <3>1, <3>2, <3>4, PassMoved DEF Inv, TypeOK, Pcs
  <2>6. CASE ~cache[Step.obj].present
    <3>1. UNCHANGED loc /\ pc' = "create"
      BY <1>1, <2>6 DEF Read
    <3>2. Control'
      BY <1>1, <2>2, <3>1 DEF Read, Inv, Control, Acting
    <3> QED
      BY <2>1, <2>2, <3>1, <3>2, PassMoved DEF Inv, TypeOK, Pcs
  <2> QED
    BY <2>5, <2>6
<1>2. CASE Create
  <2>1. store' \in [Objs -> Children]
    BY <1>2, CreatedType DEF Create, CreateInStore, Inv, TypeOK
  <2>2. OutsideTyped'
    BY <1>2, <2>1 DEF Create, OutsideTyped, informers, queue
  <2>3. me' \in Cells /\ UNCHANGED me
    BY <1>2 DEF Create, Inv, Control
  <2>4. loc \in [Locals -> Copies \cup {Unset}] /\ StepDone(loc) /\ pc \in Acting
    BY <1>2 DEF Create, Inv, TypeOK, Acting
  <2> QED
    BY <2>2, <2>3, <2>4, StepDoneType, PassMoved
<1>3. CASE CreateRejected
  BY <1>3, PassEnded
  DEF CreateRejected, FailPass, OutsideTyped, cluster, informers
<1>4. CASE Update
  <2>1. /\ Sent \in Copies /\ Written \in Children
        /\ [Assigned EXCEPT ![Step.upd].child = Written]
             \in [Locals -> Copies \cup {Unset}]
    BY <1>4, UpdateType DEF Update, UpdateInStore
  <2>2. Sent.obj \in Objs
    BY <2>1 DEF Copies
  <2>3. store' \in [Objs -> Children]
    BY <1>4, <2>1, <2>2 DEF Update, UpdateInStore, Inv, TypeOK
  <2>4. OutsideTyped'
    BY <1>4, <2>3 DEF Update, OutsideTyped, informers, queue
  <2>5. me' \in Cells /\ UNCHANGED me
    BY <1>4 DEF Update, Inv, Control
  <2>6. StepDone([Assigned EXCEPT ![Step.upd].child = Written]) /\ pc \in Acting
    BY <1>4 DEF Update, Acting
  <2> QED
    BY <2>1, <2>4, <2>5, <2>6, StepDoneType, PassMoved
<1>5. CASE UpdateRejected
  BY <1>5, PassEnded
  DEF UpdateRejected, FailPass, OutsideTyped, cluster, informers
<1>6. CASE Finish
  <2>1. timer' \in BOOLEAN
    BY <1>6 DEF Finish, NeedsRequeue
  <2> QED
    BY <1>6, <2>1, PassEnded DEF Finish, OutsideTyped, cluster, informers
<1> QED
  BY <1>1, <1>2, <1>3, <1>4, <1>5, <1>6

\* Requests that fail and crashes.
LEMMA FailuresInv ==
  ASSUME Inv, Failures
  PROVE  Inv'
<1> USE OutsideKept
<1>1. ASSUME NEW kind, Disrupt(kind) PROVE left' \in Nat
  BY <1>1 DEF Disrupt, Inv, TypeOK
<1>2. CASE RequestFails
  <2>1. left' \in Nat
    BY <1>1, <1>2 DEF RequestFails
  <2> QED
    BY <1>2, <2>1, PassEnded
    DEF RequestFails, FailPass, OutsideTyped, cluster, informers
<1>3. CASE Unanswered
  <2>1. left' \in Nat
    BY <1>1, <1>3 DEF Unanswered
  <2>2. cell' \in Cells /\ store' \in [Objs -> Children]
    <3>1. CASE pc = "publish" /\ Publishable /\ cell' = Published /\ UNCHANGED store
      BY <3>1, PublishedType DEF Inv, TypeOK, Control
    <3>2. CASE pc = "create" /\ CreateInStore /\ UNCHANGED cell
      BY <3>2, CreatedType DEF CreateInStore, Inv, TypeOK
    <3>3. CASE pc = "update" /\ UpdateInStore /\ UNCHANGED cell
      <4>1. Sent \in Copies /\ Written \in Children
        BY <3>3, UpdateType DEF UpdateInStore
      <4>2. Sent.obj \in Objs
        BY <4>1 DEF Copies
      <4> QED
        BY <3>3, <4>1, <4>2 DEF UpdateInStore, Inv, TypeOK
    <3> QED
      BY <1>3, <3>1, <3>2, <3>3 DEF Unanswered
  <2> QED
    BY <1>3, <2>1, <2>2, PassEnded
    DEF Unanswered, FailPass, OutsideTyped, informers
<1>4. CASE Restart
  <2>1. left' \in Nat
    BY <1>1, <1>4 DEF Restart
  <2>2. OutsideTyped'
    BY <1>4, <2>1 DEF Restart, OutsideTyped, cluster, Cells
  <2> QED
    BY <1>4, <2>2, PassEnded DEF Restart
<1> QED
  BY <1>2, <1>3, <1>4 DEF Failures

LEMMA InformersInv ==
  ASSUME Inv, Informers
  PROVE  Inv'
<1> USE OutsideKept
<1>1. UNCHANGED pass
  BY DEF Informers, SyncCell, SyncChild, TimerFires, Resync
<1>2. CASE SyncCell
  BY <1>1, <1>2, PassKept DEF SyncCell, OutsideTyped, cluster
<1>3. CASE TimerFires
  BY <1>1, <1>3, PassKept DEF TimerFires, OutsideTyped, cluster, informers
<1>4. CASE Resync
  BY <1>1, <1>4, PassKept DEF Resync, OutsideTyped, cluster, informers
<1>5. ASSUME NEW o \in Objs, SyncChild(o) PROVE Inv'
  <2>1. cache' \in [Objs -> Children]
    BY <1>5 DEF SyncChild, OutsideTyped
  <2> QED
    BY <1>1, <1>5, <2>1, PassKept DEF SyncChild, OutsideTyped, cluster, queue
<1> QED
  BY <1>2, <1>3, <1>4, <1>5 DEF Informers

LEMMA EnvironmentInv ==
  ASSUME Inv, Environment
  PROVE  Inv'
<1> USE OutsideKept
<1>1. ASSUME NEW kind, Disrupt(kind) PROVE left' \in Nat
  BY <1>1 DEF Disrupt, Inv, TypeOK
<1>2. ASSUME NEW o \in Objs, NEW c \in Children,
             store' = [store EXCEPT ![o] = c], left' \in Nat,
             UNCHANGED <<cell, up, informers, queue, pass>>
      PROVE  Inv'
  BY <1>2, PassKept DEF OutsideTyped, informers, queue
<1>3. ASSUME NEW j \in Jobs, NEW n \in Nat,
             up' = [up EXCEPT ![j] = n], left' \in Nat,
             UNCHANGED <<cell, store, informers, queue, pass>>
      PROVE  Inv'
  BY <1>3, PassKept DEF OutsideTyped, informers, queue
<1>4. ASSUME cell' \in Cells, left' \in Nat,
             UNCHANGED <<store, up, informers, queue, pass>>
      PROVE  Inv'
  BY <1>4, PassKept DEF OutsideTyped, informers, queue
<1>5. \A o \in Objs : store[o] \in Children /\ store[o].ver \in Nat
  BY DEF Inv, TypeOK, Children
<1>6. ASSUME NEW o \in Workloads, BecomesAvailable(o) \/ GoesDown(o)
      PROVE  Inv'
  <2>1. o \in Objs /\ store \in [Objs -> Children]
    BY ClusterAssumption DEF Workloads, Inv, TypeOK
  <2>2. /\ [store[o] EXCEPT !.avail = TRUE, !.ver = @ + 1] \in Children
        /\ [store[o] EXCEPT !.avail = FALSE, !.ver = @ + 1] \in Children
    <3>1. store[o] \in Children /\ store[o].ver + 1 \in Nat
      BY <1>5, <2>1
    <3> QED
      BY <3>1, ChildWritten
  <2>3. CASE BecomesAvailable(o)
    <3>1. store' = [store EXCEPT ![o] =
                      [store[o] EXCEPT !.avail = TRUE, !.ver = @ + 1]]
      BY <2>1, <2>3 DEF BecomesAvailable
    <3>2. left' \in Nat
      BY <2>3 DEF BecomesAvailable, Inv, TypeOK
    <3> QED
      BY <1>2, <2>1, <2>2, <2>3, <3>1, <3>2 DEF BecomesAvailable
  <2>4. CASE GoesDown(o)
    <3>1. store' = [store EXCEPT ![o] =
                      [store[o] EXCEPT !.avail = FALSE, !.ver = @ + 1]]
      BY <2>1, <2>4 DEF GoesDown
    <3>2. left' \in Nat
      BY <1>1, <2>4 DEF GoesDown
    <3> QED
      BY <1>2, <2>1, <2>2, <2>4, <3>1, <3>2 DEF GoesDown
  <2> QED
    BY <1>6, <2>3, <2>4
<1>7. ASSUME NEW o \in Objs, DeleteChild(o) \/ EditChild(o)
      PROVE  Inv'
  <2>1. store \in [Objs -> Children]
    BY DEF Inv, TypeOK
  <2>2. CASE DeleteChild(o)
    <3>1. store' = [store EXCEPT ![o] = Gone(store[o].ver + 1)]
      BY <2>2 DEF DeleteChild
    <3>2. Gone(store[o].ver + 1) \in Children
      BY <1>5 DEF Gone, Children, Contents, Selectors
    <3> QED
      BY <1>1, <1>2, <2>2, <3>1, <3>2 DEF DeleteChild
  <2>3. CASE EditChild(o)
    <3>1. store' = [store EXCEPT ![o] =
                      [store[o] EXCEPT !.content = Foreign, !.ver = @ + 1]]
      BY <2>1, <2>3 DEF EditChild
    <3>2. [store[o] EXCEPT !.content = Foreign, !.ver = @ + 1] \in Children
      <4>1. store[o].ver + 1 \in Nat /\ Foreign \in Contents
        BY <1>5 DEF Contents
      <4> QED
        BY <1>5, <4>1, ChildWritten
    <3> QED
      BY <1>1, <1>2, <2>3, <3>1, <3>2 DEF EditChild
  <2> QED
    BY <1>7, <2>2, <2>3
<1>8. ASSUME NEW j \in Jobs, TargetsUp(j) \/ TargetsLost(j) \/ TargetDown(j)
      PROVE  Inv'
  <2>1. up[j] \in Nat /\ Instances[j] \in Nat
    BY ClusterAssumption DEF Inv, TypeOK
  <2>2. CASE TargetsUp(j)
    BY <1>3, <2>1, <2>2 DEF TargetsUp, Inv, TypeOK
  <2>3. CASE TargetsLost(j)
    BY <1>3, <2>3 DEF TargetsLost, Inv, TypeOK
  <2>4. CASE TargetDown(j)
    <3>1. up' = [up EXCEPT ![j] = up[j] - 1] /\ up[j] - 1 \in Nat
      BY <2>1, <2>4 DEF TargetDown
    <3> QED
      BY <1>1, <1>3, <2>4, <3>1 DEF TargetDown
  <2> QED
    BY <1>8, <2>2, <2>3, <2>4
<1>9. ASSUME NEW c \in Configs, EditCell(c) PROVE Inv'
  <2>1. cell' \in Cells
    <3>1. cell \in Cells /\ cell.ver + 1 \in Nat
      BY DEF Inv, TypeOK, Cells
    <3> QED
      BY <1>9, <3>1, CellWritten DEF EditCell
  <2> QED
    BY <1>1, <1>4, <1>9, <2>1 DEF EditCell
<1>10. CASE DeleteCell
  <2>1. cell' \in Cells
    <3>1. cell \in Cells /\ cell.ver + 1 \in Nat
      BY DEF Inv, TypeOK, Cells
    <3> QED
      BY <1>10, <3>1, CellWritten DEF DeleteCell
  <2> QED
    BY <1>1, <1>4, <1>10, <2>1 DEF DeleteCell
<1> QED
  BY <1>6, <1>7, <1>8, <1>9, <1>10 DEF Environment

LEMMA NextInv == Inv /\ [Next]_vars => Inv'
<1> SUFFICES ASSUME Inv, [Next]_vars PROVE Inv'
  OBVIOUS
<1>1. CASE Reconcile
  BY <1>1, StatusStepsInv, ObjectStepsInv DEF Reconcile
<1>2. CASE Failures
  BY <1>2, FailuresInv
<1>3. CASE Informers
  BY <1>3, InformersInv
<1>4. CASE Environment
  BY <1>4, EnvironmentInv
<1>5. CASE UNCHANGED vars
  BY <1>5, PassKept, OutsideKept DEF vars, cluster, informers, queue, OutsideTyped
<1> QED
  BY <1>1, <1>2, <1>3, <1>4, <1>5 DEF Next

\* Every reachable state has its type, and a pass is always at a block of the plan
\* of the Cell it read.
THEOREM TypeCorrect == Spec => []TypeOK
<1>1. Inv => TypeOK
  BY DEF Inv
<1> QED
  BY <1>1, InitInv, NextInv, PTL DEF Spec

-----------------------------------------------------------------------------
(* What a step is, as far as the Cell, the queue and the pass are concerned *)

\* A request fails, and its pass with it.
Failed == /\ FailPass /\ UNCHANGED cellCache
          /\ cell' = cell \/ cell' = Published

\* The pass goes on to another request about child objects, or to its end.
Proceeds == /\ pc \in Acting /\ pc' \in Acting \cup {"finish"}
            /\ UNCHANGED <<cell, cellCache, queue, me>>

\* A spec edit or the deletion of the Cell.
CellChanges == /\ cell'.ver = cell.ver + 1 /\ cell'.status = cell.status
               /\ cell'.live => cell.live
               /\ UNCHANGED <<cellCache, queue>>

\* The request is queued; the cached Cell is what it was, or up to date.
Queued == /\ queued' = TRUE /\ UNCHANGED cell
          /\ cellCache' = cell \/ cellCache' = cellCache

\* A step of anything but the pass.
Background == /\ UNCHANGED pass
              /\ CellChanges \/ Queued \/ UNCHANGED <<cell, cellCache, queue>>

LEMMA StepDoneProceeds ==
  ASSUME NEW l, StepDone(l)
  PROVE  pc' \in {"read", "finish"}
BY DEF StepDone, Enter

LEMMA StepKinds ==
  ASSUME Inv, [Next]_vars
  PROVE  \/ Start \/ Fetch \/ CheckPO \/ CheckProm \/ Query \/ Publish
         \/ Finish \/ Restart \/ Failed \/ Background
         \/ Proceeds /\ (Read \/ Create \/ Update)
<1>1. ASSUME QueryFails \/ PublishRejected \/ CreateRejected \/ UpdateRejected
             \/ RequestFails \/ Unanswered
      PROVE  Failed
  BY <1>1
  DEF QueryFails, PublishRejected, CreateRejected, UpdateRejected, RequestFails,
      Unanswered, Failed, cluster, informers
<1>2. ASSUME Read \/ Create \/ Update
      PROVE  Proceeds
  BY <1>2, StepDoneProceeds
  DEF Read, Create, Update, Proceeds, Acting, cluster, informers, queue
<1>3. ASSUME Informers
      PROVE  Background
  BY <1>3
  DEF Informers, SyncCell, SyncChild, TimerFires, Resync, Background, Queued,
      cluster, informers, queue
<1>4. ASSUME Environment
      PROVE  Background
  <2>1. CASE EditCell(cell.config) \/ DeleteCell \/ \E c \in Configs : EditCell(c)
    <3>1. cell \in Cells
      BY DEF Inv, TypeOK
    <3>2. CellChanges
      BY <2>1, <3>1 DEF EditCell, DeleteCell, CellChanges, Cells, informers
    <3> QED
      BY <2>1, <3>2 DEF EditCell, DeleteCell, Background
  <2>2. CASE \/ \E o \in Workloads : BecomesAvailable(o) \/ GoesDown(o)
             \/ \E o \in Objs : DeleteChild(o) \/ EditChild(o)
             \/ \E j \in Jobs : TargetsUp(j) \/ TargetsLost(j) \/ TargetDown(j)
    BY <2>2
    DEF BecomesAvailable, GoesDown, DeleteChild, EditChild, TargetsUp,
        TargetsLost, TargetDown, Background, informers
  <2> QED
    BY <1>4, <2>1, <2>2 DEF Environment
<1>5. ASSUME UNCHANGED vars
      PROVE  Background
  BY <1>5 DEF vars, cluster, informers, Background
<1> QED
  BY <1>1, <1>2, <1>3, <1>4, <1>5 DEF Next, Reconcile, Failures

-----------------------------------------------------------------------------
(* The pass acts on the published status *)

LEMMA ActsOnPublishedStatusStep ==
  ASSUME Inv, ActsOnPublishedStatus, [Next]_vars
  PROVE  ActsOnPublishedStatus'
<1>1. CASE Start \/ Fetch \/ CheckPO \/ CheckProm \/ Query
  <2>1. pc' \in {"fetch", "checkPO", "idle", "checkProm", "query", "publish"}
    BY <1>1 DEF Start, Fetch, EndPass, CheckPO, CheckProm, Query
  <2> QED
    BY <2>1 DEF ActsOnPublishedStatus
<1>2. CASE Publish
  BY <1>2 DEF Publish, ActsOnPublishedStatus
<1>3. CASE Finish \/ Restart \/ Failed
  BY <1>3 DEF Finish, Restart, Failed, FailPass, EndPass, ActsOnPublishedStatus
<1>4. CASE Proceeds
  BY <1>4 DEF Proceeds, Acting, ActsOnPublishedStatus
<1>5. CASE Background
  BY <1>5
  DEF Background, CellChanges, Queued, pass, ActsOnPublishedStatus
<1> QED
  BY <1>1, <1>2, <1>3, <1>4, <1>5, StepKinds

\* The gates of Reconcile and its last test follow the status the Cell shows.
THEOREM PublishedStatusActedOn == Spec => []ActsOnPublishedStatus
<1>1. Init => ActsOnPublishedStatus
  BY DEF Init, ActsOnPublishedStatus
<1>2. Inv /\ ActsOnPublishedStatus /\ [Next]_vars => ActsOnPublishedStatus'
  BY ActsOnPublishedStatusStep
<1> QED
  BY <1>1, <1>2, InitInv, NextInv, PTL DEF Spec

-----------------------------------------------------------------------------
(* No flag is dereferenced before it is set *)

FlagsSet(s) ==
  /\ s["po"] # "nil" /\ s["prom"] # "nil"
  /\ s["prom"] = "true" => \A j \in Jobs : s[j] # "nil"

\* How far updateCellStatus has come in setting them.
Asked ==
  /\ pc = "checkProm" => me.status["po"] # "nil"
  /\ pc = "query" =>
       /\ me.status["po"] # "nil" /\ me.status["prom"] = "true"
       /\ \A i \in 1 .. Len(JobOrder) : i < at => me.status[JobOrder[i]] # "nil"
  /\ pc = "publish" => FlagsSet(me.status)
  /\ pc \in {"read", "create", "update", "finish"} => FlagsSet(me.status)

\* Setting one flag leaves the others, and is not nil.
LEMMA FlagSet ==
  ASSUME NEW c \in Cells, NEW f \in FlagNames, NEW v \in {"true", "false"},
         NEW d, d = [c EXCEPT !.status[f] = v]
  PROVE  /\ d.status[f] = v /\ v # "nil"
         /\ \A g \in FlagNames \ {f} : d.status[g] = c.status[g]
<1>1. c.status \in [FlagNames -> Flags]
  BY DEF Cells, Statuses
<1>2. d.status = [c.status EXCEPT ![f] = v]
  BY DEF Cells
<1> QED
  BY <1>1, <1>2

LEMMA AskedStep ==
  ASSUME Inv, Asked, [Next]_vars
  PROVE  Asked'
<1>1. CASE Start \/ Finish \/ Restart \/ Failed
  BY <1>1 DEF Start, Finish, Restart, Failed, FailPass, EndPass, Asked
<1>2. CASE Fetch
  BY <1>2 DEF Fetch, EndPass, Asked
<1>3. CASE CheckPO
  <2>1. me \in Cells /\ "po" \in FlagNames
    BY <1>3 DEF CheckPO, Inv, Control, FlagNames
  <2>2. \E v \in {"true", "false"} : me' = [me EXCEPT !.status["po"] = v]
    BY <1>3 DEF CheckPO, Flag
  <2>3. me'.status["po"] # "nil"
    BY <2>1, <2>2, FlagSet
  <2> QED
    BY <1>3, <2>3 DEF CheckPO, Asked
<1>4. CASE CheckProm
  <2>1. me \in Cells /\ "prom" \in FlagNames /\ "po" \in FlagNames \ {"prom"}
    BY <1>4 DEF CheckProm, Inv, Control, FlagNames
  <2>2. \E v \in {"true", "false"} :
          /\ me' = [me EXCEPT !.status["prom"] = v]
          /\ pc' = IF v = "true" THEN "query" ELSE "publish"
          /\ at' = at
    BY <1>4 DEF CheckProm, Flag
  <2>3. PICK v \in {"true", "false"} :
          /\ me' = [me EXCEPT !.status["prom"] = v]
          /\ pc' = IF v = "true" THEN "query" ELSE "publish"
          /\ at' = at
    BY <2>2
  <2>4. me'.status["prom"] = v /\ me'.status["po"] = me.status["po"]
    BY <2>1, <2>3, FlagSet
  <2>5. me.status["po"] # "nil" /\ at = 1
    BY <1>4 DEF CheckProm, Asked, Inv, Control
  <2>6. CASE v = "true"
    BY <2>3, <2>4, <2>5, <2>6 DEF Asked, JobOrder
  <2>7. CASE v = "false"
    BY <2>3, <2>4, <2>5, <2>7 DEF Asked, FlagsSet
  <2> QED
    BY <2>6, <2>7
<1>5. CASE Query
  <2>1. /\ me \in Cells /\ at \in 1 .. Len(JobOrder) /\ pc = "query"
        /\ "po" \in FlagNames /\ "prom" \in FlagNames
    BY <1>5 DEF Query, Inv, Control, FlagNames
  <2> DEFINE j == JobOrder[at]
  <2>2. j \in FlagNames \ {"po", "prom"}
    BY <2>1 DEF JobOrder, FlagNames, Jobs
  <2>3. /\ me'.status[j] # "nil"
        /\ \A g \in FlagNames \ {j} : me'.status[g] = me.status[g]
    <3>1. \E v \in {"true", "false"} : me' = [me EXCEPT !.status[j] = v]
      BY <1>5 DEF Query, Flag
    <3> QED
      BY <2>1, <2>2, <3>1, FlagSet
  <2>4. me'.status["po"] # "nil" /\ me'.status["prom"] = "true"
    BY <2>1, <2>2, <2>3 DEF Asked
  <2>5. \A i \in 1 .. Len(JobOrder) : i <= at => me'.status[JobOrder[i]] # "nil"
    <3> SUFFICES ASSUME NEW i \in 1 .. Len(JobOrder), i <= at
                 PROVE  me'.status[JobOrder[i]] # "nil"
      OBVIOUS
    <3>1. CASE JobOrder[i] = j
      BY <2>3, <3>1
    <3>2. CASE JobOrder[i] # j
      <4>1. i < at
        BY <2>1, <3>2
      <4>2. JobOrder[i] \in FlagNames
        BY DEF JobOrder, FlagNames, Jobs
      <4> QED
        BY <2>1, <2>3, <3>2, <4>1, <4>2 DEF Asked
    <3> QED
      BY <3>1, <3>2
  <2>6. CASE at < Len(JobOrder)
    <3>1. at' = at + 1 /\ pc' = "query"
      BY <1>5, <2>1, <2>6 DEF Query
    <3>2. \A i \in 1 .. Len(JobOrder) : i < at' => i <= at
      BY <2>1, <3>1 DEF JobOrder
    <3> QED
      BY <2>4, <2>5, <3>1, <3>2 DEF Asked
  <2>7. CASE ~(at < Len(JobOrder))
    <3>1. pc' = "publish"
      BY <1>5, <2>7 DEF Query
    <3>2. \A i \in 1 .. Len(JobOrder) : i <= at
      BY <2>1, <2>7 DEF JobOrder
    <3>3. \A k \in Jobs : \E i \in 1 .. Len(JobOrder) : k = JobOrder[i]
      <4>1. Len(JobOrder) = 4
        BY DEF JobOrder
      <4>2. /\ JobOrder[1] = "node-exporter" /\ JobOrder[2] = "kube-state-metrics"
            /\ JobOrder[3] = "kubelet" /\ JobOrder[4] = "apiserver"
        BY DEF JobOrder
      <4>3. 1 \in 1 .. 4 /\ 2 \in 1 .. 4 /\ 3 \in 1 .. 4 /\ 4 \in 1 .. 4
        OBVIOUS
      <4> QED
        BY <4>1, <4>2, <4>3 DEF Jobs
    <3>4. \A k \in Jobs : me'.status[k] # "nil"
      BY <2>5, <3>2, <3>3
    <3> QED
      BY <2>4, <3>1, <3>4 DEF Asked, FlagsSet
  <2> QED
    BY <2>6, <2>7
<1>6. CASE Publish
  <2>1. me'.status = me.status
    <3>1. cell \in Cells
      BY DEF Inv, TypeOK
    <3> QED
      BY <1>6, <3>1 DEF Publish, Published, Cells
  <2>2. FlagsSet(me.status) /\ pc' \in {"read", "finish"}
    BY <1>6 DEF Publish, Asked, Enter
  <2> QED
    BY <2>1, <2>2 DEF Asked, FlagsSet
<1>7. CASE Proceeds
  BY <1>7 DEF Proceeds, Acting, Asked, FlagsSet
<1>8. CASE Background
  BY <1>8 DEF Background, pass, Asked, FlagsSet
<1> QED
  BY <1>1, <1>2, <1>3, <1>4, <1>5, <1>6, <1>7, <1>8, StepKinds

\* Reconcile never dereferences a nil flag.
THEOREM NoNilDereferenced == Spec => []NoNilDereference
<1>1. Init => Asked
  BY DEF Init, Asked
<1>2. Inv /\ Asked /\ [Next]_vars => Asked'
  BY AskedStep
<1>3. Asked => NoNilDereference
  BY DEF Asked, FlagsSet, NoNilDereference
<1> QED
  BY <1>1, <1>2, <1>3, InitInv, NextInv, PTL DEF Spec

-----------------------------------------------------------------------------
(* The operator rests only when it is ready *)

\* The cached Cell is no newer than the Cell, so that no change of the Cell makes
\* an outdated copy look current.
CacheBehind == cellCache.ver <= cell.ver

LEMMA CacheBehindStep ==
  ASSUME Inv, CacheBehind, [Next]_vars
  PROVE  CacheBehind'
<1>1. cell \in Cells /\ cell.ver \in Nat /\ cellCache.ver \in Nat
  BY DEF Inv, TypeOK, Cells
<1>2. Published.ver \in {cell.ver, cell.ver + 1}
  BY <1>1 DEF Published, Cells
<1>3. CASE Start \/ Fetch \/ CheckPO \/ CheckProm \/ Query \/ Finish \/ Proceeds
  BY <1>3
  DEF Start, Fetch, CheckPO, CheckProm, Query, Finish, Proceeds, cluster,
      informers, CacheBehind
<1>4. CASE Publish \/ Failed
  <2>1. /\ cellCache' = cellCache
        /\ cell' = cell \/ cell' = Published
    BY <1>4 DEF Publish, Failed, informers
  <2> QED
    BY <1>1, <1>2, <2>1 DEF CacheBehind
<1>5. CASE Restart
  BY <1>1, <1>5 DEF Restart, cluster, CacheBehind
<1>6. CASE Background
  BY <1>1, <1>6 DEF Background, CellChanges, Queued, CacheBehind
<1> QED
  BY <1>3, <1>4, <1>5, <1>6, StepKinds

LEMMA QuiescentMeansReadyStep ==
  ASSUME Inv, ActsOnPublishedStatus, CacheBehind, QuiescentMeansReady, [Next]_vars
  PROVE  QuiescentMeansReady'
<1>1. cell.ver \in Nat /\ cellCache.ver \in Nat
  BY DEF Inv, TypeOK, Cells
<1>2. CASE Start \/ CheckPO \/ CheckProm \/ Query \/ Publish \/ Proceeds
  <2>1. pc' # "idle"
    BY <1>2
    DEF Start, CheckPO, CheckProm, Query, Publish, Enter, Proceeds, Acting
  <2> QED
    BY <2>1 DEF QuiescentMeansReady, Quiescent
<1>3. CASE Fetch
  <2>1. CASE cellCache.live
    BY <1>3, <2>1 DEF Fetch, QuiescentMeansReady, Quiescent
  <2>2. CASE ~cellCache.live
    <3>1. UNCHANGED <<cell, cellCache>>
      BY <1>3 DEF Fetch, cluster, informers
    <3> QED
      BY <2>2, <3>1 DEF QuiescentMeansReady, Quiescent
  <2> QED
    BY <2>1, <2>2
<1>4. CASE Finish
  <2>1. cell.live => cell.status = me.status
    BY <1>4 DEF Finish, ActsOnPublishedStatus
  <2>2. ~timer' => \A f \in {"prom"} \cup Jobs : me.status[f] = "true"
    BY <1>4 DEF Finish, NeedsRequeue
  <2>3. cell' = cell
    BY <1>4 DEF Finish, cluster
  <2> QED
    BY <2>1, <2>2, <2>3 DEF QuiescentMeansReady, Quiescent
<1>5. CASE Restart
  BY <1>5 DEF Restart, cluster, QuiescentMeansReady, Quiescent
<1>6. CASE Failed
  BY <1>6 DEF Failed, FailPass, QuiescentMeansReady, Quiescent
<1>7. CASE Background
  <2>1. CASE CellChanges
    <3>1. cellCache' # cell'
      BY <1>1, <2>1 DEF CellChanges, CacheBehind
    <3> QED
      BY <3>1 DEF QuiescentMeansReady, Quiescent
  <2>2. CASE Queued
    BY <2>2 DEF Queued, QuiescentMeansReady, Quiescent
  <2>3. CASE UNCHANGED <<cell, cellCache, queue>>
    BY <1>7, <2>3 DEF Background, pass, queue, QuiescentMeansReady, Quiescent
  <2> QED
    BY <1>7, <2>1, <2>2, <2>3 DEF Background
<1> QED
  BY <1>2, <1>3, <1>4, <1>5, <1>6, <1>7, StepKinds

\* No error, crash or lost event leaves a Cell that is not ready without a pass to
\* come.
THEOREM RestsOnlyWhenReady == Spec => []QuiescentMeansReady
<1> DEFINE I == /\ Inv /\ ActsOnPublishedStatus /\ CacheBehind
                /\ QuiescentMeansReady
<1>1. Init => I
  <2>1. Init => ActsOnPublishedStatus /\ QuiescentMeansReady
    BY DEF Init, ActsOnPublishedStatus, QuiescentMeansReady, Quiescent
  <2>2. Init => CacheBehind
    BY InitInv DEF Init, Inv, TypeOK, Cells, CacheBehind
  <2> QED
    BY <2>1, <2>2, InitInv
<1>2. I /\ [Next]_vars => I'
  BY NextInv, ActsOnPublishedStatusStep, CacheBehindStep, QuiescentMeansReadyStep
<1>3. I => QuiescentMeansReady
  OBVIOUS
<1> QED
  BY <1>1, <1>2, <1>3, PTL DEF Spec
=============================================================================
