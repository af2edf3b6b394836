------------------------------- MODULE FleetProofs -------------------------------
(***************************************************************************)
(* Theorems of Fleet, for any number of Cells, objects and disruptions:    *)
(* its type invariant, that a Cell that is created again does not become   *)
(* the owner of what its predecessor left behind, and that the operator    *)
(* forgets no Cell.                                                        *)
(*                                                                         *)
(* The second needs `Genealogy`: no owner reference, in an object or still *)
(* to be written by the running pass, is younger than the Cell it names.   *)
(* The last needs `RestInv`: what the running pass has been through is     *)
(* there, and it works on the Cell as it is unless the Cell has been added *)
(* to the queue meanwhile.                                                 *)
(***************************************************************************)
EXTENDS Fleet, FiniteSetTheorems, SequenceTheorems, TLAPS

\* A listing is a sequence of Cells.
LEMMA ListingsType ==
  ASSUME NEW cs \in [Names -> Cells], NEW q \in Listings(cs)
  PROVE  q \in Seq(Names)
PROOF
<1> DEFINE S == {n \in Names : cs[n].live}
<1>1. IsFiniteSet(S)
  BY FleetAssumption, FS_Subset
<1>2. Cardinality(S) \in Nat
  BY <1>1, FS_CardinalityType
<1>3. q \in [1..Cardinality(S) -> S]
  BY DEF Listings, SetToSeqs
<1>4. q \in [1..Cardinality(S) -> Names]
  BY <1>3
<1>5. PICK k \in Nat : q \in [1..k -> Names]
  BY <1>2, <1>4
<1>6. QED
  BY <1>5

LEMMA InitType == Init => TypeOK
PROOF
<1> SUFFICES ASSUME Init PROVE TypeOK
  OBVIOUS
<1>1. PICK s \in InitSpecs :
        cells = [n \in Names |-> [live |-> TRUE, gen |-> 1, spec |-> s[n],
                                  po |-> FALSE, prom |-> FALSE]]
  BY DEF Init
<1>2. s \in [Names -> Specs]
  BY FleetAssumption
<1>3. cells \in [Names -> Cells]
  BY <1>1, <1>2 DEF Cells
<1>4. queue \in Seq(Names)
  BY <1>3, ListingsType DEF Init
<1>5. owner \in [Objs -> Uids \cup {None, Unowned}] /\ running \subseteq Workloads
  BY DEF Init
<1>6. left \in Nat
  BY FleetAssumption DEF Init
<1>7. who = None /\ pc = "idle" /\ copy = None /\ todo = <<>>
  BY DEF Init, NoPass
<1>8. todo \in Seq(Objs)
  BY <1>7
<1>9. again \in BOOLEAN /\ later \subseteq Names
  BY DEF Init
<1>10. /\ who \in Names \cup {None} /\ (who = None <=> pc = "idle")
       /\ pc \in {"idle", "fetch", "publish", "blocks"}
       /\ copy \in Cells \cup {None} /\ (copy = None <=> pc \in {"idle", "fetch"})
  BY <1>7
<1>11. QED
  BY <1>3, <1>4, <1>5, <1>6, <1>8, <1>9, <1>10 DEF TypeOK

-----------------------------------------------------------------------------
(* The type invariant *)

\* What the type invariant says of the running pass.
PassType ==
  /\ who \in Names \cup {None} /\ (who = None <=> pc = "idle")
  /\ pc \in {"idle", "fetch", "publish", "blocks"}
  /\ copy \in Cells \cup {None} /\ (copy = None <=> pc \in {"idle", "fetch"})
  /\ todo \in Seq(Objs)

\* A running pass has a Cell, and past its first request a copy of it.
LEMMA RunningPass ==
  ASSUME TypeOK, pc # "idle"
  PROVE  who \in Names /\ (pc # "fetch" => copy \in Cells)
PROOF
  BY DEF TypeOK

LEMMA EnqueueType ==
  ASSUME TypeOK, NEW n \in Names, Enqueue(n)
  PROVE  queue' \in Seq(Names) /\ again' \in BOOLEAN
PROOF
<1>1. CASE n = who
  BY <1>1 DEF TypeOK, Enqueue
<1>2. CASE n # who
  <2>1. Append(queue, n) \in Seq(Names)
    BY DEF TypeOK
  <2>2. QED
    BY <1>2, <2>1 DEF TypeOK, Enqueue
<1>3. QED
  BY <1>1, <1>2

\* The pass has ended.
LEMMA NoPassType ==
  ASSUME who' = None, pc' = "idle", copy' = None, todo' = <<>>
  PROVE  PassType'
PROOF
<1>1. todo' \in Seq(Objs)
  OBVIOUS
<1>2. QED
  BY <1>1 DEF PassType

LEMMA EndPassType ==
  ASSUME TypeOK, pc # "idle", NEW w \in BOOLEAN, EndPass(w)
  PROVE  PassType' /\ queue' \in Seq(Names) /\ again' \in BOOLEAN
PROOF
<1>1. PassType'
  BY NoPassType DEF EndPass
<1>2. Append(queue, who) \in Seq(Names)
  BY RunningPass DEF TypeOK
<1>3. queue' \in Seq(Names)
  BY <1>2 DEF EndPass, TypeOK
<1>4. again' \in BOOLEAN
  BY DEF EndPass
<1>5. QED
  BY <1>1, <1>3, <1>4

LEMMA FailPassType ==
  ASSUME TypeOK, pc # "idle", FailPass
  PROVE  PassType' /\ queue' \in Seq(Names) /\ again' \in BOOLEAN /\ later' \subseteq Names
PROOF
<1>1. again \in BOOLEAN /\ later \subseteq Names
  BY DEF TypeOK
<1>2. EndPass(again)
  BY DEF FailPass
<1>3. PassType' /\ queue' \in Seq(Names) /\ again' \in BOOLEAN
  BY <1>1, <1>2, EndPassType
<1>4. later' \subseteq Names
  BY <1>1, RunningPass DEF FailPass
<1>5. QED
  BY <1>3, <1>4

LEMMA RebornType ==
  ASSUME TypeOK, Reborn
  PROVE  PassType' /\ queue' \in Seq(Names) /\ again' \in BOOLEAN /\ later' \subseteq Names
PROOF
<1>1. PassType'
  BY NoPassType DEF Reborn
<1>2. queue' \in Seq(Names)
  BY ListingsType DEF Reborn, TypeOK
<1>3. QED
  BY <1>1, <1>2 DEF Reborn

\* The parts of the type invariant, put together again.
LEMMA TypeParts ==
  ASSUME cells' \in [Names -> Cells], owner' \in [Objs -> Uids \cup {None, Unowned}],
         running' \subseteq Workloads, queue' \in Seq(Names), again' \in BOOLEAN,
         later' \subseteq Names, PassType', left' \in Nat
  PROVE  TypeOK'
PROOF
  BY DEF TypeOK, PassType

LEMMA DisruptType ==
  ASSUME TypeOK, NEW kind, Disrupt(kind)
  PROVE  left' \in Nat
PROOF
  BY DEF TypeOK, Disrupt

\* What a pass goes through is a sequence of objects.
LEMMA BlocksType ==
  ASSUME NEW n \in Names, NEW s \in Specs, NEW po \in BOOLEAN, NEW prom \in BOOLEAN
  PROVE  Blocks(Plan(n, s), po, prom) \in Seq(Objs)
PROOF
<1> DEFINE p == Plan(n, s)
           x == IF po THEN <<>> ELSE p["po"]
           y == IF prom THEN <<>> ELSE p["prom"]
<1>1. p["po"] \in Seq(Objs) /\ p["prom"] \in Seq(Objs) /\ p["gitpod"] \in Seq(Objs)
      /\ p["exporters"] \in Seq(Objs)
  BY FleetAssumption DEF Groups
<1>2. x \in Seq(Objs) /\ y \in Seq(Objs)
  BY <1>1
<1>3. Blocks(Plan(n, s), po, prom) = x \o y \o p["gitpod"] \o p["exporters"]
  BY Zenon DEF Blocks
<1> HIDE DEF p, x, y
<1>4. QED
  BY <1>1, <1>2, <1>3

LEMMA WriteType ==
  ASSUME TypeOK, copy \in Cells, who \in Names, NEW o \in Objs, Write(o)
  PROVE  owner' \in [Objs -> Uids \cup {None, Unowned}]
PROOF
<1>1. CreatedBy(who, copy) \in Uids
  BY DEF CreatedBy, Uids, Cells
<1>2. QED
  BY <1>1 DEF Write, TypeOK

\* A pass, whatever it does, leaves the types as they are.
LEMMA ReconcileType ==
  ASSUME TypeOK, Reconcile
  PROVE  TypeOK'
PROOF
<1> USE DEF cluster, work, pass
<1>1. ASSUME Start PROVE TypeOK'
  <2>1. Head(queue) \in Names /\ Tail(queue) \in Seq(Names)
    BY <1>1 DEF Start, TypeOK
  <2>2. copy = None /\ todo \in Seq(Objs)
    BY <1>1 DEF Start, TypeOK
  <2>3. PassType'
    <3>1. who' \in Names /\ who' # None
      BY <1>1, <2>1, FleetAssumption DEF Start
    <3>2. pc' = "fetch" /\ copy' = None /\ todo' \in Seq(Objs)
      BY <1>1, <2>2 DEF Start
    <3>3. QED
      BY <3>1, <3>2 DEF PassType
  <2>4. cells' \in [Names -> Cells] /\ owner' \in [Objs -> Uids \cup {None, Unowned}]
        /\ running' \subseteq Workloads /\ queue' \in Seq(Names) /\ again' \in BOOLEAN
        /\ later' \subseteq Names /\ left' \in Nat
    BY <1>1, <2>1 DEF Start, TypeOK
  <2>5. QED
    BY <2>3, <2>4, TypeParts
<1>2. ASSUME Fetch PROVE TypeOK'
  <2>1. cells' = cells /\ owner' = owner /\ running' = running /\ later' = later /\ left' = left
        /\ pc # "idle"
    BY <1>2 DEF Fetch
  <2>2. PassType' /\ queue' \in Seq(Names) /\ again' \in BOOLEAN
    <3>1. CASE cells[who].live
      <4>1. who \in Names /\ cells[who] \in Cells /\ who # None
        BY <2>1, RunningPass, FleetAssumption DEF TypeOK
      <4>2. who' = who /\ todo' = todo /\ queue' = queue /\ again' = again
            /\ copy' = cells[who] /\ pc' = "publish"
        BY <1>2, <3>1 DEF Fetch
      <4>3. copy' \in Cells /\ copy' # None
        BY <4>1, <4>2, FleetAssumption
      <4>4. todo' \in Seq(Objs) /\ queue' \in Seq(Names) /\ again' \in BOOLEAN
        BY <4>2 DEF TypeOK
      <4>5. QED
        BY <4>1, <4>2, <4>3, <4>4 DEF PassType
    <3>2. CASE ~cells[who].live
      BY <1>2, <2>1, <3>2, EndPassType DEF Fetch, TypeOK
    <3>3. QED
      BY <3>1, <3>2
  <2>3. cells' \in [Names -> Cells] /\ owner' \in [Objs -> Uids \cup {None, Unowned}]
        /\ running' \subseteq Workloads /\ later' \subseteq Names /\ left' \in Nat
    BY <2>1 DEF TypeOK
  <2>4. QED
    BY <2>2, <2>3, TypeParts
<1>3. ASSUME Publish PROVE TypeOK'
  <2> DEFINE po == Gate[who]["po"] \in running
             prom == Gate[who]["prom"] \in running
             new == [copy EXCEPT !.po = po, !.prom = prom]
  <2>1. pc = "publish" /\ who \in Names /\ who # None /\ copy \in Cells
    BY <1>3, RunningPass, FleetAssumption DEF Publish
  <2>2. owner' = owner /\ running' = running /\ left' = left
    BY <1>3 DEF Publish
  <2>3. cells' \in [Names -> Cells] /\ PassType' /\ queue' \in Seq(Names)
        /\ again' \in BOOLEAN /\ later' \subseteq Names
    <3>1. CASE cells[who] = copy
      <4>1. /\ cells' = [cells EXCEPT ![who] = new]
            /\ copy' = new /\ pc' = "blocks"
            /\ todo' = Blocks(Plan(who, copy.spec), po, prom)
            /\ again' = (again \/ new # copy)
            /\ who' = who /\ queue' = queue /\ later' = later
        BY <1>3, <3>1 DEF Publish
      <4>2. po \in BOOLEAN /\ prom \in BOOLEAN
        OBVIOUS
      <4> HIDE DEF po, prom
      <4>3. new \in Cells /\ copy.spec \in Specs
        BY <2>1, <4>2 DEF Cells
      <4>4. new # None
        BY <4>3, FleetAssumption
      <4> HIDE DEF new
      <4>5. todo' \in Seq(Objs)
        BY <2>1, <4>1, <4>2, <4>3, BlocksType
      <4>6. cells' \in [Names -> Cells] /\ queue' \in Seq(Names) /\ later' \subseteq Names
        BY <4>1, <4>3 DEF TypeOK
      <4>7. again' \in BOOLEAN
        BY <4>1
      <4>8. PassType'
        BY <2>1, <4>1, <4>3, <4>4, <4>5 DEF PassType
      <4>9. QED
        BY <4>6, <4>7, <4>8
    <3>2. CASE cells[who] # copy
      <4>1. FailPass /\ cells' = cells
        BY <1>3, <3>2 DEF Publish
      <4>2. QED
        BY <2>1, <4>1, FailPassType DEF TypeOK
    <3>3. QED
      BY <3>1, <3>2
  <2>4. owner' \in [Objs -> Uids \cup {None, Unowned}] /\ running' \subseteq Workloads
        /\ left' \in Nat
    BY <2>2 DEF TypeOK
  <2>5. QED
    BY <2>3, <2>4, TypeParts
<1>4. ASSUME Panic PROVE TypeOK'
  <2>1. Reborn /\ cells' = cells /\ owner' = owner /\ running' = running /\ left' = left
    BY <1>4 DEF Panic
  <2>2. QED
    BY <2>1, RebornType, TypeParts DEF TypeOK
<1>5. ASSUME Block PROVE TypeOK'
  <2>1. /\ pc = "blocks" /\ todo # <<>> /\ who \in Names /\ who # None /\ copy \in Cells
        /\ cells' = cells /\ running' = running /\ left' = left
    BY <1>5, RunningPass, FleetAssumption DEF Block
  <2>2. Head(todo) \in Objs /\ Tail(todo) \in Seq(Objs)
    BY <2>1 DEF TypeOK
  <2>3. owner' \in [Objs -> Uids \cup {None, Unowned}] /\ PassType'
        /\ queue' \in Seq(Names) /\ again' \in BOOLEAN /\ later' \subseteq Names
    <3>1. CASE Head(todo).ns = NoNamespace
      <4>1. FailPass /\ owner' = owner
        BY <1>5, <3>1 DEF Block
      <4>2. QED
        BY <2>1, <4>1, FailPassType DEF TypeOK
    <3>2. CASE Head(todo).ns # NoNamespace
      <4>1. /\ Write(Head(todo)) /\ todo' = Tail(todo) /\ who' = who /\ pc' = pc
            /\ copy' = copy /\ queue' = queue /\ again' = again /\ later' = later
        BY <1>5, <3>2 DEF Block
      <4>2. owner' \in [Objs -> Uids \cup {None, Unowned}]
        BY <2>1, <2>2, <4>1, WriteType
      <4>3. PassType'
        BY <2>2, <4>1 DEF PassType, TypeOK
      <4>4. QED
        BY <4>1, <4>2, <4>3 DEF TypeOK
    <3>3. QED
      BY <3>1, <3>2
  <2>4. cells' \in [Names -> Cells] /\ running' \subseteq Workloads /\ left' \in Nat
    BY <2>1 DEF TypeOK
  <2>5. QED
    BY <2>3, <2>4, TypeParts
<1>6. ASSUME Finish PROVE TypeOK'
  <2>1. EndPass(again) /\ pc # "idle" /\ cells' = cells /\ owner' = owner
        /\ running' = running /\ left' = left
    BY <1>6 DEF Finish
  <2>2. again \in BOOLEAN
    BY DEF TypeOK
  <2>3. PassType' /\ queue' \in Seq(Names) /\ again' \in BOOLEAN
    BY <2>1, <2>2, EndPassType
  <2>4. later' \subseteq Names
    BY <1>6, <2>1, RunningPass DEF Finish, TypeOK
  <2>5. QED
    BY <2>1, <2>3, <2>4, TypeParts DEF TypeOK
<1>7. QED
  BY <1>1, <1>2, <1>3, <1>4, <1>5, <1>6 DEF Reconcile

\* Nor does anything else.
LEMMA OthersType ==
  ASSUME TypeOK,
         \/ PassFails \/ Restart \/ Users
         \/ \E n \in Names : TimerFires(n) \/ Resync(n)
         \/ \E o \in Objs : Collect(o)
         \/ \E n \in Names, g \in {"po", "prom"} : Starts(n, g)
  PROVE  TypeOK'
PROOF
<1> USE DEF cluster, work, pass
<1>0. ASSUME who' = who, pc' = pc, copy' = copy, todo' = todo
      PROVE  PassType'
  BY <1>0 DEF TypeOK, PassType
<1>1. ASSUME PassFails PROVE TypeOK'
  BY <1>1, FailPassType, DisruptType, TypeParts DEF PassFails, TypeOK
<1>2. ASSUME Restart PROVE TypeOK'
  BY <1>2, RebornType, DisruptType, TypeParts DEF Restart, TypeOK
<1>3. ASSUME NEW n \in Names, DeleteCell(n) PROVE TypeOK'
  <2>1. cells' \in [Names -> Cells]
    BY <1>3 DEF DeleteCell, TypeOK, Cells
  <2>2. QED
    BY <1>0, <1>3, <2>1, EnqueueType, DisruptType, TypeParts DEF DeleteCell, TypeOK
<1>4. ASSUME NEW n \in Names, NEW s \in Specs, EditCell(n, s) PROVE TypeOK'
  <2>1. cells' \in [Names -> Cells]
    BY <1>4 DEF EditCell, TypeOK, Cells
  <2>2. QED
    BY <1>0, <1>4, <2>1, EnqueueType, DisruptType, TypeParts DEF EditCell, TypeOK
<1>5. ASSUME NEW n \in Names, NEW s \in Specs, CreateCell(n, s) PROVE TypeOK'
  <2>1. cells' \in [Names -> Cells]
    BY <1>5 DEF CreateCell, TypeOK, Cells
  <2>2. QED
    BY <1>0, <1>5, <2>1, EnqueueType, DisruptType, TypeParts DEF CreateCell, TypeOK
<1>6. ASSUME NEW n \in Names, TimerFires(n) PROVE TypeOK'
  BY <1>0, <1>6, EnqueueType, TypeParts DEF TimerFires, TypeOK
<1>7. ASSUME NEW n \in Names, Resync(n) PROVE TypeOK'
  BY <1>0, <1>7, EnqueueType, TypeParts DEF Resync, TypeOK
<1>8. ASSUME NEW o \in Objs, Collect(o) PROVE TypeOK'
  <2>1. owner' \in [Objs -> Uids \cup {None, Unowned}] /\ running' \subseteq Workloads
    BY <1>8 DEF Collect, TypeOK
  <2>2. QED
    BY <1>0, <1>8, <2>1, TypeParts DEF Collect, TypeOK
<1>9. ASSUME NEW n \in Names, NEW g \in {"po", "prom"}, Starts(n, g) PROVE TypeOK'
  <2>1. running' \subseteq Workloads
    BY <1>9 DEF Starts, TypeOK, Workloads, Gates
  <2>2. QED
    BY <1>0, <1>9, <2>1, TypeParts DEF Starts, TypeOK
<1>10. QED
  BY <1>1, <1>2, <1>3, <1>4, <1>5, <1>6, <1>7, <1>8, <1>9 DEF Users

\* TypeOK holds throughout: in particular a pass has a copy of its Cell exactly
\* between its first request and its end, whatever ends it.
THEOREM FleetTypeCorrect == Spec => []TypeOK
PROOF
<1>1. TypeOK /\ [Next]_vars => TypeOK'
  <2> SUFFICES ASSUME TypeOK, [Next]_vars PROVE TypeOK'
    OBVIOUS
  <2>1. CASE UNCHANGED vars
    BY <2>1 DEF vars, cluster, work, pass, TypeOK
  <2>2. CASE Next
    BY <2>2, ReconcileType, OthersType DEF Next
  <2>3. QED
    BY <2>1, <2>2
<1>2. QED
  BY <1>1, InitType, PTL DEF Spec

-----------------------------------------------------------------------------
(* What a step may do to an owner reference *)

\* A pass writes one where there is none; the garbage collector takes one away.
LEMMA OwnerStep ==
  ASSUME TypeOK, Next, NEW o \in Objs, owner'[o] # owner[o]
  PROVE  \/ /\ owner[o] = None /\ owner'[o] = CreatedBy(who, copy)
            /\ pc = "blocks" /\ cells' = cells /\ todo # <<>> /\ o = Head(todo)
         \/ Collect(o)
PROOF
<1> USE DEF cluster, work, pass
<1>1. CASE Reconcile
  <2>1. CASE Block
    <3>1. /\ Write(Head(todo)) /\ Head(todo) \in Objs /\ pc = "blocks" /\ todo # <<>>
          /\ cells' = cells
      BY <2>1 DEF Block, TypeOK
    <3>2. o = Head(todo)
      BY <3>1 DEF Write, TypeOK
    <3>3. QED
      BY <3>1, <3>2 DEF Write, TypeOK
  <2>2. CASE Start \/ Fetch \/ Publish \/ Panic \/ Finish
    BY <2>2 DEF Start, Fetch, Publish, Panic, Finish
  <2>3. QED
    BY <1>1, <2>1, <2>2 DEF Reconcile
<1>2. CASE PassFails \/ Restart \/ Users
  BY <1>2 DEF PassFails, Restart, Users, EditCell, DeleteCell, CreateCell
<1>3. CASE \E n \in Names : TimerFires(n) \/ Resync(n)
  BY <1>3 DEF TimerFires, Resync
<1>4. CASE \E p \in Objs : Collect(p)
  <2>1. PICK p \in Objs : Collect(p)
    BY <1>4
  <2>2. p = o
    BY <2>1 DEF Collect, TypeOK
  <2>3. QED
    BY <2>1, <2>2
<1>5. CASE \E n \in Names, g \in {"po", "prom"} : Starts(n, g)
  BY <1>5 DEF Starts
<1>6. QED
  BY <1>1, <1>2, <1>3, <1>4, <1>5 DEF Next

-----------------------------------------------------------------------------
(* Cells that are created again *)

\* No owner reference, written or to be written, is younger than its Cell.
Genealogy ==
  /\ \A o \in Objs : owner[o] \in Uids => owner[o].gen <= cells[owner[o].name].gen
  /\ copy # None => copy.gen <= cells[who].gen

\* A Cell's generation never goes back, and only the creation of a Cell that is
\* not there makes it live.
LEMMA Generations ==
  ASSUME TypeOK, [Next]_vars, NEW n \in Names
  PROVE  /\ cells[n].gen <= cells'[n].gen
         /\ cells'[n].live => \/ cells[n].live /\ cells'[n].gen = cells[n].gen
                              \/ cells[n].gen < cells'[n].gen
PROOF
<1> USE DEF cluster, work, pass
<1>0. cells[n].gen \in Nat
  BY DEF TypeOK, Cells
<1>1. CASE cells' = cells
  BY <1>0, <1>1
<1>2. CASE Publish
  <2>1. CASE cells[who] = copy
    <3>1. who \in Names /\ copy \in Cells
      BY <1>2, RunningPass DEF Publish
    <3>2. \E po, prom : cells' = [cells EXCEPT ![who] = [copy EXCEPT !.po = po, !.prom = prom]]
      BY <1>2, <2>1 DEF Publish
    <3>3. cells'[n].gen = cells[n].gen /\ cells'[n].live = cells[n].live
      BY <2>1, <3>1, <3>2 DEF TypeOK, Cells
    <3>4. QED
      BY <1>0, <3>3
  <2>2. CASE cells[who] # copy
    BY <1>0, <1>2, <2>2 DEF Publish
  <2>3. QED
    BY <2>1, <2>2
<1>3. ASSUME NEW m \in Names, NEW s \in Specs, EditCell(m, s)
      PROVE  cells'[n].gen = cells[n].gen /\ cells'[n].live = cells[n].live
  BY <1>3 DEF EditCell, TypeOK, Cells
<1>4. ASSUME NEW m \in Names, DeleteCell(m)
      PROVE  cells'[n].gen = cells[n].gen /\ (cells'[n].live => cells[n].live)
  BY <1>4 DEF DeleteCell, TypeOK, Cells
<1>5. ASSUME NEW m \in Names, NEW s \in Specs, CreateCell(m, s)
      PROVE  \/ n # m /\ cells'[n] = cells[n]
             \/ n = m /\ cells'[n].gen = cells[n].gen + 1
  BY <1>5 DEF CreateCell, TypeOK, Cells
<1>6. CASE Users
  BY <1>0, <1>3, <1>4, <1>5, <1>6 DEF Users
<1>7. CASE Next
  <2>1. CASE Start \/ Fetch \/ Panic \/ Block \/ Finish \/ PassFails \/ Restart
    BY <1>1, <2>1 DEF Start, Fetch, Panic, Block, Finish, PassFails, Restart
  <2>2. CASE \/ \E m \in Names : TimerFires(m) \/ Resync(m)
             \/ \E o \in Objs : Collect(o)
             \/ \E m \in Names, g \in {"po", "prom"} : Starts(m, g)
    BY <1>1, <2>2 DEF TimerFires, Resync, Collect, Starts
  <2>3. QED
    BY <1>2, <1>6, <1>7, <2>1, <2>2 DEF Next, Reconcile
<1>8. CASE UNCHANGED vars
  BY <1>1, <1>8 DEF vars
<1>9. QED
  BY <1>7, <1>8

\* The running pass's copy is one it had, or the Cell as it is now.
LEMMA CopyStep ==
  ASSUME TypeOK, [Next]_vars, copy' # None
  PROVE  \/ who' = who /\ copy # None /\ copy'.gen = copy.gen
         \/ who' = who /\ who \in Names /\ copy' = cells[who]
PROOF
<1> USE DEF cluster, work, pass
<1>1. CASE copy' = copy /\ who' = who
  BY <1>1
<1>2. ASSUME EndPass(again) \/ Reborn PROVE FALSE
  BY <1>2 DEF EndPass, Reborn
<1>3. CASE Start
  BY <1>3 DEF Start, TypeOK
<1>4. CASE Fetch
  BY <1>2, <1>4, RunningPass DEF Fetch
<1>5. CASE Publish
  <2>1. copy \in Cells /\ copy # None
    BY <1>5, RunningPass, FleetAssumption DEF Publish
  <2>2. CASE cells[who] = copy
    <3>1. \E po, prom : copy' = [copy EXCEPT !.po = po, !.prom = prom]
      BY <1>5, <2>2 DEF Publish
    <3>2. copy'.gen = copy.gen
      BY <2>1, <3>1 DEF Cells
    <3>3. who' = who
      BY <1>5, <2>2 DEF Publish
    <3>4. QED
      BY <2>1, <3>2, <3>3
  <2>3. CASE cells[who] # copy
    BY <1>2, <1>5, <2>3 DEF Publish, FailPass
  <2>4. QED
    BY <2>2, <2>3
<1>6. CASE Block
  BY <1>1, <1>2, <1>6 DEF Block, FailPass
<1>7. CASE Panic \/ Finish \/ PassFails \/ Restart
  BY <1>2, <1>7 DEF Panic, Finish, PassFails, Restart, FailPass
<1>8. CASE \/ Users \/ \E n \in Names : TimerFires(n) \/ Resync(n)
           \/ \E o \in Objs : Collect(o)
           \/ \E n \in Names, g \in {"po", "prom"} : Starts(n, g)
  BY <1>1, <1>8 DEF Users, EditCell, DeleteCell, CreateCell, TimerFires, Resync, Collect,
                    Starts
<1>9. CASE UNCHANGED vars
  BY <1>1, <1>9 DEF vars
<1>10. QED
  BY <1>3, <1>4, <1>5, <1>6, <1>7, <1>8, <1>9 DEF Next, Reconcile

LEMMA GenealogyStep ==
  ASSUME TypeOK, TypeOK', Genealogy, [Next]_vars
  PROVE  Genealogy'
PROOF
<1>1. ASSUME NEW o \in Objs, owner'[o] \in Uids
      PROVE  owner'[o].gen <= cells'[owner'[o].name].gen
  <2>1. CASE owner'[o] = owner[o]
    <3>1. owner[o].name \in Names /\ owner[o].gen \in Nat
      BY <1>1, <2>1 DEF Uids
    <3>2. cells[owner[o].name].gen \in Nat /\ cells'[owner[o].name].gen \in Nat
      BY <3>1 DEF TypeOK, Cells
    <3>3. owner[o].gen <= cells[owner[o].name].gen
      BY <1>1, <2>1 DEF Genealogy
    <3>4. cells[owner[o].name].gen <= cells'[owner[o].name].gen
      BY <3>1, Generations
    <3>5. QED
      BY <2>1, <3>1, <3>2, <3>3, <3>4
  <2>2. CASE owner'[o] # owner[o]
    <3>1. Next
      BY <2>2 DEF vars, cluster
    <3>2. CASE owner'[o] = CreatedBy(who, copy) /\ pc = "blocks" /\ cells' = cells
      <4>1. copy # None
        BY <3>2, RunningPass, FleetAssumption
      <4>2. QED
        BY <3>2, <4>1 DEF Genealogy, CreatedBy
    <3>3. CASE Collect(o)
      <4>1. owner'[o] = None
        BY <3>3 DEF Collect, TypeOK
      <4>2. QED
        BY <1>1, <4>1, FleetAssumption
    <3>4. QED
      BY <2>2, <3>1, <3>2, <3>3, OwnerStep
  <2>3. QED
    BY <2>1, <2>2
<1>2. ASSUME copy' # None PROVE copy'.gen <= cells'[who'].gen
  <2>1. copy' \in Cells /\ who' \in Names
    BY <1>2 DEF TypeOK
  <2>2. copy'.gen \in Nat /\ cells'[who'].gen \in Nat
    BY <2>1 DEF TypeOK, Cells
  <2>3. CASE who' = who /\ copy # None /\ copy'.gen = copy.gen
    <3>1. copy.gen <= cells[who].gen /\ cells[who].gen <= cells'[who].gen
      BY <2>1, <2>3, Generations DEF Genealogy
    <3>2. cells[who].gen \in Nat
      BY <2>1, <2>3 DEF TypeOK, Cells
    <3>3. QED
      BY <2>2, <2>3, <3>1, <3>2
  <2>4. CASE who' = who /\ who \in Names /\ copy' = cells[who]
    BY <2>4, Generations
  <2>5. QED
    BY <1>2, <2>3, <2>4, CopyStep
<1>3. QED
  BY <1>1, <1>2 DEF Genealogy

LEMMA GenealogyKept == Spec => []Genealogy
PROOF
<1>1. Init => Genealogy
  <2> SUFFICES ASSUME Init PROVE Genealogy
    OBVIOUS
  <2>1. \A o \in Objs : owner[o] = None
    BY DEF Init
  <2>2. copy = None
    BY DEF Init, NoPass
  <2>3. QED
    BY <2>1, <2>2, FleetAssumption DEF Genealogy
<1>2. TypeOK /\ TypeOK' /\ Genealogy /\ [Next]_vars => Genealogy'
  BY GenealogyStep
<1>3. QED
  BY <1>1, <1>2, FleetTypeCorrect, PTL DEF Spec

\* NoHeir: what a Cell that is gone has left behind stays without an owner, also
\* when a Cell of the same name is created.
THEOREM FleetNoHeir == Spec => NoHeir
PROOF
<1>1. ASSUME TypeOK, TypeOK', Genealogy, [Next]_vars, NEW o \in Objs,
             owner[o] \in Uids, ~Live(owner[o])
      PROVE  owner'[o] = None \/ (owner'[o] \in Uids /\ ~Live(owner[o])')
  <2>1. CASE owner'[o] = owner[o]
    <3> DEFINE n == owner[o].name
    <3>1. n \in Names /\ owner[o].gen \in Nat
      BY <1>1 DEF Uids
    <3>2. cells[n].gen \in Nat /\ cells'[n].gen \in Nat /\ owner[o].gen <= cells[n].gen
      BY <1>1, <3>1 DEF TypeOK, Cells, Genealogy
    <3>3. ~cells[n].live \/ cells[n].gen # owner[o].gen
      BY <1>1 DEF Live
    <3>4. cells'[n].live => \/ cells[n].live /\ cells'[n].gen = cells[n].gen
                            \/ cells[n].gen < cells'[n].gen
      BY <1>1, <3>1, Generations
    <3>5. ~cells'[n].live \/ cells'[n].gen # owner[o].gen
      BY <3>1, <3>2, <3>3, <3>4
    <3>6. QED
      BY <1>1, <2>1, <3>5 DEF Live
  <2>2. CASE owner'[o] # owner[o]
    <3>1. Next /\ owner[o] # None
      BY <1>1, <2>2, FleetAssumption DEF vars, cluster
    <3>2. Collect(o)
      BY <1>1, <2>2, <3>1, OwnerStep
    <3>3. QED
      BY <1>1, <3>2 DEF Collect, TypeOK
  <2>3. QED
    BY <2>1, <2>2
<1>2. TypeOK /\ TypeOK' /\ Genealogy /\ [Next]_vars =>
        [\A o \in Objs : owner[o] \in Uids /\ ~Live(owner[o]) =>
           owner'[o] = None \/ (owner'[o] \in Uids /\ ~Live(owner[o])')]_vars
  BY <1>1
<1>3. QED
  BY <1>2, GenealogyKept, FleetTypeCorrect, PTL DEF Spec, NoHeir

-----------------------------------------------------------------------------
(* No Cell is forgotten *)

\* Every owner reference is of a generation that was there, and in an object of its Cell.
Planted ==
  /\ \A n \in Names : cells[n].gen >= 1
  /\ copy # None => copy.gen >= 1
  /\ pc # "blocks" => todo = <<>>
  /\ \A o \in Range(todo) : \E s \in Specs : o \in Everything(who, s)
  /\ \A o \in Objs : owner[o] \in Uids =>
       owner[o].gen >= 1 /\ \E s \in Specs : o \in Everything(owner[o].name, s)

\* A pass that nothing was added to works on the Cell as it is.
CopyNow == pc \in {"publish", "blocks"} /\ ~again => copy = cells[who]

\* What every pass makes of a Cell as it is written.
Lasting(n, s) ==
  Beside(n, Range(Plan(n, s)["gitpod"]) \cup Range(Plan(n, s)["exporters"]))

\* What the running pass has been through is there.
Trodden ==
  pc = "blocks" =>
    /\ copy.prom => Gate[who]["prom"] \in running
    /\ \A o \in Lasting(who, copy.spec) : o \in Range(todo) \/ owner[o] # None

OperatorFirst == \A n \in Names : Gate[n]["prom"] \in running => Gate[n]["po"] \in running

\* What RestsWhole says of a Cell.
Whole(n) ==
  /\ Gate[n]["po"] \in running /\ Gate[n]["prom"] \in running
  /\ \A o \in Everywhere(n) : owner[o] # None

RestInv ==
  Planted /\ CopyNow /\ (Undeleted => Trodden /\ OperatorFirst) /\ RestsWhole

LEMMA RangeConcat ==
  ASSUME NEW S, NEW s \in Seq(S), NEW t \in Seq(S)
  PROVE  Range(s \o t) = Range(s) \cup Range(t)
PROOF
<1>1. ASSUME NEW i \in DOMAIN s PROVE i \in DOMAIN (s \o t) /\ (s \o t)[i] = s[i]
  OBVIOUS
<1>2. ASSUME NEW i \in DOMAIN t
      PROVE  Len(s) + i \in DOMAIN (s \o t) /\ (s \o t)[Len(s) + i] = t[i]
  OBVIOUS
<1>3. ASSUME NEW i \in DOMAIN (s \o t)
      PROVE  (\E j \in DOMAIN s : (s \o t)[i] = s[j]) \/ (\E j \in DOMAIN t : (s \o t)[i] = t[j])
  <2>1. CASE i \in DOMAIN s
    BY <1>1, <2>1
  <2>2. CASE i \notin DOMAIN s
    <3>1. i - Len(s) \in DOMAIN t /\ (s \o t)[i] = t[i - Len(s)]
      BY <2>2
    <3> QED
      BY <3>1
  <2> QED
    BY <2>1, <2>2
<1>4. ASSUME NEW x \in Range(s \o t) PROVE x \in Range(s) \cup Range(t)
  <2>1. PICK i \in DOMAIN (s \o t) : x = (s \o t)[i]
    BY DEF Range
  <2> QED
    BY <1>3, <2>1 DEF Range
<1>5. ASSUME NEW x \in Range(s) PROVE x \in Range(s \o t)
  <2>1. PICK i \in DOMAIN s : x = s[i]
    BY DEF Range
  <2> QED
    BY <1>1, <2>1, Zenon DEF Range
<1>6. ASSUME NEW x \in Range(t) PROVE x \in Range(s \o t)
  <2>1. PICK i \in DOMAIN t : x = t[i]
    BY DEF Range
  <2>2. Len(s) + i \in DOMAIN (s \o t) /\ (s \o t)[Len(s) + i] = x
    BY <1>2, <2>1
  <2> QED
    BY <2>2, Zenon DEF Range
<1> QED
  BY <1>4, <1>5, <1>6

LEMMA RangeConcatFour ==
  ASSUME NEW S, NEW a \in Seq(S), NEW b \in Seq(S), NEW c \in Seq(S), NEW d \in Seq(S)
  PROVE  Range(a \o b \o c \o d) = Range(a) \cup Range(b) \cup Range(c) \cup Range(d)
PROOF
<1> DEFINE ab == a \o b
           abc == ab \o c
<1>1. ab \in Seq(S)
  OBVIOUS
<1>2. Range(ab) = Range(a) \cup Range(b)
  BY RangeConcat
<1> HIDE DEF ab
<1>3. abc \in Seq(S)
  BY <1>1
<1>4. Range(abc) = Range(ab) \cup Range(c)
  BY <1>1, RangeConcat
<1> HIDE DEF abc
<1>5. Range(abc \o d) = Range(abc) \cup Range(d)
  BY <1>3, RangeConcat
<1> QED
  BY <1>2, <1>4, <1>5 DEF ab, abc

LEMMA RangeAppend ==
  ASSUME NEW S, NEW s \in Seq(S), NEW x \in S
  PROVE  Range(Append(s, x)) = Range(s) \cup {x}
PROOF
<1>1. Append(s, x) = s \o <<x>> /\ <<x>> \in Seq(S)
  OBVIOUS
<1>2. Range(<<x>>) = {x}
  BY DEF Range
<1>3. Range(s \o <<x>>) = Range(s) \cup Range(<<x>>)
  BY <1>1, RangeConcat
<1> QED
  BY <1>1, <1>2, <1>3, Zenon

LEMMA RangeHeadTail ==
  ASSUME NEW S, NEW s \in Seq(S), s # <<>>
  PROVE  Range(s) = {Head(s)} \cup Range(Tail(s))
PROOF
<1>1. s = <<Head(s)>> \o Tail(s) /\ <<Head(s)>> \in Seq(S) /\ Tail(s) \in Seq(S)
  OBVIOUS
<1>2. Range(<<Head(s)>>) = {Head(s)}
  BY DEF Range
<1>3. Range(<<Head(s)>> \o Tail(s)) = Range(<<Head(s)>>) \cup Range(Tail(s))
  BY <1>1, RangeConcat
<1> QED
  BY <1>1, <1>2, <1>3, Zenon

\* A restarted process finds every Cell there is.
LEMMA ListingsWhole ==
  ASSUME NEW cs \in [Names -> Cells], NEW q \in Listings(cs), NEW n \in Names, cs[n].live
  PROVE  n \in Range(q)
PROOF
<1> DEFINE S == {m \in Names : cs[m].live}
<1>1. IsFiniteSet(S)
  BY FleetAssumption, FS_Subset
<1>2. Cardinality(S) \in Nat
  BY <1>1, FS_CardinalityType
<1>3. q \in Injection(1..Cardinality(S), S)
  BY DEF Listings, SetToSeqs, Injection, IsInjective
<1>4. Cardinality(1..Cardinality(S)) = Cardinality(S)
  BY <1>2, FS_Interval
<1>5. q \in Surjection(1..Cardinality(S), S)
  BY <1>1, <1>3, <1>4, FS_Injection
<1> QED
  BY <1>5 DEF Surjection, Range

LEMMA EnqueueAdds ==
  ASSUME TypeOK, NEW n \in Names, Enqueue(n)
  PROVE  /\ Range(queue) \subseteq Range(queue') /\ (again => again')
         /\ IF n = who THEN again' ELSE n \in Range(queue')
PROOF
<1>1. Range(Append(queue, n)) = Range(queue) \cup {n}
  BY RangeAppend DEF TypeOK
<1> QED
  BY <1>1 DEF Enqueue

LEMMA EndPassKeeps ==
  ASSUME TypeOK, pc # "idle", NEW w \in BOOLEAN, EndPass(w)
  PROVE  /\ Range(queue) \subseteq Range(queue') /\ (w => who \in Range(queue'))
         /\ who' = None /\ pc' = "idle" /\ copy' = None /\ todo' = <<>>
PROOF
<1>1. who \in Names
  BY RunningPass
<1>2. Range(Append(queue, who)) = Range(queue) \cup {who}
  BY <1>1, RangeAppend DEF TypeOK
<1> QED
  BY <1>2 DEF EndPass

\* What a step may do to a pass that goes on.
LEMMA PassStep ==
  ASSUME TypeOK, [Next]_vars
  PROVE  \/ UNCHANGED pass
         \/ who' = None /\ pc' = "idle" /\ copy' = None /\ todo' = <<>>
         \/ /\ pc' = "fetch" /\ copy' = None /\ todo' = todo /\ pc = "idle"
            /\ UNCHANGED <<cells, owner, running>>
         \/ /\ pc = "fetch" /\ pc' = "publish" /\ who' = who /\ copy' = cells[who]
            /\ UNCHANGED <<todo, cells, owner, running>> /\ who \in Names
         \/ /\ pc = "publish" /\ pc' = "blocks" /\ who' = who /\ copy' = cells'[who]
            /\ copy = cells[who] /\ who \in Names
            /\ copy' = [copy EXCEPT !.po = Gate[who]["po"] \in running,
                                    !.prom = Gate[who]["prom"] \in running]
            /\ todo' = Blocks(Plan(who, copy.spec), copy'.po, copy'.prom)
            /\ UNCHANGED <<owner, running>>
         \/ /\ pc = "blocks" /\ todo # <<>> /\ todo' = Tail(todo)
            /\ UNCHANGED <<who, pc, copy, cells, running, work>> /\ Write(Head(todo))
PROOF
<1> USE DEF cluster, work, pass
<1>1. CASE Start
  BY <1>1 DEF Start, TypeOK
<1>2. CASE Fetch
  BY <1>2, RunningPass DEF Fetch, EndPass
<1>3. CASE Publish
  <2>1. who \in Names /\ copy \in Cells /\ pc = "publish"
    BY <1>3, RunningPass DEF Publish
  <2>2. CASE cells[who] = copy
    <3> DEFINE new == [copy EXCEPT !.po = Gate[who]["po"] \in running,
                                   !.prom = Gate[who]["prom"] \in running]
    <3>1. /\ cells' = [cells EXCEPT ![who] = new] /\ copy' = new /\ pc' = "blocks"
          /\ todo' = Blocks(Plan(who, copy.spec), Gate[who]["po"] \in running,
                            Gate[who]["prom"] \in running)
          /\ UNCHANGED <<who, owner, running>>
      BY <1>3, <2>2 DEF Publish
    <3>2. new.po = (Gate[who]["po"] \in running) /\ new.prom = (Gate[who]["prom"] \in running)
      BY <2>1 DEF Cells
    <3>3. cells'[who] = new
      BY <2>1, <3>1 DEF TypeOK
    <3> HIDE DEF new
    <3>4. todo' = Blocks(Plan(who, copy.spec), copy'.po, copy'.prom)
      BY <3>1, <3>2
    <3> QED
      BY <2>1, <2>2, <3>1, <3>3, <3>4 DEF new
  <2>3. CASE cells[who] # copy
    BY <1>3, <2>3 DEF Publish, FailPass, EndPass
  <2> QED
    BY <2>2, <2>3
<1>4. CASE Block
  BY <1>4 DEF Block, FailPass, EndPass
<1>5. CASE Panic \/ Restart
  BY <1>5 DEF Panic, Restart, Reborn
<1>6. CASE Finish \/ PassFails
  BY <1>6 DEF Finish, PassFails, FailPass, EndPass
<1>7. CASE \/ Users \/ \E n \in Names : TimerFires(n) \/ Resync(n)
           \/ \E o \in Objs : Collect(o)
           \/ \E n \in Names, g \in {"po", "prom"} : Starts(n, g)
  BY <1>7 DEF Users, EditCell, DeleteCell, CreateCell, TimerFires, Resync, Collect, Starts
<1>8. CASE UNCHANGED vars
  BY <1>8 DEF vars
<1> QED
  BY <1>1, <1>2, <1>3, <1>4, <1>5, <1>6, <1>7, <1>8 DEF Next, Reconcile

LEMMA PlanTyped ==
  ASSUME NEW n \in Names, NEW s \in Specs
  PROVE  /\ \A g \in Groups : Plan(n, s)[g] \in Seq(Objs)
         /\ Everything(n, s) \subseteq Objs
PROOF
<1>1. \A g \in Groups : Plan(n, s)[g] \in Seq(Objs)
  BY FleetAssumption
<1>2. \A g \in Groups : Range(Plan(n, s)[g]) \subseteq Objs
  BY <1>1 DEF Range
<1> QED
  BY <1>1, <1>2 DEF Everything

\* A pass walks what is planned, and all of what every pass makes.
LEMMA BlocksRange ==
  ASSUME NEW n \in Names, NEW s \in Specs, NEW po \in BOOLEAN, NEW prom \in BOOLEAN
  PROVE  LET p == Plan(n, s)
         IN  /\ Range(Blocks(p, po, prom)) \subseteq Everything(n, s)
             /\ Range(p["gitpod"]) \cup Range(p["exporters"]) \subseteq Range(Blocks(p, po, prom))
PROOF
<1> DEFINE p == Plan(n, s)
           x == IF po THEN <<>> ELSE p["po"]
           y == IF prom THEN <<>> ELSE p["prom"]
           g == p["gitpod"]
           e == p["exporters"]
<1>1. p["po"] \in Seq(Objs) /\ p["prom"] \in Seq(Objs) /\ g \in Seq(Objs) /\ e \in Seq(Objs)
  BY PlanTyped DEF Groups
<1>2. x \in Seq(Objs) /\ y \in Seq(Objs)
  BY <1>1
<1>3. Blocks(p, po, prom) = x \o y \o g \o e
  BY Zenon DEF Blocks
<1>4. Range(x) \subseteq Range(p["po"]) /\ Range(y) \subseteq Range(p["prom"])
  BY DEF Range
<1>5. /\ Range(p["po"]) \subseteq Everything(n, s) /\ Range(p["prom"]) \subseteq Everything(n, s)
      /\ Range(g) \subseteq Everything(n, s) /\ Range(e) \subseteq Everything(n, s)
  BY DEF Everything, Groups
<1> HIDE DEF x, y, g, e, p
<1>6. Range(x \o y \o g \o e) = Range(x) \cup Range(y) \cup Range(g) \cup Range(e)
  BY <1>1, <1>2, RangeConcatFour
<1>7. Range(Blocks(p, po, prom)) = Range(x) \cup Range(y) \cup Range(g) \cup Range(e)
  BY <1>3, <1>6
<1>8. Range(Blocks(p, po, prom)) \subseteq Everything(n, s)
  BY <1>4, <1>5, <1>7
<1>9. Range(g) \cup Range(e) \subseteq Range(Blocks(p, po, prom))
  BY <1>7
<1> QED
  BY <1>8, <1>9 DEF p, g, e

-----------------------------------------------------------------------------
(* What is there stays there *)

\* While nobody deletes a Cell, the collector leaves alone what Cells have in their
\* own namespace.
LEMMA Kept ==
  ASSUME SharersTogether, HomeGates, TypeOK, Undeleted, Genealogy, Planted,
         NEW n \in Names, NEW s \in Specs, NEW o \in Everything(n, s) \cup Gates(n),
         o \in Objs, o.ns = NamespaceOf[n]
  PROVE  ~Collectable(o)
PROOF
<1> SUFFICES ASSUME owner[o] \in Uids PROVE NamespaceOf[owner[o].name] = o.ns /\ Live(owner[o])
  BY DEF Collectable
<1>1. owner[o].name \in Names /\ owner[o].gen \in Nat
  BY DEF Uids
<1>2. cells[owner[o].name].live /\ cells[owner[o].name].gen = 1
  BY <1>1 DEF Undeleted
<1>3. owner[o].gen >= 1 /\ owner[o].gen <= 1
  BY <1>1, <1>2 DEF Genealogy, Planted
<1>4. Live(owner[o])
  BY <1>1, <1>2, <1>3 DEF Live
<1>5. PICK r \in Specs : o \in Everything(owner[o].name, r)
  BY DEF Planted
<1>6. NamespaceOf[owner[o].name] = NamespaceOf[n]
  BY <1>1, <1>5 DEF SharersTogether
<1> QED
  BY <1>4, <1>6

\* Nobody has deleted a Cell before a state in which nobody has.
LEMMA UndeletedBefore ==
  ASSUME TypeOK, Planted, [Next]_vars, Undeleted'
  PROVE  Undeleted
PROOF
<1> SUFFICES ASSUME NEW n \in Names PROVE cells[n].live /\ cells[n].gen = 1
  BY DEF Undeleted
<1>1. cells'[n].live /\ cells'[n].gen = 1
  BY DEF Undeleted
<1>2. cells[n].gen \in Nat /\ cells[n].gen >= 1
  BY DEF TypeOK, Cells, Planted
<1> QED
  BY <1>1, <1>2, Generations

LEMMA OwnedStays ==
  ASSUME TypeOK, [Next]_vars, NEW o \in Objs, owner[o] # None, ~Collectable(o)
  PROVE  owner'[o] # None
PROOF
<1> SUFFICES ASSUME owner'[o] # owner[o] PROVE FALSE
  OBVIOUS
<1>1. Next
  BY DEF vars, cluster
<1>2. Collect(o)
  BY <1>1, OwnerStep
<1> QED
  BY <1>2 DEF Collect

\* A workload runs until it is collected.
LEMMA RunningStays ==
  ASSUME TypeOK, [Next]_vars, NEW o \in running, ~Collectable(o)
  PROVE  o \in running'
PROOF
<1> USE DEF cluster, work, pass
<1>1. CASE running' = running
  BY <1>1
<1>2. ASSUME NEW p \in Objs, Collect(p) PROVE o \in running'
  BY <1>2 DEF Collect
<1>3. CASE \E n \in Names, g \in {"po", "prom"} : Starts(n, g)
  BY <1>3 DEF Starts
<1>4. CASE Reconcile \/ PassFails \/ Restart
  BY <1>1, <1>4 DEF Reconcile, Start, Fetch, Publish, Panic, Block, Finish, PassFails, Restart
<1>5. CASE Users \/ \E n \in Names : TimerFires(n) \/ Resync(n)
  BY <1>1, <1>5 DEF Users, EditCell, DeleteCell, CreateCell, TimerFires, Resync
<1>6. CASE UNCHANGED vars
  BY <1>1, <1>6 DEF vars
<1> QED
  BY <1>2, <1>3, <1>4, <1>5, <1>6 DEF Next

LEMMA LastingPlanned ==
  ASSUME NEW n \in Names, NEW s \in Specs
  PROVE  \A o \in Lasting(n, s) : o \in Everything(n, s) /\ o \in Objs /\ o.ns = NamespaceOf[n]
PROOF
<1>1. Range(Plan(n, s)["gitpod"]) \subseteq Everything(n, s)
      /\ Range(Plan(n, s)["exporters"]) \subseteq Everything(n, s)
  BY DEF Everything, Groups
<1> QED
  BY <1>1, PlanTyped DEF Lasting, Beside

\* A Cell that has everything keeps it.
LEMMA WholeStays ==
  ASSUME SharersTogether, HomeGates, TypeOK, Undeleted, Genealogy, Planted, [Next]_vars,
         NEW n \in Names, Whole(n), cells'[n] = cells[n]
  PROVE  Whole(n)'
PROOF
<1>1. cells[n].spec \in Specs
  BY DEF TypeOK, Cells
<1>2. Everywhere(n) = Lasting(n, cells[n].spec) /\ Everywhere(n)' = Lasting(n, cells[n].spec)
  BY DEF Everywhere, Planned, Lasting, Beside
<1>3. ASSUME NEW o \in Lasting(n, cells[n].spec) PROVE owner'[o] # None
  <2>1. o \in Everything(n, cells[n].spec) /\ o \in Objs /\ o.ns = NamespaceOf[n]
    BY <1>1, LastingPlanned
  <2>2. ~Collectable(o)
    BY <1>1, <2>1, Kept
  <2> QED
    BY <1>2, <2>1, <2>2, OwnedStays DEF Whole
<1>4. ASSUME NEW g \in Gates(n), g \in running PROVE g \in running'
  <2>1. g \in Objs /\ g.ns = NamespaceOf[n]
    BY FleetAssumption DEF Gates, HomeGates
  <2>2. ~Collectable(g)
    BY <1>1, <2>1, Kept
  <2> QED
    BY <1>4, <2>2, RunningStays
<1> QED
  BY <1>2, <1>3, <1>4 DEF Whole, Gates

-----------------------------------------------------------------------------
(* The steps *)

LEMMA InitPlanted == Init => Planted
PROOF
<1> SUFFICES ASSUME Init PROVE Planted
  OBVIOUS
<1>1. PICK s \in InitSpecs :
        cells = [n \in Names |-> [live |-> TRUE, gen |-> 1, spec |-> s[n],
                                  po |-> FALSE, prom |-> FALSE]]
  BY DEF Init
<1>2. \A n \in Names : cells[n].gen >= 1
  BY <1>1
<1>3. Range(todo) = {} /\ todo = <<>> /\ copy = None
  BY DEF Init, NoPass, Range
<1>4. \A o \in Objs : owner[o] \notin Uids
  BY FleetAssumption DEF Init
<1> QED
  BY <1>2, <1>3, <1>4 DEF Planted

LEMMA PlantedStep ==
  ASSUME TypeOK, TypeOK', Planted, [Next]_vars
  PROVE  Planted'
PROOF
<1>1. ASSUME NEW n \in Names PROVE cells'[n].gen >= 1
  <2>1. cells[n].gen \in Nat /\ cells'[n].gen \in Nat /\ cells[n].gen >= 1
    BY DEF TypeOK, Cells, Planted
  <2> QED
    BY <2>1, Generations
<1>2. ASSUME copy' # None PROVE copy'.gen >= 1
  BY <1>2, CopyStep DEF Planted
<1>3. /\ pc' # "blocks" => todo' = <<>>
      /\ \A o \in Range(todo)' : \E s \in Specs : o \in Everything(who', s)
  <2>1. Range(<<>>) = {} /\ (todo' = <<>> => Range(todo)' = {})
    BY DEF Range
  <2>2. CASE UNCHANGED pass
    BY <2>2 DEF pass, Planted
  <2>3. CASE todo' = <<>>
    BY <2>1, <2>3
  <2>4. CASE todo' = todo /\ pc # "blocks"
    BY <2>1, <2>4 DEF Planted
  <2>5. CASE /\ pc = "publish" /\ pc' = "blocks" /\ who' = who /\ who \in Names
             /\ todo' = Blocks(Plan(who, copy.spec), copy'.po, copy'.prom)
    <3>1. copy \in Cells /\ copy' \in Cells
      BY <2>5, RunningPass DEF TypeOK
    <3>2. copy.spec \in Specs /\ copy'.po \in BOOLEAN /\ copy'.prom \in BOOLEAN
      BY <3>1 DEF Cells
    <3>3. Range(todo)' \subseteq Everything(who', copy.spec)
      BY <2>5, <3>2, BlocksRange
    <3> QED
      BY <2>5, <3>2, <3>3
  <2>6. CASE pc = "blocks" /\ pc' = pc /\ todo # <<>> /\ todo' = Tail(todo) /\ who' = who
    <3>1. Range(todo) = {Head(todo)} \cup Range(Tail(todo))
      BY <2>6, RangeHeadTail DEF TypeOK
    <3>2. Range(todo)' \subseteq Range(todo)
      BY <2>6, <3>1
    <3> QED
      BY <2>6, <3>2 DEF Planted
  <2> QED
    BY <2>2, <2>3, <2>4, <2>5, <2>6, PassStep
<1>4. ASSUME NEW o \in Objs, owner'[o] \in Uids
      PROVE  owner'[o].gen >= 1 /\ \E s \in Specs : o \in Everything(owner'[o].name, s)
  <2>1. CASE owner'[o] = owner[o]
    BY <1>4, <2>1 DEF Planted
  <2>2. CASE owner'[o] # owner[o]
    <3>1. Next /\ ~Collect(o)
      BY <1>4, <2>2, FleetAssumption DEF vars, cluster, Collect, TypeOK
    <3>2. owner'[o] = CreatedBy(who, copy) /\ pc = "blocks" /\ todo # <<>> /\ o = Head(todo)
      BY <2>2, <3>1, OwnerStep
    <3>3. o \in Range(todo) /\ copy # None
      BY <3>2, RangeHeadTail DEF TypeOK
    <3> QED
      BY <3>2, <3>3 DEF Planted, CreatedBy
  <2> QED
    BY <2>1, <2>2
<1> QED
  BY <1>1, <1>2, <1>3, <1>4 DEF Planted

\* What is written of a Cell changes by the status its pass writes, or is an event.
LEMMA CellStep ==
  ASSUME TypeOK, [Next]_vars, NEW n \in Names, cells'[n] # cells[n]
  PROVE  \/ Publish /\ n = who /\ cells[who] = copy
         \/ Enqueue(n) /\ UNCHANGED pass
PROOF
<1> USE DEF cluster, work, pass
<1>1. CASE Publish
  BY <1>1, RunningPass DEF Publish, TypeOK
<1>2. CASE Users
  BY <1>2 DEF Users, EditCell, DeleteCell, CreateCell, TypeOK
<1>3. CASE Start \/ Fetch \/ Panic \/ Block \/ Finish \/ PassFails \/ Restart
  BY <1>3 DEF Start, Fetch, Panic, Block, Finish, PassFails, Restart
<1>4. CASE \/ \E m \in Names : TimerFires(m) \/ Resync(m)
           \/ \E o \in Objs : Collect(o)
           \/ \E m \in Names, g \in {"po", "prom"} : Starts(m, g)
  BY <1>4 DEF TimerFires, Resync, Collect, Starts
<1>5. CASE UNCHANGED vars
  BY <1>5 DEF vars
<1> QED
  BY <1>1, <1>2, <1>3, <1>4, <1>5 DEF Next, Reconcile

\* That a Cell was added while its pass ran is known until the pass ends.
LEMMA AgainStays ==
  ASSUME TypeOK, [Next]_vars, again, who' # None
  PROVE  again'
PROOF
<1> USE DEF cluster, work, pass
<1>1. ASSUME EndPass(again) \/ Reborn PROVE FALSE
  BY <1>1 DEF EndPass, Reborn
<1>2. CASE Reconcile \/ PassFails \/ Restart
  BY <1>1, <1>2 DEF Reconcile, Start, Fetch, Publish, Panic, Block, Finish, PassFails, Restart,
                    FailPass
<1>3. CASE Users \/ \E n \in Names : TimerFires(n) \/ Resync(n)
  BY <1>3 DEF Users, EditCell, DeleteCell, CreateCell, TimerFires, Resync, Enqueue
<1>4. CASE \/ \E o \in Objs : Collect(o)
           \/ \E m \in Names, g \in {"po", "prom"} : Starts(m, g)
           \/ UNCHANGED vars
  BY <1>4 DEF Collect, Starts, vars
<1> QED
  BY <1>2, <1>3, <1>4 DEF Next

LEMMA CopyNowStep ==
  ASSUME TypeOK, TypeOK', CopyNow, [Next]_vars
  PROVE  CopyNow'
PROOF
<1> SUFFICES ASSUME pc' \in {"publish", "blocks"}, ~again' PROVE copy' = cells'[who']
  BY DEF CopyNow
<1>1. who' \in Names /\ copy' # None /\ who' # None
  BY FleetAssumption DEF TypeOK
<1>2. ~again
  BY <1>1, AgainStays
<1>3. CASE UNCHANGED pass
  <2>1. copy = cells[who] /\ who \in Names
    BY <1>1, <1>2, <1>3 DEF CopyNow, pass
  <2>2. CASE cells'[who] = cells[who]
    BY <1>3, <2>1, <2>2 DEF pass
  <2>3. CASE cells'[who] # cells[who]
    <3>1. CASE Enqueue(who)
      BY <3>1 DEF Enqueue
    <3>2. CASE Publish /\ cells[who] = copy
      BY <1>3, <3>2 DEF Publish, pass
    <3> QED
      BY <2>1, <2>3, <3>1, <3>2, CellStep
  <2> QED
    BY <2>2, <2>3
<1>4. CASE pc' = "publish" /\ who' = who /\ copy' = cells[who] /\ UNCHANGED cells
  BY <1>4
<1>5. CASE pc' = "blocks" /\ who' = who /\ copy' = cells'[who]
  BY <1>5
<1>6. CASE pc = "blocks" /\ UNCHANGED <<who, copy, cells>>
  BY <1>2, <1>6 DEF CopyNow
<1> QED
  BY <1>1, <1>3, <1>4, <1>5, <1>6, PassStep

\* A Cell of which no pass is due has been in that state, or has just had its pass.
LEMMA NotForgotten ==
  ASSUME TypeOK, Undeleted, Undeleted', [Next]_vars, NEW n \in Names, Rests(n)'
  PROVE  \/ Rests(n) /\ cells'[n] = cells[n]
         \/ /\ n = who /\ pc = "blocks" /\ todo = <<>> /\ ~again /\ copy.prom
            /\ UNCHANGED cluster
PROOF
<1> USE DEF cluster, work, pass
<1>0. cells[n].live /\ n # who' /\ n \notin Range(queue)' /\ n \notin later'
  BY DEF Rests, Undeleted
<1>1. CASE Start
  <2>1. Range(queue) = {who'} \cup Range(queue)' /\ who = None
    BY <1>1, RangeHeadTail DEF Start, TypeOK
  <2>2. UNCHANGED <<cells, later>> /\ n # None
    BY <1>1, FleetAssumption DEF Start
  <2> QED
    BY <1>0, <2>1, <2>2 DEF Rests
<1>2. ASSUME FailPass, pc # "idle", cells' = cells
      PROVE  Rests(n) /\ cells'[n] = cells[n]
  <2>1. Range(queue) \subseteq Range(queue)'
    BY <1>2, EndPassKeeps DEF FailPass, TypeOK
  <2> QED
    BY <1>0, <1>2, <2>1 DEF FailPass, Rests
<1>3. CASE Fetch
  <2>1. cells[who].live
    BY <1>3, RunningPass DEF Fetch, Undeleted
  <2> QED
    BY <1>0, <1>3, <2>1 DEF Fetch, Rests
<1>4. CASE Publish
  <2>1. CASE cells[who] = copy
    <3>1. UNCHANGED <<who, queue, later>>
      BY <1>4, <2>1 DEF Publish
    <3>2. cells'[n] = cells[n]
      BY <1>0, <1>4, <2>1, <3>1 DEF Publish, TypeOK
    <3> QED
      BY <1>0, <3>1, <3>2 DEF Rests
  <2>2. CASE cells[who] # copy
    BY <1>2, <1>4, <2>2 DEF Publish
  <2> QED
    BY <2>1, <2>2
<1>5. ASSUME Reborn, cells' = cells PROVE FALSE
  BY <1>0, <1>5, ListingsWhole DEF Reborn, TypeOK
<1>6. CASE Panic \/ Restart
  BY <1>5, <1>6 DEF Panic, Restart
<1>7. CASE Block
  <2>1. CASE Head(todo).ns = NoNamespace
    BY <1>2, <1>7, <2>1 DEF Block
  <2>2. CASE Head(todo).ns # NoNamespace
    BY <1>0, <1>7, <2>2 DEF Block, Rests
  <2> QED
    BY <2>1, <2>2
<1>8. CASE Finish
  <2>1. /\ Range(queue) \subseteq Range(queue)' /\ (again => who \in Range(queue)')
        /\ UNCHANGED cluster /\ pc = "blocks" /\ todo = <<>>
    BY <1>8, EndPassKeeps DEF Finish, TypeOK
  <2>2. later \subseteq later' /\ (~copy.prom => who \in later')
    BY <1>8 DEF Finish
  <2>3. CASE n = who
    BY <1>0, <2>1, <2>2, <2>3
  <2>4. CASE n # who
    BY <1>0, <2>1, <2>2, <2>4 DEF Rests
  <2> QED
    BY <2>3, <2>4
<1>9. CASE PassFails
  BY <1>2, <1>9 DEF PassFails
<1>10. ASSUME NEW m \in Names, Enqueue(m), who' = who
       PROVE  m # n /\ n # who /\ n \notin Range(queue)
  <2>1. Range(queue) \subseteq Range(queue)' /\ (m # who => m \in Range(queue)')
    BY <1>10, EnqueueAdds
  <2> QED
    BY <1>0, <1>10, <2>1
<1>11. CASE Users
  <2>1. PICK m \in Names : DeleteCell(m) \/ \E s \in Specs : EditCell(m, s) \/ CreateCell(m, s)
    BY <1>11 DEF Users
  <2>2. Enqueue(m) /\ who' = who /\ later' = later
    BY <2>1 DEF DeleteCell, EditCell, CreateCell
  <2>3. m # n /\ n # who /\ n \notin Range(queue)
    BY <1>10, <2>2
  <2>4. cells'[n] = cells[n]
    BY <2>1, <2>3 DEF DeleteCell, EditCell, CreateCell, TypeOK
  <2> QED
    BY <1>0, <2>2, <2>3, <2>4 DEF Rests
<1>12. CASE \E m \in Names : TimerFires(m) \/ Resync(m)
  <2>1. PICK m \in Names : TimerFires(m) \/ Resync(m)
    BY <1>12
  <2>2. Enqueue(m) /\ who' = who /\ cells' = cells /\ later \subseteq later' \cup {m}
    BY <2>1 DEF TimerFires, Resync
  <2>3. m # n /\ n # who /\ n \notin Range(queue)
    BY <1>10, <2>2
  <2> QED
    BY <1>0, <2>2, <2>3 DEF Rests
<1>13. CASE \/ \E o \in Objs : Collect(o)
            \/ \E m \in Names, g \in {"po", "prom"} : Starts(m, g)
            \/ UNCHANGED vars
  BY <1>0, <1>13 DEF Collect, Starts, vars, Rests
<1> QED
  BY <1>1, <1>3, <1>4, <1>6, <1>7, <1>8, <1>9, <1>11, <1>12, <1>13 DEF Next, Reconcile

LEMMA WorkloadStarts ==
  ASSUME TypeOK, [Next]_vars, NEW o \in running', o \notin running
  PROVE  \E m \in Names, g \in {"po", "prom"} : Starts(m, g) /\ o = Gate[m][g]
PROOF
<1> USE DEF cluster, work, pass
<1>1. CASE Reconcile \/ PassFails \/ Restart
  BY <1>1 DEF Reconcile, Start, Fetch, Publish, Panic, Block, Finish, PassFails, Restart
<1>2. CASE Users \/ \E n \in Names : TimerFires(n) \/ Resync(n)
  BY <1>2 DEF Users, EditCell, DeleteCell, CreateCell, TimerFires, Resync
<1>3. CASE (\E p \in Objs : Collect(p)) \/ UNCHANGED vars
  BY <1>3 DEF Collect, vars
<1>4. CASE \E m \in Names, g \in {"po", "prom"} : Starts(m, g)
  BY <1>4 DEF Starts
<1> QED
  BY <1>1, <1>2, <1>3, <1>4 DEF Next

\* While nobody deletes a Cell, its workloads run on.
LEMMA GateStays ==
  ASSUME SharersTogether, HomeGates, TypeOK, Undeleted, Genealogy, Planted, [Next]_vars,
         NEW n \in Names, NEW o \in Gates(n), o \in running
  PROVE  o \in running'
PROOF
<1>1. o \in Objs /\ o.ns = NamespaceOf[n]
  BY FleetAssumption DEF Gates, HomeGates
<1>2. cells[n].spec \in Specs
  BY DEF TypeOK, Cells
<1>3. ~Collectable(o)
  BY <1>1, <1>2, Kept
<1> QED
  BY <1>3, RunningStays

LEMMA OperatorFirstStep ==
  ASSUME SharersTogether, HomeGates, TypeOK, Undeleted, Genealogy, Planted, [Next]_vars,
         OperatorFirst
  PROVE  OperatorFirst'
PROOF
<1> SUFFICES ASSUME NEW n \in Names, Gate[n]["prom"] \in running'
             PROVE  Gate[n]["po"] \in running'
  BY DEF OperatorFirst
<1>1. Gate[n]["po"] \in running
  <2>1. CASE Gate[n]["prom"] \in running
    BY <2>1 DEF OperatorFirst
  <2>2. CASE Gate[n]["prom"] \notin running
    <3>1. PICK m \in Names, g \in {"po", "prom"} : Starts(m, g) /\ Gate[n]["prom"] = Gate[m][g]
      BY <2>2, WorkloadStarts
    <3>2. g = "prom" /\ Gate[m]["po"] = Gate[n]["po"]
      BY <3>1 DEF HomeGates
    <3> QED
      BY <3>1, <3>2 DEF Starts
  <2> QED
    BY <2>1, <2>2
<1> QED
  BY <1>1, GateStays DEF Gates

LEMMA TroddenStep ==
  ASSUME SharersTogether, HomeGates, TypeOK, TypeOK', Undeleted, Genealogy, Planted,
         [Next]_vars, Trodden
  PROVE  Trodden'
PROOF
<1> SUFFICES ASSUME pc' = "blocks"
             PROVE  /\ copy'.prom => Gate[who']["prom"] \in running'
                    /\ \A o \in Lasting(who', copy'.spec) : o \in Range(todo') \/ owner'[o] # None
  BY Zenon DEF Trodden, Lasting, Beside, Range
<1>1. who' \in Names /\ copy' \in Cells /\ copy'.spec \in Specs
  BY FleetAssumption DEF TypeOK, Cells
<1>2. CASE UNCHANGED pass
  <2>1. UNCHANGED <<who, pc, copy, todo>>
    BY <1>2 DEF pass
  <2>2. copy.prom => Gate[who]["prom"] \in running'
    BY <1>1, <2>1, GateStays DEF Trodden, Gates
  <2>3. ASSUME NEW o \in Lasting(who, copy.spec), owner[o] # None
        PROVE  owner'[o] # None
    <3>1. o \in Everything(who, copy.spec) /\ o \in Objs /\ o.ns = NamespaceOf[who]
      BY <1>1, <2>1, LastingPlanned
    <3>2. ~Collectable(o)
      BY <1>1, <2>1, <3>1, Kept
    <3> QED
      BY <2>3, <3>1, <3>2, OwnedStays
  <2> QED
    BY <2>1, <2>2, <2>3 DEF Trodden
<1>3. CASE /\ pc = "publish" /\ who' = who
           /\ copy = cells[who] /\ who \in Names
           /\ copy' = [copy EXCEPT !.po = Gate[who]["po"] \in running,
                                   !.prom = Gate[who]["prom"] \in running]
           /\ todo' = Blocks(Plan(who, copy.spec), copy'.po, copy'.prom)
           /\ UNCHANGED <<owner, running>>
  <2>1. copy \in Cells
    BY <1>3, RunningPass
  <2>2. copy'.spec = copy.spec /\ copy'.prom = (Gate[who]["prom"] \in running)
    BY <1>3, <2>1 DEF Cells
  <2>3. copy'.po \in BOOLEAN /\ copy'.prom \in BOOLEAN
    BY <1>1 DEF Cells
  <2>4. Lasting(who, copy.spec) \subseteq Range(todo')
    BY <1>1, <1>3, <2>2, <2>3, BlocksRange DEF Lasting, Beside
  <2> QED
    BY <1>3, <2>2, <2>4
<1>4. CASE /\ pc = "blocks" /\ todo # <<>> /\ todo' = Tail(todo)
           /\ UNCHANGED <<who, pc, copy, cells, running, work>> /\ Write(Head(todo))
  <2>1. Range(todo) = {Head(todo)} \cup Range(todo') /\ Head(todo) \in Objs
    BY <1>4, RangeHeadTail DEF TypeOK
  <2>2. CreatedBy(who, copy) # None
    <3>1. CreatedBy(who, copy) \in Uids
      BY <1>1, <1>4 DEF CreatedBy, Uids, Cells
    <3> QED
      BY <3>1, FleetAssumption
  <2>3. owner'[Head(todo)] # None /\ \A o \in Objs : owner[o] # None => owner'[o] # None
    BY <1>4, <2>1, <2>2 DEF Write, TypeOK
  <2>4. Lasting(who, copy.spec) \subseteq Objs
    BY <1>1, <1>4, LastingPlanned
  <2> QED
    BY <1>4, <2>1, <2>3, <2>4 DEF Trodden
<1> QED
  BY <1>2, <1>3, <1>4, PassStep

\* A Cell that has everything keeps it, and one whose pass has just been through
\* has everything.
LEMMA RestsWholeStep ==
  ASSUME SharersTogether, HomeGates, TypeOK, Genealogy, RestInv, [Next]_vars
  PROVE  RestsWhole'
PROOF
<1> SUFFICES ASSUME Undeleted', NEW n \in Names, Rests(n)' PROVE Whole(n)'
  BY DEF RestsWhole, Whole
<1>1. Undeleted
  BY UndeletedBefore DEF RestInv
<1>2. CASE Rests(n) /\ cells'[n] = cells[n]
  <2>1. Whole(n)
    BY <1>1, <1>2 DEF RestInv, RestsWhole, Whole
  <2> QED
    BY <1>1, <1>2, <2>1, WholeStays DEF RestInv
<1>3. CASE /\ n = who /\ pc = "blocks" /\ todo = <<>> /\ ~again /\ copy.prom
           /\ UNCHANGED cluster
  <2>1. copy = cells[n] /\ Trodden /\ OperatorFirst
    BY <1>1, <1>3 DEF RestInv, CopyNow
  <2>2. Range(todo) = {}
    BY <1>3 DEF Range
  <2>3. Everywhere(n) = Lasting(n, cells[n].spec)
    BY DEF Everywhere, Planned, Lasting, Beside
  <2>4. Whole(n)
    BY <1>3, <2>1, <2>2, <2>3 DEF Whole, Trodden, OperatorFirst
  <2>5. cells'[n] = cells[n]
    BY <1>3 DEF cluster
  <2> QED
    BY <1>1, <2>4, <2>5, WholeStays DEF RestInv
<1> QED
  BY <1>1, <1>2, <1>3, NotForgotten DEF RestInv

LEMMA InitRest == Init => RestInv
PROOF
<1> SUFFICES ASSUME Init PROVE RestInv
  OBVIOUS
<1>1. CopyNow /\ Trodden /\ OperatorFirst
  BY DEF Init, NoPass, CopyNow, Trodden, OperatorFirst
<1>2. TypeOK
  BY InitType
<1>3. ASSUME NEW n \in Names, Rests(n) PROVE FALSE
  <2>1. cells \in [Names -> Cells] /\ queue \in Listings(cells)
    BY <1>2 DEF Init, TypeOK
  <2> QED
    BY <1>3, <2>1, ListingsWhole DEF Rests
<1> QED
  BY <1>1, <1>3, InitPlanted DEF RestInv, RestsWhole

\* RestsWhole: the operator forgets no Cell.  If Cells share objects of a namespace
\* only with Cells of that namespace, one of which no pass is running or due has both
\* workloads and all that every pass makes, as long as nobody has deleted a Cell.
THEOREM FleetRestsWhole ==
  ASSUME SharersTogether, HomeGates
  PROVE  Spec => []RestsWhole
PROOF
<1>1. ASSUME TypeOK, TypeOK', Genealogy, RestInv, [Next]_vars PROVE RestInv'
  <2>1. Planted' /\ CopyNow'
    BY <1>1, PlantedStep, CopyNowStep DEF RestInv
  <2>2. ASSUME Undeleted' PROVE Trodden' /\ OperatorFirst'
    <3>1. Undeleted
      BY <1>1, <2>2, UndeletedBefore DEF RestInv
    <3> QED
      BY <1>1, <3>1, TroddenStep, OperatorFirstStep DEF RestInv
  <2>3. RestsWhole'
    BY <1>1, RestsWholeStep
  <2> QED
    BY <2>1, <2>2, <2>3 DEF RestInv
<1>2. TypeOK /\ TypeOK' /\ Genealogy /\ RestInv /\ [Next]_vars => RestInv'
  BY <1>1
<1>3. RestInv => RestsWhole
  BY DEF RestInv
<1> QED
  BY <1>2, <1>3, InitRest, FleetTypeCorrect, GenealogyKept, PTL DEF Spec
=============================================================================
