---------------------------------- MODULE Fleet ----------------------------------
(***************************************************************************)
(* Several Cells: the one worker and its queue, the owner references of    *)
(* the child objects and the garbage collector, Cells that are deleted and *)
(* created again, and a pass that takes the process down.                  *)
(*                                                                         *)
(* CellReconciler has the pass request by request against lagging caches.  *)
(* Here a block "Get; Create or Update" is one step that sees the cluster  *)
(* as it is, a failed request is `PassFails`, and an object is no more     *)
(* than its owner.  The scrape flags count as true while Prometheus runs.  *)
(***************************************************************************)
EXTENDS Naturals, Sequences, SequencesExt

CONSTANTS
  Names,         \* Cells, by namespace and name
  NamespaceOf,   \* [Names -> namespaces]
  Specs,         \* labels and spec of a Cell; `labelled` says if it has labels
  InitSpecs,     \* {[Names -> Specs]}: Cells the operator may be started with
  Objs,          \* child objects: their namespace, and if Labels(cell) is in them
  Plan(_, _),    \* what a pass walks for (Cell, spec): [Groups -> Seq(Objs)]
  Gate,          \* [Names -> [{"po", "prom"} -> workloads]]
  Unscoped,      \* "namespace" of cluster-scoped objects
  NoNamespace,   \* the namespace of a Cell that leaves it out
  None,          \* no object, no Cell
  Unowned,       \* owner of an object without owner references
  Disruptions, MaxDisruptions  \* what may happen to it all, and how often (bound)

VARIABLES
  cells,    \* the Cells: whether they exist, generation, spec, the two gate flags
  owner,    \* the child objects: the Cell in their owner reference, or None
  running,  \* workloads with an available replica
  queue,    \* the work queue
  again,    \* the Cell being worked on was added meanwhile
  later,    \* Cells to be added later
  who,      \* the Cell of the running pass
  pc,       \* where that pass is
  copy,     \* its copy of the Cell
  todo,     \* blocks it has left
  left      \* disruptions left

cluster == <<cells, owner, running>>
work    == <<queue, again, later>>
pass    == <<who, pc, copy, todo>>
vars    == <<cluster, work, pass, left>>

Gates(n) == {Gate[n]["po"], Gate[n]["prom"]}
Workloads == UNION {Gates(n) : n \in Names}

\* A Cell's UID: a Cell that is deleted and created again has another one.
Uids == [name : Names, gen : Nat]
Uid(n) == [name |-> n, gen |-> cells[n].gen]

\* The Cell an owner reference points at is there.
Live(u) == u \in Uids /\ cells[u.name].live /\ cells[u.name].gen = u.gen

Cells == [live : BOOLEAN, gen : Nat, spec : Specs, po : BOOLEAN, prom : BOOLEAN]

Groups == {"po", "prom", "gitpod", "exporters"}

ASSUME FleetAssumption ==
  /\ IsFiniteSet(Names) /\ None \notin Names \cup Uids \cup Cells
  /\ \A s \in InitSpecs : s \in [Names -> Specs]
  /\ \A n \in Names, s \in Specs : Plan(n, s) \in [Groups -> Seq(Objs)]
  /\ \A n \in Names : Gate[n]["po"] \in Objs /\ Gate[n]["prom"] \in Objs
  /\ MaxDisruptions \in Nat

TypeOK ==
  /\ cells \in [Names -> Cells]
  /\ owner \in [Objs -> Uids \cup {None, Unowned}]
  /\ running \subseteq Workloads
  /\ queue \in Seq(Names) /\ again \in BOOLEAN /\ later \subseteq Names
  /\ who \in Names \cup {None} /\ (who = None <=> pc = "idle")
  /\ pc \in {"idle", "fetch", "publish", "blocks"}
  /\ copy \in Cells \cup {None} /\ (copy = None <=> pc \in {"idle", "fetch"})
  /\ todo \in Seq(Objs)
  /\ left \in Nat

-----------------------------------------------------------------------------
(* The work queue *)

NoPass == who = None /\ pc = "idle" /\ copy = None /\ todo = <<>>

\* The Cells the informer finds at its start, in the order of a Go map.
Listings(cs) == SetToSeqs({n \in Names : cs[n].live})

Init ==
  /\ \E s \in InitSpecs :
       cells = [n \in Names |-> [live |-> TRUE, gen |-> 1, spec |-> s[n],
                                 po |-> FALSE, prom |-> FALSE]]
  /\ owner = [o \in Objs |-> None] /\ running = {}
  /\ queue \in Listings(cells) /\ again = FALSE /\ later = {}
  /\ NoPass
  /\ left = MaxDisruptions

Disrupt(kind) == kind \in Disruptions /\ left > 0 /\ left' = left - 1

\* A Cell is in the queue once, and not while it is being worked on.
Enqueue(n) ==
  IF n = who THEN again' = TRUE /\ UNCHANGED queue
  ELSE /\ queue' = IF n \in Range(queue) THEN queue ELSE Append(queue, n)
       /\ UNCHANGED again

\* Mutant of EndPass: the pass's variable outlives it.
EndPassKeepingCopy(w) ==
  /\ who' = None /\ pc' = "idle" /\ todo' = <<>>
  /\ queue' = IF w THEN Append(queue, who) ELSE queue
  /\ again' = FALSE /\ UNCHANGED copy

\* Mutant of EndPass: what was added meanwhile is dropped.
EndPassDropping(w) ==
  /\ who' = None /\ pc' = "idle" /\ copy' = None /\ todo' = <<>>
  /\ again' = FALSE /\ UNCHANGED queue

\* The worker is done with its Cell, `w` having been added meanwhile or not.
EndPass(w) ==
  /\ who' = None /\ pc' = "idle" /\ copy' = None /\ todo' = <<>>
  /\ queue' = IF w THEN Append(queue, who) ELSE queue
  /\ again' = FALSE

\* Mutant of FailPass: the error does not come back from Reconcile.
FailPassSilently == EndPass(again) /\ UNCHANGED later

FailPass == EndPass(again) /\ later' = later \cup {who}

TimerFires(n) ==
  /\ n \in later /\ later' = later \ {n}
  /\ Enqueue(n)
  /\ UNCHANGED <<cluster, pass, left>>

Resync(n) ==
  /\ cells[n].live /\ n \notin Range(queue) /\ (n = who => ~again)
  /\ Enqueue(n)
  /\ UNCHANGED <<cluster, later, pass, left>>

-----------------------------------------------------------------------------
(* The pass *)

Start ==
  /\ pc = "idle" /\ queue # <<>>
  /\ who' = Head(queue) /\ queue' = Tail(queue) /\ pc' = "fetch"
  /\ UNCHANGED <<cluster, again, later, copy, todo, left>>

\* r.Get; a Cell that is gone ends the pass.
Fetch ==
  /\ pc = "fetch"
  /\ IF cells[who].live
     THEN /\ copy' = cells[who] /\ pc' = "publish"
          /\ UNCHANGED <<who, todo, queue, again>>
     ELSE EndPass(again)
  /\ UNCHANGED <<cluster, later, left>>

\* Mutant of Blocks: a ready Cell is left alone.
BlocksUnlessReady(p, po, prom) ==
  IF prom THEN <<>>
  ELSE (IF po THEN <<>> ELSE p["po"]) \o p["prom"] \o p["gitpod"] \o p["exporters"]

\* What the pass goes through, by the two readiness gates.
Blocks(p, po, prom) ==
  (IF po THEN <<>> ELSE p["po"]) \o (IF prom THEN <<>> ELSE p["prom"])
    \o p["gitpod"] \o p["exporters"]

\* updateCellStatus.  A status that changes is an event of the Cell.
Publish ==
  /\ pc = "publish"
  /\ LET po   == Gate[who]["po"] \in running
         prom == Gate[who]["prom"] \in running
         new  == [copy EXCEPT !.po = po, !.prom = prom]
     IN IF cells[who] = copy
        THEN /\ cells' = [cells EXCEPT ![who] = new]
             /\ copy' = new /\ pc' = "blocks"
             /\ todo' = Blocks(Plan(who, copy.spec), po, prom)
             /\ again' = (again \/ new # copy)
             /\ UNCHANGED <<who, queue, later>>
        ELSE FailPass /\ UNCHANGED cells
  /\ UNCHANGED <<owner, running, left>>

\* The process dies; the one that follows lists the Cells.
Reborn ==
  /\ who' = None /\ pc' = "idle" /\ copy' = None /\ todo' = <<>>
  /\ queue' \in Listings(cells) /\ again' = FALSE /\ later' = {}

\* Labels(cell) writes into the nil map of a Cell without labels.
Panics(o) == o.labelled /\ ~copy.spec.labelled

Panic ==
  /\ pc = "blocks" /\ todo # <<>> /\ Panics(Head(todo))
  /\ Reborn
  /\ UNCHANGED <<cluster, left>>

\* Mutant of CreatedBy: the owner reference is left out.
CreatedByNobody(n, c) == Unowned

\* The owner reference the builders write.
CreatedBy(n, c) == [name |-> n, gen |-> c.gen]

\* Mutant of Write: the update assigns the owner references, too.
WriteAdopting(o) == owner' = [owner EXCEPT ![o] = CreatedBy(who, copy)]

\* The updates leave the owner references of an object that exists as they are.
Write(o) ==
  owner' = [owner EXCEPT ![o] = IF @ = None THEN CreatedBy(who, copy) ELSE @]

\* Mutant of Block: a request that fails is made again instead of the pass.
BlockInsisting ==
  /\ pc = "blocks" /\ todo # <<>> /\ ~Panics(Head(todo))
  /\ IF Head(todo).ns = NoNamespace
     THEN UNCHANGED <<owner, pass, work>>
     ELSE /\ Write(Head(todo)) /\ todo' = Tail(todo)
          /\ UNCHANGED <<who, pc, copy, work>>
  /\ UNCHANGED <<cells, running, left>>

\* An object in no namespace is found in none, and cannot be created.
Block ==
  /\ pc = "blocks" /\ todo # <<>> /\ ~Panics(Head(todo))
  /\ IF Head(todo).ns = NoNamespace
     THEN FailPass /\ UNCHANGED owner
     ELSE /\ Write(Head(todo)) /\ todo' = Tail(todo)
          /\ UNCHANGED <<who, pc, copy, work>>
  /\ UNCHANGED <<cells, running, left>>

Finish ==
  /\ pc = "blocks" /\ todo = <<>>
  /\ later' = IF copy.prom THEN later ELSE later \cup {who}
  /\ EndPass(again)
  /\ UNCHANGED <<cluster, left>>

PassFails ==
  /\ pc \in {"publish", "blocks"} /\ Disrupt("fault")
  /\ FailPass
  /\ UNCHANGED cluster

Restart ==
  /\ Disrupt("crash") /\ Reborn
  /\ UNCHANGED cluster

-----------------------------------------------------------------------------
(* The cluster *)

\* The owner is in another namespace, or no longer there.  A cluster-scoped object
\* with an owner in a namespace is never collected.
Collectable(o) ==
  /\ owner[o] \in Uids /\ o.ns # Unscoped
  /\ NamespaceOf[owner[o].name] # o.ns \/ ~Live(owner[o])

Collect(o) ==
  /\ Collectable(o)
  /\ owner' = [owner EXCEPT ![o] = None] /\ running' = running \ {o}
  /\ UNCHANGED <<cells, work, pass, left>>

\* A Prometheus is started by the Cell's operator.
Starts(n, g) ==
  /\ owner[Gate[n][g]] # None /\ Gate[n][g] \notin running
  /\ g = "prom" => Gate[n]["po"] \in running
  /\ running' = running \cup {Gate[n][g]}
  /\ UNCHANGED <<cells, owner, work, pass, left>>

\* The user.
EditCell(n, s) ==
  /\ cells[n].live /\ s # cells[n].spec /\ Disrupt("spec")
  /\ cells' = [cells EXCEPT ![n].spec = s] /\ Enqueue(n)
  /\ UNCHANGED <<owner, running, later, pass>>

DeleteCell(n) ==
  /\ cells[n].live /\ Disrupt("delete")
  /\ cells' = [cells EXCEPT ![n].live = FALSE] /\ Enqueue(n)
  /\ UNCHANGED <<owner, running, later, pass>>

CreateCell(n, s) ==
  /\ ~cells[n].live /\ Disrupt("create")
  /\ cells' = [cells EXCEPT ![n] = [live |-> TRUE, gen |-> @.gen + 1, spec |-> s,
                                    po |-> FALSE, prom |-> FALSE]]
  /\ Enqueue(n)
  /\ UNCHANGED <<owner, running, later, pass>>

-----------------------------------------------------------------------------
(* Specification *)

Reconcile == Start \/ Fetch \/ Publish \/ Panic \/ Block \/ Finish

Users == \E n \in Names :
  DeleteCell(n) \/ \E s \in Specs : EditCell(n, s) \/ CreateCell(n, s)

Next ==
  \/ Reconcile \/ PassFails \/ Restart \/ Users
  \/ \E n \in Names : TimerFires(n) \/ Resync(n)
  \/ \E o \in Objs : Collect(o)
  \/ \E n \in Names, g \in {"po", "prom"} : Starts(n, g)

Spec == Init /\ [][Next]_vars

\* A panic after which n comes first.
PanicBefore(n) == Panic /\ queue' # <<>> /\ Head(queue') = n

\* The worker, the queue's timers, the resync, the garbage collector and the
\* cluster keep going; nothing that goes wrong, and no user, is fair.  If there is one
\* panic after another, each Cell comes first now and then: the order in which a new
\* process hears of the Cells is drawn anew.
Fairness ==
  /\ WF_vars(Reconcile)
  /\ \A n \in Names : SF_vars(PanicBefore(n))
  /\ \A n \in Names : WF_vars(TimerFires(n)) /\ WF_vars(Resync(n))
  /\ \A o \in Objs : WF_vars(Collect(o))
  /\ \A n \in Names, g \in {"po", "prom"} : WF_vars(Starts(n, g))

LiveSpec == Spec /\ Fairness
-----------------------------------------------------------------------------
(* Properties *)

\* Whatever a pass was still creating while its Cell was deleted, and wherever the
\* Cell's Gitpod was before: no object in a namespace outlives its Cell for good.
LeavesNothing ==
  <>[](\A o \in Objs : owner[o] # None /\ o.ns # Unscoped => Live(owner[o]))

Planned(n, g) == Range(Plan(n, cells[n].spec)[g])
Beside(n, objs) == {o \in objs : o.ns = NamespaceOf[n]}

\* A Cell that has labels and names a namespace.
Usable(n) ==
  cells[n].live /\ cells[n].spec.labelled /\ cells[n].spec.gitpodNamespace # NoNamespace

\* Nobody deleted a Cell.
Undeleted == \A n \in Names : cells[n].live /\ cells[n].gen = 1

\* No pass of it is running or due.
Rests(n) == cells[n].live /\ n # who /\ n \notin Range(queue) \cup later

Everywhere(n) == Beside(n, Planned(n, "gitpod") \cup Planned(n, "exporters"))

\* The operator forgets no Cell: however edits, failed and broken-off passes, status
\* updates and the other Cells' turns are interleaved, one of which no pass is due has
\* both workloads running and all that every pass makes in its namespace.  (A Cell that
\* shared objects with a deleted one does rest without them, until the next resync.)
RestsWhole ==
  Undeleted => \A n \in Names : Rests(n) =>
    /\ Gate[n]["po"] \in running /\ Gate[n]["prom"] \in running
    /\ \A o \in Everywhere(n) : owner[o] # None

\* All that some pass of a Cell goes through.
Everything(n, s) == UNION {Range(Plan(n, s)[g]) : g \in Groups}

\* A hypothesis of the theorem about RestsWhole: Cells that share an object of one's
\* namespace are in that namespace both.  (The collector takes away what a Cell
\* elsewhere was first to make, and nobody is told.)
SharersTogether ==
  \A m \in Names, n \in Names, s \in Specs, r \in Specs :
    \A o \in Everything(m, s) \cap (Everything(n, r) \cup Gates(n)) :
      o.ns = NamespaceOf[n] => NamespaceOf[m] = NamespaceOf[n]

\* Another: the two workloads of a Cell are in its namespace, and its Prometheus is no
\* other Cell's operator, nor started by one.
HomeGates ==
  /\ \A n \in Names : \A o \in Gates(n) : o.ns = NamespaceOf[n]
  /\ \A n \in Names, m \in Names : \A g \in {"po", "prom"} :
       Gate[m][g] = Gate[n]["prom"] => g = "prom" /\ Gate[m]["po"] = Gate[n]["po"]

\* A Cell that is created again, or shares objects with one that is deleted, or the
\* worker with one whose passes all fail or panic, is whole in the end: what every pass
\* makes in its namespace is there for good, and so are the two workloads.
Restored ==
  <>[](\A n \in Names : Usable(n) =>
         \A o \in Everywhere(n) \cup Gates(n) : owner[o] # None)

\* The cluster comes to rest although passes keep coming: Cells that share objects do
\* not take them from one another for ever, none is made that has to be collected again,
\* and no status is written whose event only starts the next pass.
Settles == <>[][FALSE]_cluster

\* A Cell that is created again inherits nothing: what its predecessor's passes
\* made, or were still making, is never kept alive by it.
NoHeir ==
  [][\A o \in Objs : owner[o] \in Uids /\ ~Live(owner[o]) =>
        owner'[o] = None \/ (owner'[o] \in Uids /\ ~Live(owner[o])')]_vars

-----------------------------------------------------------------------------
(* What the repository says, and the code does not do *)

\* Reconcile "aims to move the current state of the cluster closer to the desired
\* state" (cell_controller.go:73), also for a Cell that has been created again: all
\* of Prometheus's objects are there in the end.
PrometheusComplete ==
  <>[](\A n \in Names : Usable(n) =>
         \A o \in Beside(n, Planned(n, "prom")) : owner[o] # None)

\* "extraNamespaceRoleBindings and extraNamespaceRoles are used to give permission to
\* prometheus to scrape metrics from endpoints in other namespaces"
\* (rolebindings.go:12), and "GitpodNamespace identifies the namespace where Gitpod
\* components were deployed to" (cell_types.go:35): what a Cell has in other namespaces
\* stays there.
OtherNamespacesServed ==
  <>[](\A n \in Names : Usable(n) =>
         \A o \in Planned(n, "prom") \cup Planned(n, "gitpod") :
           o.ns \notin {NamespaceOf[n], Unscoped} => owner[o] # None)
=============================================================================
