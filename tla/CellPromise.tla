------------------------------ MODULE CellPromise ------------------------------
(***************************************************************************)
(* The refinement mapping from the loop of CellReconciler to the promise   *)
(* of LevelTriggered.                                                      *)
(***************************************************************************)
EXTENDS CellReconciler

\* The configurations an object is as wanted for.
FitFor(o) ==
  {c \in Configs : /\ store[o].present
                   /\ store[o].content = Rendered(o, c)
                   /\ store[o].sel = Selector(o, c)}

\* A pass has observed the Cell once it has read it.
Observed == IF pc \in {"idle", "fetch"} THEN {} ELSE {me.config}

\* A pass is due while its request is in the queue, on its way there, or taken off
\* it by a worker that has not read the Cell yet.
PassDue == queued \/ timer \/ cellCache # cell \/ pc = "fetch"

Promise == INSTANCE LevelTriggered WITH
  Objects <- Objs,
  Needs   <- [c \in Configs |-> MaintainedFor(c)],
  wanted  <- IF cell.live THEN {cell.config} ELSE {},
  fit     <- [o \in Objs |-> FitFor(o)],
  working <- Observed,
  due     <- PassDue

\* "Reconcile ... aims to move the current state of the cluster closer to the
\* desired state" (cell_controller.go:73), made precise: with its lagging caches,
\* conflicts, failures, crashes and gates, the loop is a level-triggered controller
\* for the objects every pass reconciles, where nobody else touches them.
KeepsPromise == Promise!Spec
=============================================================================
