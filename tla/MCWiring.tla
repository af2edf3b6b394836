--------------------------------- MODULE MCWiring ---------------------------------
(***************************************************************************)
(* Small instances of Wiring.                                              *)
(***************************************************************************)
EXTENDS Wiring, TLC

CONSTANTS a, b, c  \* names of Cells

\* The labels of config/samples a selector asks for, and a set that names a component.
Sample == Label("app/name", "cell") ++ Label("app/instance", "cell-sample")
            ++ Label("app/part-of", "monitoring-cell")
Component == Label("app/component", "prometheus") ++ Label("app/part-of", "monitoring-cell")

Another == Label("app/instance", "other") ++ Label("app/part-of", "monitoring-cell")

SampleOnly == {Sample}
TwoLabels == {Sample, Component}
ThreeLabels == {Sample, Component, Another}

OneCell == {a}
ThreeCells == {a, b, c}
OwnNames == [d \in Cells |-> d]

\* Two Cells in Gitpod's namespace, and one in another.
Homes == [d \in Cells |-> IF d = c THEN "monitoring" ELSE "default"]

\* Nothing tells one node from another, or the two Cells.
Alike == Permutations(Nodes) \cup Permutations({a, b})

\* The instances are some of those the theorems speak of.
ASSUME HypothesesMet == UniqueNames /\ PlainLabels
=============================================================================
