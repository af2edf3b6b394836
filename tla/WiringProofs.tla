------------------------------ MODULE WiringProofs ------------------------------
(***************************************************************************)
(* Theorems of Wiring for any number of Cells, namespaces, labels and      *)
(* nodes: its types, and that each Cell's programs have the permissions    *)
(* they need from its first pass on, while no two Cells have the same      *)
(* name.                                                                   *)
(*                                                                         *)
(* The permissions come from ClusterRoleBindings that all Cells could      *)
(* write and nobody deletes.  `Bound` says which of them a Cell finds in   *)
(* place: those its own last pass wrote, also where a gate has closed.     *)
(***************************************************************************)
EXTENDS Wiring, TLAPS

-----------------------------------------------------------------------------
(* Types *)

\* Every pass writes objects of all kinds, or none.
Whole == \A c \in Cells : \A k \in Kinds : wrote[c][k] # None <=> Made(c)

\* A Prometheus is started by the Cell's operator only.
Chain == \A c \in Cells : "prom" \in ready[c] => "po" \in ready[c]

WiringInv == TypeOK /\ Whole /\ Chain

LEMMA WiringInit == Init => WiringInv
<1> SUFFICES ASSUME Init PROVE WiringInv
  OBVIOUS
<1>1. \A c \in Cells : ~Made(c) /\ ready[c] = {} /\ \A k \in Kinds : wrote[c][k] = None
  BY DEF Init, Made, NothingWritten, Kinds
<1>2. /\ gitpod \in [GitpodObjects -> Cells \cup {Nobody, None}]
      /\ \A o \in GitpodObjects : gitpod[o] \in Keepers(o) \cup {Nobody, None}
  BY DEF Init
<1>3. TypeOK
  BY <1>2, WiringAssumption DEF Init, TypeOK, NothingWritten
<1> QED
  BY <1>1, <1>3 DEF WiringInv, Whole, Chain

\* A pass's bindings are those of its Cell.
LEMMA BindTyped ==
  ASSUME TypeOK, NEW c \in Cells, NEW apps, Bind(c, apps), NEW app \in Apps
  PROVE  /\ DOMAIN binding'[app] = CellNames
         /\ \A n \in CellNames :
              binding'[app][n] = None
                \/ \E d \in Cells : NameOf[d] = n /\ binding'[app][n] = ClusterRoleBinding(app, d)
<1>1. DOMAIN binding[app] = CellNames
  BY DEF TypeOK
<1>2. binding'[app] = IF app \in apps
                      THEN [binding[app] EXCEPT ![NameOf[c]] = ClusterRoleBinding(app, c)]
                      ELSE binding[app]
  BY DEF Bind
<1>3. ASSUME NEW n \in CellNames
      PROVE  binding'[app][n] = binding[app][n]
               \/ (NameOf[c] = n /\ binding'[app][n] = ClusterRoleBinding(app, c))
  BY <1>1, <1>2, <1>3
<1> QED
  BY <1>1, <1>2, <1>3 DEF TypeOK

\* The bindings are typed by constants only, and so are the objects of Gitpod.
LEMMA TypedParts ==
  ASSUME cells' \in [Cells -> CellLabels \cup {None}],
         wrote' \in [Cells -> [Kinds -> CellLabels \cup {None}]],
         \A app \in Apps :
           /\ DOMAIN binding'[app] = CellNames
           /\ \A n \in CellNames :
                binding'[app][n] = None
                  \/ \E d \in Cells : NameOf[d] = n /\ binding'[app][n] = ClusterRoleBinding(app, d),
         gitpod' \in [GitpodObjects -> Cells \cup {Nobody, None}],
         \A o \in GitpodObjects : gitpod'[o] \in Keepers(o)' \cup {Nobody, None},
         policy' \in Namespaces \cup {None},
         ready' \in [Cells -> SUBSET {"po", "prom"}],
         \A c \in Cells : ready'[c] # {} => Made(c)',
         daemon' \in [Nodes -> {c \in Cells : Made(c)'} \cup {None}],
         edits' \in 0..MaxEdits
  PROVE  TypeOK'
<1>1. \A app \in Apps : DOMAIN binding'[app] = CellNames'
  BY DEF CellNames
<1>2. \A app \in Apps, n \in CellNames' :
        binding'[app][n] = None
          \/ \E d \in Cells : NameOf[d] = n /\ binding'[app][n] = ClusterRoleBinding(app, d)'
  BY DEF ClusterRoleBinding, Binding, Account, Suffixed, CellNames
<1>3. GitpodObjects' = GitpodObjects /\ Namespaces' = Namespaces
  BY DEF GitpodObjects, GitpodObject, Namespaces
<1> QED
  BY <1>1, <1>2, <1>3 DEF TypeOK

LEMMA PassTyped ==
  ASSUME WiringInv, NEW c \in Cells, Pass(c)
  PROVE  WiringInv'
<1> USE DEF WiringInv
<1>1. cells[c] \in CellLabels /\ cells[c] # None
  BY WiringAssumption DEF Pass, TypeOK
<1>2. PICK apps : Bind(c, apps)
  BY DEF Pass
<1> DEFINE now == [k \in Kinds |->
                    CASE k = "prom" /\ "prom" \in ready[c]    -> wrote[c][k]
                      [] k = "workloads" /\ Made(c)           -> wrote[c][k]
                      [] k = "monitors" /\ Immutable(c)       -> wrote[c][k]
                      [] OTHER                                -> cells[c]]
<1>3. wrote' = [wrote EXCEPT ![c] = now]
  BY DEF Pass
<1>4. "prom" \in ready[c] => Made(c)
  BY DEF TypeOK
<1>5. Immutable(c) => Made(c)
  BY DEF Immutable, Made
<1>6. \A k \in Kinds : now[k] \in CellLabels /\ now[k] # None
  <2> SUFFICES ASSUME NEW k \in Kinds
               PROVE  now[k] \in CellLabels /\ now[k] # None
    OBVIOUS
  <2>1. Made(c) => wrote[c][k] \in CellLabels /\ wrote[c][k] # None
    BY WiringAssumption DEF Whole, TypeOK
  <2>2. now[k] = cells[c] \/ (Made(c) /\ now[k] = wrote[c][k])
    BY <1>4, <1>5
  <2> QED
    BY <1>1, <2>1, <2>2
<1> HIDE DEF now
<1>7. now \in [Kinds -> CellLabels \cup {None}]
  BY <1>6 DEF now
<1>8. wrote'[c] = now /\ \A d \in Cells \ {c} : wrote'[d] = wrote[d]
  BY <1>3 DEF TypeOK
<1>9. /\ Made(c)' /\ \A d \in Cells : Made(d) => Made(d)'
      /\ \A d \in Cells \ {c} : Made(d)' => Made(d)
  BY <1>6, <1>8 DEF Made, Kinds
<1>10. Whole'
  <2> SUFFICES ASSUME NEW d \in Cells, NEW k \in Kinds
               PROVE  (wrote'[d][k] # None) <=> Made(d)'
    BY DEF Whole
  <2>1. CASE d = c
    BY <1>6, <1>8, <1>9, <2>1
  <2>2. CASE d # c
    BY <1>8, <2>2 DEF Whole, Made
  <2> QED
    BY <2>1, <2>2
<1>11. UNCHANGED <<cells, ready, daemon, edits>> /\ policy' = NamespaceOf[c]
  BY DEF Pass
<1> DEFINE owned(o) == IF o \in GitpodOf(c) /\ gitpod[o] = None THEN GitpodOwner(c, o)
                                                                 ELSE gitpod[o]
<1>12. gitpod' = [o \in GitpodObjects |-> owned(o)]
  BY DEF Pass
<1>13. ASSUME NEW o \in GitpodObjects
       PROVE  /\ owned(o) \in Keepers(o)' \cup {Nobody, None}
              /\ owned(o) \in Cells \cup {Nobody, None}
  <2>1. GitpodOwner(c, o) \in Keepers(o)' \cup {Nobody}
    BY <1>9 DEF GitpodOwner, Keepers
  <2>2. Keepers(o) \subseteq Keepers(o)' /\ Keepers(o)' \subseteq Cells
    BY <1>9 DEF Keepers
  <2>3. gitpod[o] \in Keepers(o) \cup {Nobody, None}
    BY DEF TypeOK
  <2> QED
    BY <2>1, <2>2, <2>3
<1>14. Chain'
  BY <1>11 DEF Chain
<1>15. TypeOK'
  <2>1. wrote' \in [Cells -> [Kinds -> CellLabels \cup {None}]]
    BY <1>3, <1>7 DEF TypeOK
  <2>2. /\ \A d \in Cells : ready'[d] # {} => Made(d)'
        /\ daemon' \in [Nodes -> {d \in Cells : Made(d)'} \cup {None}]
    BY <1>9, <1>11 DEF TypeOK
  <2>3. /\ cells' \in [Cells -> CellLabels \cup {None}]
        /\ policy' \in Namespaces \cup {None}
        /\ ready' \in [Cells -> SUBSET {"po", "prom"}]
        /\ edits' \in 0..MaxEdits
    BY <1>11 DEF TypeOK, Namespaces
  <2>4. \A app \in Apps :
          /\ DOMAIN binding'[app] = CellNames
          /\ \A n \in CellNames :
               binding'[app][n] = None
                 \/ \E d \in Cells : NameOf[d] = n /\ binding'[app][n] = ClusterRoleBinding(app, d)
    BY <1>2, BindTyped
  <2>5. /\ gitpod' \in [GitpodObjects -> Cells \cup {Nobody, None}]
        /\ \A o \in GitpodObjects : gitpod'[o] \in Keepers(o)' \cup {Nobody, None}
    <3> HIDE DEF owned
    <3> QED
      BY <1>12, <1>13
  <2> QED
    BY <2>1, <2>2, <2>3, <2>4, <2>5, TypedParts
<1> QED
  BY <1>10, <1>14, <1>15

\* Steps that leave the bindings and the objects alone.
LEMMA QuietTyped ==
  ASSUME WiringInv, UNCHANGED <<wrote, binding, policy>>,
         cells' \in [Cells -> CellLabels \cup {None}],
         gitpod' \in [GitpodObjects -> Cells \cup {Nobody, None}],
         \A o \in GitpodObjects : gitpod'[o] \in Keepers(o) \cup {Nobody, None},
         ready' \in [Cells -> SUBSET {"po", "prom"}],
         \A c \in Cells : ready'[c] # {} => Made(c),
         \A c \in Cells : "prom" \in ready'[c] => "po" \in ready'[c],
         daemon' \in [Nodes -> {c \in Cells : Made(c)} \cup {None}],
         edits' \in 0..MaxEdits
  PROVE  WiringInv'
<1>1. \A c \in Cells : Made(c)' <=> Made(c)
  BY DEF Made
<1>2. /\ {c \in Cells : Made(c)'} = {c \in Cells : Made(c)}
      /\ \A o \in GitpodObjects : Keepers(o)' = Keepers(o)
  BY <1>1 DEF Keepers
<1>3. /\ wrote' \in [Cells -> [Kinds -> CellLabels \cup {None}]]
      /\ policy' \in Namespaces \cup {None}
      /\ \A c \in Cells : ready'[c] # {} => Made(c)'
  BY <1>1 DEF WiringInv, TypeOK
<1>4. \A app \in Apps :
        /\ DOMAIN binding'[app] = CellNames
        /\ \A n \in CellNames :
             binding'[app][n] = None
               \/ \E d \in Cells : NameOf[d] = n /\ binding'[app][n] = ClusterRoleBinding(app, d)
  BY DEF WiringInv, TypeOK
<1>5. TypeOK'
  BY <1>2, <1>3, <1>4, TypedParts
<1> QED
  BY <1>1, <1>5 DEF WiringInv, Whole, Chain

LEMMA PassBlockedTyped ==
  ASSUME WiringInv, NEW c \in Cells, PassBlocked(c)
  PROVE  WiringInv'
<1> USE DEF WiringInv
<1>1. /\ Bind(c, {"prometheus-operator"})
      /\ UNCHANGED <<cells, wrote, gitpod, policy, ready, daemon, edits>>
  BY DEF PassBlocked
<1>2. \A d \in Cells : Made(d)' <=> Made(d)
  BY <1>1 DEF Made
<1>3. \A app \in Apps :
        /\ DOMAIN binding'[app] = CellNames
        /\ \A n \in CellNames :
             binding'[app][n] = None
               \/ \E d \in Cells : NameOf[d] = n /\ binding'[app][n] = ClusterRoleBinding(app, d)
  BY <1>1, BindTyped
<1>4. TypeOK'
  <2>1. /\ {d \in Cells : Made(d)'} = {d \in Cells : Made(d)}
        /\ \A o \in GitpodObjects : Keepers(o)' = Keepers(o)
    BY <1>2 DEF Keepers
  <2>2. \A d \in Cells : ready'[d] # {} => Made(d)'
    BY <1>1, <1>2 DEF TypeOK
  <2> QED
    BY <1>1, <1>3, <2>1, <2>2, TypedParts DEF TypeOK
<1>5. Whole' /\ Chain'
  BY <1>1, <1>2 DEF Whole, Chain
<1> QED
  BY <1>4, <1>5

LEMMA DeleteCellTyped ==
  ASSUME WiringInv, NEW c \in Cells, DeleteCell(c)
  PROVE  WiringInv'
<1> USE DEF WiringInv
<1>1. /\ wrote' = [wrote EXCEPT ![c] = NothingWritten]
      /\ ready' = [ready EXCEPT ![c] = {}]
      /\ daemon' = [n \in Nodes |-> IF daemon[n] = c THEN None ELSE daemon[n]]
      /\ cells' = [cells EXCEPT ![c] = None]
      /\ gitpod' = [o \in GitpodObjects |-> IF gitpod[o] = c THEN Nobody ELSE gitpod[o]]
      /\ UNCHANGED <<binding, policy>>
      /\ edits > 0 /\ edits' = edits - 1
  BY DEF DeleteCell, Edit
<1>2. NothingWritten \in [Kinds -> CellLabels \cup {None}]
  BY DEF NothingWritten
<1>3. wrote'[c] = NothingWritten /\ \A d \in Cells \ {c} : wrote'[d] = wrote[d]
  BY <1>1 DEF TypeOK
<1>4. \A d \in Cells : Made(d)' <=> Made(d) /\ d # c
  BY <1>3 DEF Made, NothingWritten, Kinds
<1>5. Whole'
  <2> SUFFICES ASSUME NEW d \in Cells, NEW k \in Kinds
               PROVE  (wrote'[d][k] # None) <=> Made(d)'
    BY DEF Whole
  <2>1. CASE d = c
    BY <1>3, <1>4, <2>1 DEF NothingWritten
  <2>2. CASE d # c
    BY <1>3, <2>2 DEF Whole, Made
  <2> QED
    BY <2>1, <2>2
<1>6. ready'[c] = {} /\ \A d \in Cells \ {c} : ready'[d] = ready[d]
  BY <1>1 DEF TypeOK
<1>7. Chain'
  BY <1>6 DEF Chain
<1>8. TypeOK'
  <2>1. /\ cells' \in [Cells -> CellLabels \cup {None}]
        /\ wrote' \in [Cells -> [Kinds -> CellLabels \cup {None}]]
        /\ policy' \in Namespaces \cup {None}
        /\ ready' \in [Cells -> SUBSET {"po", "prom"}]
    BY <1>1, <1>2 DEF TypeOK
  <2>2. \A d \in Cells : ready'[d] # {} => Made(d)'
    BY <1>4, <1>6 DEF TypeOK
  <2>3. daemon' \in [Nodes -> {d \in Cells : Made(d)'} \cup {None}]
    <3>1. \A n \in Nodes : daemon[n] \in {d \in Cells : Made(d)} \cup {None}
      BY DEF TypeOK
    <3> QED
      BY <1>1, <1>4, <3>1
  <2>4. edits' \in 0..MaxEdits
    BY <1>1, WiringAssumption DEF TypeOK
  <2>5. \A app \in Apps :
          /\ DOMAIN binding'[app] = CellNames
          /\ \A n \in CellNames :
               binding'[app][n] = None
                 \/ \E d \in Cells : NameOf[d] = n /\ binding'[app][n] = ClusterRoleBinding(app, d)
    BY <1>1 DEF TypeOK
  <2>6. /\ gitpod' \in [GitpodObjects -> Cells \cup {Nobody, None}]
        /\ \A o \in GitpodObjects : gitpod'[o] \in Keepers(o)' \cup {Nobody, None}
    <3>1. \A o \in GitpodObjects : Keepers(o)' = Keepers(o) \ {c} /\ Keepers(o) \subseteq Cells
      BY <1>4 DEF Keepers
    <3>2. \A o \in GitpodObjects : gitpod[o] \in Keepers(o) \cup {Nobody, None}
      BY DEF TypeOK
    <3>3. \A o \in GitpodObjects :
            /\ (IF gitpod[o] = c THEN Nobody ELSE gitpod[o]) \in Keepers(o)' \cup {Nobody, None}
            /\ (IF gitpod[o] = c THEN Nobody ELSE gitpod[o]) \in Cells \cup {Nobody, None}
      BY <3>1, <3>2
    <3> QED
      BY <1>1, <3>3
  <2> QED
    BY <2>1, <2>2, <2>3, <2>4, <2>5, <2>6, TypedParts
<1> QED
  BY <1>5, <1>7, <1>8

LEMMA WiringStep ==
  ASSUME WiringInv, [Next]_vars
  PROVE  WiringInv'
<1>1. CASE UNCHANGED vars
  BY <1>1, QuietTyped DEF vars, WiringInv, TypeOK, Chain
<1>2. ASSUME NEW c \in Cells, NEW g \in {"po", "prom"}, Starts(c, g)
      PROVE  WiringInv'
  <2>1. /\ Made(c) /\ ready' = [ready EXCEPT ![c] = @ \cup {g}]
        /\ g = "prom" => "po" \in ready[c]
        /\ UNCHANGED <<cells, wrote, binding, gitpod, policy, daemon, edits>>
    BY <1>2 DEF Starts
  <2>2. /\ ready' \in [Cells -> SUBSET {"po", "prom"}]
        /\ ready'[c] = ready[c] \cup {g} /\ \A d \in Cells \ {c} : ready'[d] = ready[d]
    BY <2>1 DEF WiringInv, TypeOK
  <2>3. \A d \in Cells : (ready'[d] # {} => Made(d)) /\ ("prom" \in ready'[d] => "po" \in ready'[d])
    BY <2>1, <2>2 DEF WiringInv, TypeOK, Chain
  <2> QED
    BY <2>1, <2>2, <2>3, QuietTyped DEF WiringInv, TypeOK
<1>3. ASSUME NEW c \in Cells, NEW n \in Nodes, Schedule(c, n)
      PROVE  WiringInv'
  <2>1. /\ Made(c) /\ daemon' = [daemon EXCEPT ![n] = c]
        /\ UNCHANGED <<cells, wrote, binding, gitpod, policy, ready, edits>>
    BY <1>3 DEF Schedule
  <2> QED
    BY <2>1, QuietTyped DEF WiringInv, TypeOK, Chain
<1>4. ASSUME NEW c \in Cells, NEW l \in CellLabels, SetLabels(c, l)
      PROVE  WiringInv'
  <2>1. /\ cells' = [cells EXCEPT ![c] = l] /\ edits > 0 /\ edits' = edits - 1
        /\ UNCHANGED <<wrote, binding, gitpod, policy, ready, daemon>>
    BY <1>4 DEF SetLabels, Edit
  <2>2. edits' \in 0..MaxEdits
    BY <2>1, WiringAssumption DEF WiringInv, TypeOK
  <2> QED
    BY <2>1, <2>2, QuietTyped DEF WiringInv, TypeOK, Chain
<1>5. ASSUME NEW o \in GitpodObjects, Collect(o)
      PROVE  WiringInv'
  <2>1. /\ gitpod' = [gitpod EXCEPT ![o] = None]
        /\ UNCHANGED <<cells, wrote, binding, policy, ready, daemon, edits>>
    BY <1>5 DEF Collect
  <2>2. /\ gitpod' \in [GitpodObjects -> Cells \cup {Nobody, None}]
        /\ \A i \in GitpodObjects : gitpod'[i] \in Keepers(i) \cup {Nobody, None}
    BY <2>1 DEF WiringInv, TypeOK
  <2> QED
    BY <2>1, <2>2, QuietTyped DEF WiringInv, TypeOK, Chain
<1> QED
  BY <1>1, <1>2, <1>3, <1>4, <1>5, PassTyped, PassBlockedTyped, DeleteCellTyped DEF Next, CellStep

\* What Wiring's variables hold, for any number of Cells and nodes: a binding is always
\* one that some Cell of its name wrote, and a node's port 9100 and a closed gate belong
\* to a Cell whose objects exist, also when Cells are deleted between passes.
THEOREM WiringTypeCorrect == Spec => []TypeOK
<1>1. WiringInv => TypeOK
  BY DEF WiringInv
<1> QED
  BY <1>1, WiringInit, WiringStep, PTL DEF Spec

-----------------------------------------------------------------------------
(* Permissions *)

Bound ==
  /\ \A app \in Apps : DOMAIN binding[app] = CellNames
  /\ \A c \in Cells : Made(c) =>
       \A app \in Apps : binding[app][NameOf[c]] = ClusterRoleBinding(app, c)

\* What a binding of its own grants a Cell's account.
LEMMA GrantedByOwn ==
  ASSUME Bound, NEW c \in Cells, Made(c), NEW app \in Apps \ {"node-exporter"}
  PROVE  Rules(app) \subseteq Granted(Account(app, c))
PROOF
<1> DEFINE n == NameOf[c]
<1>1. n \in DOMAIN binding[app]
  BY DEF Bound, CellNames
<1>2. binding[app][n] = ClusterRoleBinding(app, c)
  BY DEF Bound
<1>3. ClusterRoleBinding(app, c) = Binding(app, c)
  BY DEF ClusterRoleBinding
<1>4. binding[app][n] # None
  BY <1>2, WiringAssumption
<1>5. binding[app][n].account = Account(app, c) /\ binding[app][n].role = <<app, n>>
  BY <1>2, <1>3 DEF Binding, Suffixed
<1>6. QED
  BY <1>1, <1>4, <1>5 DEF Granted

\* The roles cover what the programs need.
LEMMA RolesSuffice ==
  /\ RunsPrometheus \subseteq Rules("prometheus-operator")
  /\ Scrapes \subseteq Rules("prometheus")
  /\ Asks \subseteq Rules("kube-state-metrics")
PROOF
<1>1. RunsPrometheus \subseteq PrometheusOperatorRules
  BY DEF RunsPrometheus, PrometheusOperatorRules, Manages, Watches
<1>2. Scrapes \subseteq PrometheusRules
  BY DEF Scrapes, PrometheusRules, Watches
<1>3. Asks \subseteq KubeStateMetricsRules
  BY DEF KubeStateMetricsRules
<1>4. /\ Rules("prometheus-operator") = PrometheusOperatorRules
      /\ Rules("prometheus") = PrometheusRules
      /\ Rules("kube-state-metrics") = KubeStateMetricsRules
  BY DEF Rules
<1>5. QED
  BY <1>1, <1>2, <1>3, <1>4

LEMMA BoundSuffices == Bound => OwnRights
PROOF
<1> SUFFICES ASSUME Bound, NEW c \in Cells, Made(c)
             PROVE  /\ Can("prometheus-operator", c, RunsPrometheus)
                    /\ Can("prometheus", c, Scrapes) /\ Can("kube-state-metrics", c, Asks)
  BY DEF OwnRights
<1>1. {"prometheus-operator", "prometheus", "kube-state-metrics"} \subseteq Apps \ {"node-exporter"}
  BY DEF Apps
<1>2. /\ Rules("prometheus-operator") \subseteq Granted(Account("prometheus-operator", c))
      /\ Rules("prometheus") \subseteq Granted(Account("prometheus", c))
      /\ Rules("kube-state-metrics") \subseteq Granted(Account("kube-state-metrics", c))
  BY <1>1, GrantedByOwn
<1>3. QED
  BY <1>2, RolesSuffice DEF Can

BoundInv == WiringInv /\ Bound

\* A Cell's first pass writes all of its bindings; later ones write some of them
\* again, and never another Cell's.
LEMMA BindStep ==
  ASSUME UniqueNames, Bound, NEW c \in Cells, NEW apps \in SUBSET Apps, Bind(c, apps),
         Made(c) \/ apps = Apps
  PROVE  /\ \A app \in Apps : DOMAIN binding'[app] = CellNames
         /\ \A d \in Cells : Made(d) \/ d = c =>
              \A app \in Apps : binding'[app][NameOf[d]] = ClusterRoleBinding(app, d)
PROOF
<1>1. ASSUME NEW app \in Apps PROVE DOMAIN binding'[app] = CellNames
  BY DEF Bound, Bind
<1>2. ASSUME NEW d \in Cells, Made(d) \/ d = c, NEW app \in Apps
      PROVE  binding'[app][NameOf[d]] = ClusterRoleBinding(app, d)
  <2>1. NameOf[c] \in DOMAIN binding[app] /\ NameOf[d] \in DOMAIN binding[app]
    BY DEF Bound, CellNames
  <2>2. CASE d = c /\ app \in apps
    BY <2>1, <2>2 DEF Bind
  <2>3. CASE d = c /\ app \notin apps
    <3>1. Made(c)
      BY <2>3
    <3>2. binding'[app] = binding[app]
      BY <2>3 DEF Bind
    <3>3. QED
      BY <2>3, <3>1, <3>2 DEF Bound
  <2>4. CASE d # c
    <3>1. NameOf[d] # NameOf[c] /\ Made(d)
      BY <1>2, <2>4 DEF UniqueNames
    <3>2. binding'[app][NameOf[d]] = binding[app][NameOf[d]]
      BY <2>1, <3>1 DEF Bind
    <3>3. QED
      BY <3>1, <3>2 DEF Bound
  <2>5. QED
    BY <2>2, <2>3, <2>4
<1>3. QED
  BY <1>1, <1>2

LEMMA BoundInit == Init => BoundInv
PROOF
<1> SUFFICES ASSUME Init PROVE BoundInv
  OBVIOUS
<1>1. \A c \in Cells : ~Made(c)
  BY DEF Init, Made, NothingWritten, Kinds
<1>2. \A app \in Apps : DOMAIN binding[app] = CellNames
  BY DEF Init
<1>3. QED
  BY <1>1, <1>2, WiringInit DEF BoundInv, Bound

\* A step that leaves the bindings alone and makes no objects.
LEMMA BoundKept ==
  ASSUME Bound, UNCHANGED binding, \A c \in Cells : Made(c)' => Made(c)
  PROVE  Bound'
PROOF
<1>1. \A app \in Apps : DOMAIN binding'[app] = CellNames
  BY DEF Bound
<1>2. ASSUME NEW c \in Cells, Made(c)', NEW app \in Apps
      PROVE  binding'[app][NameOf[c]] = ClusterRoleBinding(app, c)
  BY <1>2 DEF Bound
<1>3. QED
  BY <1>1, <1>2 DEF Bound, ClusterRoleBinding, Binding, Suffixed, Account, CellNames

LEMMA PassKeeps ==
  ASSUME UniqueNames, BoundInv, NEW c \in Cells, Pass(c)
  PROVE  Bound'
PROOF
<1> DEFINE apps == {"kube-state-metrics", "node-exporter"}
               \cup (IF "po" \in ready[c] THEN {} ELSE {"prometheus-operator"})
               \cup (IF "prom" \in ready[c] THEN {} ELSE {"prometheus"})
<1>1. Bind(c, apps) /\ apps \in SUBSET Apps
  BY DEF Pass, Apps
<1>2. Made(c) \/ apps = Apps
  <2>1. CASE ready[c] = {}
    BY <2>1 DEF Apps
  <2>2. CASE ready[c] # {}
    BY <2>2 DEF BoundInv, WiringInv, TypeOK
  <2>3. QED
    BY <2>1, <2>2
<1>3. \A d \in Cells : Made(d)' => Made(d) \/ d = c
  BY DEF Pass, Made, BoundInv, WiringInv, TypeOK
<1> HIDE DEF apps
<1>4. /\ \A app \in Apps : DOMAIN binding'[app] = CellNames
      /\ \A d \in Cells : Made(d) \/ d = c =>
           \A app \in Apps : binding'[app][NameOf[d]] = ClusterRoleBinding(app, d)
  BY <1>1, <1>2, BindStep DEF BoundInv
<1>5. QED
  BY <1>3, <1>4 DEF Bound, ClusterRoleBinding, Binding, Suffixed, Account, CellNames

LEMMA PassBlockedKeeps ==
  ASSUME UniqueNames, BoundInv, NEW c \in Cells, PassBlocked(c)
  PROVE  Bound'
PROOF
<1>1. Made(c)
  BY DEF PassBlocked, Immutable, Made
<1>2. \A d \in Cells : Made(d)' <=> Made(d)
  BY DEF PassBlocked, Made
<1>3. Bind(c, {"prometheus-operator"}) /\ {"prometheus-operator"} \in SUBSET Apps
  BY DEF PassBlocked, Apps
<1>4. /\ \A app \in Apps : DOMAIN binding'[app] = CellNames
      /\ \A d \in Cells : Made(d) \/ d = c =>
           \A app \in Apps : binding'[app][NameOf[d]] = ClusterRoleBinding(app, d)
  BY <1>1, <1>3, BindStep DEF BoundInv
<1>5. QED
  BY <1>2, <1>4 DEF Bound, ClusterRoleBinding, Binding, Suffixed, Account, CellNames

\* What the cluster and the users do touches no binding.
LEMMA OthersKeep ==
  ASSUME BoundInv, NEW c \in Cells,
         \/ \E g \in {"po", "prom"} : Starts(c, g)
         \/ \E n \in Nodes : Schedule(c, n)
         \/ \E l \in CellLabels : SetLabels(c, l)
         \/ DeleteCell(c)
  PROVE  Bound'
PROOF
<1>1. UNCHANGED binding
  BY DEF Starts, Schedule, SetLabels, DeleteCell
<1>2. \A d \in Cells : Made(d)' => Made(d)
  <2>1. CASE DeleteCell(c)
    BY <2>1 DEF DeleteCell, Made, BoundInv, WiringInv, TypeOK, NothingWritten, Kinds
  <2>2. CASE ~DeleteCell(c)
    BY <2>2 DEF Starts, Schedule, SetLabels, Made
  <2>3. QED
    BY <2>1, <2>2
<1>3. QED
  BY <1>1, <1>2, BoundKept DEF BoundInv

LEMMA BoundStep ==
  ASSUME UniqueNames, BoundInv, [Next]_vars
  PROVE  BoundInv'
PROOF
<1>1. ASSUME UNCHANGED vars PROVE Bound'
  BY <1>1, BoundKept DEF BoundInv, vars, Made
<1>2. ASSUME NEW c \in Cells, CellStep(c)
      PROVE  Bound'
  BY <1>2, PassKeeps, PassBlockedKeeps, OthersKeep DEF CellStep
<1>3. ASSUME NEW o \in GitpodObjects, Collect(o)
      PROVE  Bound'
  BY <1>3, BoundKept DEF BoundInv, Collect, Made
<1>4. Bound'
  BY <1>1, <1>2, <1>3 DEF Next
<1>5. WiringInv'
  BY WiringStep DEF BoundInv
<1>6. QED
  BY <1>4, <1>5 DEF BoundInv

-----------------------------------------------------------------------------
\* OwnRights, for any number of Cells, of which no two have the same name: from a
\* Cell's first pass on its programs may do what they need, whatever edits, deletions
\* and passes of other Cells come between, and although a closed gate keeps later
\* passes from writing a binding again (cell_controller.go:92-118).
THEOREM OwnRightsKept ==
  ASSUME UniqueNames
  PROVE  Spec => []OwnRights
PROOF
<1>1. Init => BoundInv
  BY BoundInit
<1>2. BoundInv /\ [Next]_vars => BoundInv'
  BY BoundStep
<1>3. BoundInv => OwnRights
  BY BoundSuffices DEF BoundInv
<1>4. QED
  BY <1>1, <1>2, <1>3, PTL DEF Spec
=============================================================================
