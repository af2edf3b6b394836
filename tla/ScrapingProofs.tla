------------------------------ MODULE ScrapingProofs ------------------------------
(***************************************************************************)
(* Theorems of Wiring about what a Cell's Prometheus scrapes, for any      *)
(* number of Cells, namespaces, nodes and components of Gitpod's: CountsFit*)
(* and GitpodScraped, while no two Cells have the same name and none is    *)
(* labelled `component`.                                                   *)
(*                                                                         *)
(* A port tells which pods are meant and a label which Service, so each    *)
(* monitor has series of one shape (SeriesCases) and each job series of    *)
(* one monitor (JobOf); those a settled Cell has are there because the     *)
(* bindings are (BoundInv) and its operator runs (Chain).                  *)
(***************************************************************************)
EXTENDS WiringProofs, FiniteSetTheorems, FunctionTheorems

-----------------------------------------------------------------------------
(* Labels *)

LEMMA LabelFacts ==
  ASSUME NEW k, NEW v
  PROVE  DOMAIN Label(k, v) = {k} /\ Label(k, v)[k] = v
BY DEF Label

LEMMA JoinFacts ==
  ASSUME NEW l, NEW m
  PROVE  /\ DOMAIN (l ++ m) = DOMAIN l \cup DOMAIN m
         /\ \A k \in DOMAIN l : (l ++ m)[k] = l[k]
         /\ \A k \in DOMAIN m \ DOMAIN l : (l ++ m)[k] = m[k]
BY DEF ++

\* Labels replaces the user's name, and keeps the rest.
LEMMA LabelsFacts ==
  ASSUME NEW app, NEW l
  PROVE  /\ DOMAIN Labels(app, l) = {"app/name"} \cup DOMAIN l
         /\ Labels(app, l)["app/name"] = app
         /\ \A k \in DOMAIN l \ {"app/name"} : Labels(app, l)[k] = l[k]
BY DEF Labels, Label, ++

LEMMA NameMatched ==
  ASSUME NEW app, NEW l, NEW labels, Matches(Labels(app, l), labels)
  PROVE  "app/name" \in DOMAIN labels /\ labels["app/name"] = app
BY LabelsFacts DEF Matches

LEMMA APIServerFacts ==
  /\ DOMAIN APIServerLabels = {"component", "provider"}
  /\ APIServerLabels["component"] = "apiserver"
BY DEF APIServerLabels, Label, ++

LEMMA gitpodFacts ==
  ASSUME NEW t
  PROVE  /\ DOMAIN gitpodLabels(t) = {"app/component", "app/name", "app/part-of"}
         /\ gitpodLabels(t)["app/component"] = t
         /\ gitpodLabels(t)["app/name"] = "gitpod"
BY DEF gitpodLabels, Label, ++

\* A pod of Gitpod's that serves metrics carries its component, and only the message
\* bus a name.
LEMMA GitpodPodFacts ==
  ASSUME NEW t, t # "proxy-caddy"
  PROVE  /\ GitpodPod(t).name = <<"gitpod", t>> /\ GitpodPod(t).ns = GitpodNamespace
         /\ GitpodPod(t).ports = {"metrics"} /\ GitpodPod(t).proxy = None
         /\ "component" \in DOMAIN GitpodPod(t).labels /\ GitpodPod(t).labels["component"] = t
         /\ "app/name" \in DOMAIN GitpodPod(t).labels => t = "messagebus"
         /\ Matches(ServiceSelector(t), GitpodPod(t).labels)
<1> DEFINE labels == PolicySelector(t) ++ ServiceSelector(t)
<1>1. /\ GitpodPod(t).name = <<"gitpod", t>> /\ GitpodPod(t).ns = GitpodNamespace
      /\ GitpodPod(t).ports = {"metrics"} /\ GitpodPod(t).proxy = None
      /\ GitpodPod(t).labels = labels
  BY DEF GitpodPod, Pod, GitpodPort
<1>2. PolicySelector(t) = Label("component", t)
  BY DEF PolicySelector
<1>3. CASE t = "messagebus"
  <2>1. ServiceSelector(t) = Label("app/name", "rabbitmq")
    BY <1>3 DEF ServiceSelector
  <2>2. /\ DOMAIN labels = {"component", "app/name"} /\ labels["component"] = t
        /\ labels["app/name"] = "rabbitmq"
    BY <1>2, <2>1 DEF Label, ++
  <2> QED
    BY <1>1, <1>3, <2>1, <2>2 DEF Matches, Label
<1>4. CASE t # "messagebus"
  <2>1. ServiceSelector(t) = Label("component", t)
    BY <1>2, <1>4 DEF ServiceSelector
  <2>2. DOMAIN labels = {"component"} /\ labels["component"] = t
    BY <1>2, <2>1 DEF Label, ++
  <2> QED
    BY <1>1, <2>1, <2>2 DEF Matches, Label
<1> QED
  BY <1>3, <1>4

-----------------------------------------------------------------------------
(* Pods *)

\* The port tells which pod it is.
LEMMA PodAt ==
  ASSUME NEW p \in Pods
  PROVE  /\ "https-metrics" \in p.ports => \E n \in Nodes : p = KubeletPod(n)
         /\ "https" \in p.ports =>
              p = APIServerPod \/ \E d \in Cells : p.proxy = Account("node-exporter", d)
         /\ {"https-main", "https-self"} \cap p.ports # {} =>
              \E d \in Cells : Made(d) /\ p = KubeStateMetricsPod(d)
         /\ "metrics" \in p.ports => p \in GitpodPods
<1>1. CASE p \in GitpodPods
  <2>1. p.ports \subseteq {"metrics", "caddy-metrics"}
    BY <1>1 DEF GitpodPods, GitpodPod, GitpodPort, Pod
  <2> QED
    BY <1>1, <2>1
<1>2. CASE p \in ClusterPods
  <2>1. CASE p = APIServerPod
    BY <2>1 DEF APIServerPod, Pod
  <2>2. ASSUME NEW n \in Nodes, p = KubeletPod(n)
        PROVE  p.ports = {"https-metrics"}
    BY <2>2 DEF KubeletPod, Pod
  <2> QED
    BY <1>2, <2>1, <2>2 DEF ClusterPods
<1>3. ASSUME NEW d \in Cells, Made(d), p \in NodeExporterPods(d)
      PROVE  p.ports = {"https"} /\ p.proxy = Account("node-exporter", d)
  BY <1>3 DEF NodeExporterPods, Pod
<1>4. ASSUME NEW d \in Cells, p = KubeStateMetricsPod(d)
      PROVE  p.ports = {"https-main", "https-self"}
  BY <1>4 DEF KubeStateMetricsPod, Pod
<1>5. ASSUME NEW d \in Cells, p = PrometheusPod(d)
      PROVE  p.ports = {"web", "reloader-web"}
  BY <1>5 DEF PrometheusPod, Pod
<1>6. CASE p \in ExporterPods
  BY <1>3, <1>4, <1>6 DEF ExporterPods
<1>7. CASE p \in PrometheusPods
  BY <1>5, <1>7 DEF PrometheusPods
<1> QED
  BY <1>1, <1>2, <1>6, <1>7 DEF Pods

-----------------------------------------------------------------------------
(* Services *)

LEMMA Written ==
  ASSUME WiringInv, PlainLabels, NEW d \in Cells, Made(d), NEW k \in Kinds, NEW app
  PROVE  wrote[d][k] \in CellLabels /\ "component" \notin DOMAIN Labels(app, wrote[d][k])
<1>1. wrote[d][k] \in CellLabels
  BY DEF WiringInv, TypeOK, Whole
<1> QED
  BY <1>1, LabelsFacts DEF PlainLabels

\* The label tells which Service it is.
LEMMA ServiceAt ==
  ASSUME WiringInv, PlainLabels, NEW s \in Services
  PROVE  /\ "component" \in DOMAIN s.labels => s = KubernetesService
         /\ "app/name" \in DOMAIN s.labels =>
              /\ s.labels["app/name"] = "kubelet" => s = KubeletService
              /\ s.labels["app/name"] = "node-exporter" =>
                   \E d \in Cells : Made(d) /\ s = NodeExporterService(d)
              /\ s.labels["app/name"] = "kube-state-metrics" =>
                   \E d \in Cells : Made(d) /\ s = KubeStateMetricsService(d)
              /\ s.labels["app/name"] = "gitpod" => s \in GitpodServices
<1>1. CASE s = KubernetesService
  BY <1>1, APIServerFacts DEF KubernetesService, Service
<1>2. CASE s = KubeletService
  <2>1. s.labels = Label("app/name", "kubelet")
    BY <1>2 DEF KubeletService, Service
  <2>2. DOMAIN s.labels = {"app/name"} /\ s.labels["app/name"] = "kubelet"
    BY <2>1 DEF Label
  <2> QED
    BY <1>2, <2>2
<1>3. CASE s \in GitpodServices
  <2>1. PICK t : s.labels = gitpodLabels(t)
    BY <1>3 DEF GitpodServices, GitpodService, Service
  <2> QED
    BY <1>3, <2>1, gitpodFacts
<1>4. ASSUME NEW d \in Cells, Made(d), s = NodeExporterService(d)
      PROVE  s.labels["app/name"] = "node-exporter" /\ "component" \notin DOMAIN s.labels
  BY <1>4, Written, LabelsFacts DEF NodeExporterService, Service, Kinds
<1>5. ASSUME NEW d \in Cells, Made(d), s = KubeStateMetricsService(d)
      PROVE  s.labels["app/name"] = "kube-state-metrics" /\ "component" \notin DOMAIN s.labels
  BY <1>5, Written, LabelsFacts DEF KubeStateMetricsService, Service, Kinds
<1>6. CASE s \in ExporterServices
  BY <1>4, <1>5, <1>6 DEF ExporterServices
<1> QED
  BY <1>1, <1>2, <1>3, <1>6 DEF Services, ClusterServices

-----------------------------------------------------------------------------
(* Permissions *)

\* The bindings of node-exporter name a role that nobody makes.
LEMMA NodeExporterMayNotAsk ==
  ASSUME TypeOK, NEW d \in Cells
  PROVE  ~(Asks \subseteq Granted(Account("node-exporter", d)))
<1> DEFINE account == Account("node-exporter", d)
<1>1. ASSUME NEW app \in Apps, NEW n \in DOMAIN binding[app], binding[app][n] # None,
             binding[app][n].account = account, binding[app][n].role = <<app, n>>
      PROVE  FALSE
  <2>1. n \in CellNames
    BY DEF TypeOK
  <2>2. PICK e \in Cells : binding[app][n] = ClusterRoleBinding(app, e)
    BY <1>1, <2>1 DEF TypeOK
  <2>3. CASE app = "node-exporter"
    <3>1. binding[app][n].role = <<app>>
      BY <2>2, <2>3 DEF ClusterRoleBinding
    <3>2. <<app>> # <<app, n>>
      OBVIOUS
    <3> QED
      BY <1>1, <3>1, <3>2
  <2>4. CASE app # "node-exporter"
    <3>1. binding[app][n].account.name = <<app, NameOf[e]>>
      BY <2>2, <2>4 DEF ClusterRoleBinding, Binding, Account, Suffixed
    <3>2. account.name = <<"node-exporter", NameOf[d]>>
      BY DEF Account, Suffixed
    <3>3. <<app, NameOf[e]>> # <<"node-exporter", NameOf[d]>>
      BY <2>4
    <3> QED
      BY <1>1, <3>1, <3>2, <3>3
  <2> QED
    BY <2>3, <2>4
<1>2. Granted(account) = {}
  BY <1>1 DEF Granted
<1>3. <<"create", "tokenreviews">> \in Asks
  BY DEF Asks
<1> QED
  BY <1>2, <1>3

-----------------------------------------------------------------------------
(* Series *)

LEMMA SeriesElement ==
  ASSUME NEW c \in Cells, NEW x
  PROVE  x \in Series(c) <=>
           /\ Can("prometheus", c, Scrapes)
           /\ \E m \in Watched(c) : \E s \in Discovered(m) : x \in SeriesOf(c, m, s)
BY DEF Series

LEMMA SeriesOfElement ==
  ASSUME NEW c, NEW m, NEW s, NEW x
  PROVE  x \in SeriesOf(c, m, s) <=>
           \E e \in m.endpoints : \E p \in Scraped(c, s, e.port) : x = SeriesLabels(m, s, e, p)
BY DEF SeriesOf

LEMMA ScrapedFacts ==
  ASSUME NEW c, NEW s, NEW port, NEW p \in Scraped(c, s, port)
  PROVE  /\ p \in Pods /\ Admits(p, c) /\ port \in s.ports /\ port \in p.ports
         /\ p.ns = s.ns /\ Matches(s.selector, p.labels)
         /\ p.proxy # None => Asks \subseteq Granted(p.proxy)
BY DEF Scraped

LEMMA WatchedElement ==
  ASSUME NEW c \in Cells, NEW m \in Watched(c), m \notin GitpodMonitors(NamespaceOf[c])
  PROVE  \E d \in Cells : /\ NamespaceOf[d] = NamespaceOf[c] /\ wrote[d]["monitors"] # None
                          /\ \/ m = serviceMonitorKubelet \/ m = serviceMonitorAPIServer
                             \/ m = NodeExporterMonitor(d) \/ m = KubeStateMetricsMonitor(d)
BY DEF Watched, Monitors

-----------------------------------------------------------------------------
(* The series of each monitor *)

Paths == {"/metrics", "/metrics/cadvisor", "/metrics/probes"}

Labelled(job, on, via, path, port) ==
  [job |-> job, on |-> on, via |-> via, path |-> path, port |-> port]

KubeletUp(n, path) ==
  Labelled("kubelet", <<"kubelet", n>>, <<"kubelet">>, path, "https-metrics")
APIServerUp ==
  Labelled("apiserver", <<"apiserver">>, <<"kubernetes">>, "/metrics", "https")

\* The metrics of the cluster and its own, of the pod of d through the Service of e.
MainUp(d) ==
  Labelled("kube-state-metrics", Suffixed("kube-state-metrics", d), None, "/metrics", "https-main")
SelfUp(d, e) ==
  Labelled("kube-state-metrics", Suffixed("kube-state-metrics", d),
          Suffixed("kube-state-metrics", e), "/metrics", "https-self")

GitpodUp(t) == Labelled(t, <<"gitpod", t>>, <<"gitpod", t>>, "/metrics", "metrics")

LEMMA DiscoveredFacts ==
  ASSUME NEW m, NEW s \in Discovered(m)
  PROVE  s \in Services /\ m.in = s.ns /\ Matches(m.selector, s.labels)
BY DEF Discovered

LEMMA KubeletSeries ==
  ASSUME WiringInv, PlainLabels, NEW c \in Cells, NEW s \in Discovered(serviceMonitorKubelet),
         NEW x \in SeriesOf(c, serviceMonitorKubelet, s)
  PROVE  \E n \in Nodes, path \in Paths : x = KubeletUp(n, path)
<1> DEFINE m == serviceMonitorKubelet
<1>1. /\ m.selector = Label("app/name", "kubelet") /\ m.jobLabel = "app/name"
      /\ \A e \in m.endpoints : e.port = "https-metrics" /\ e.path \in Paths /\ e.plain = FALSE
  BY DEF serviceMonitorKubelet, Monitor, Endpoint, Paths
<1>2. "app/name" \in DOMAIN s.labels /\ s.labels["app/name"] = "kubelet"
  BY <1>1, DiscoveredFacts DEF Matches, Label
<1>3. s = KubeletService
  BY <1>2, ServiceAt, DiscoveredFacts
<1>4. PICK e \in m.endpoints : \E p \in Scraped(c, s, e.port) : x = SeriesLabels(m, s, e, p)
  BY SeriesOfElement
<1>5. PICK p \in Scraped(c, s, e.port) : x = SeriesLabels(m, s, e, p)
  BY <1>4
<1>6. PICK n \in Nodes : p = KubeletPod(n)
  BY <1>1, <1>5, PodAt, ScrapedFacts
<1>7. p.name = <<"kubelet", n>>
  BY <1>6 DEF KubeletPod, Pod
<1>8. s.name = <<"kubelet">>
  BY <1>3 DEF KubeletService, Service
<1> HIDE DEF m
<1>9. x = KubeletUp(n, e.path)
  BY <1>1, <1>2, <1>5, <1>7, <1>8 DEF SeriesLabels, KubeletUp, Labelled
<1> QED
  BY <1>1, <1>9

LEMMA APIServerSeries ==
  ASSUME WiringInv, PlainLabels, NEW c \in Cells, NEW s \in Discovered(serviceMonitorAPIServer),
         NEW x \in SeriesOf(c, serviceMonitorAPIServer, s)
  PROVE  x = APIServerUp
<1> DEFINE m == serviceMonitorAPIServer
<1>1. /\ m.selector = APIServerLabels /\ m.jobLabel = "component"
      /\ \A e \in m.endpoints : e.port = "https" /\ e.path = "/metrics" /\ e.plain = FALSE
  BY DEF serviceMonitorAPIServer, Monitor, Endpoint
<1>2. "component" \in DOMAIN s.labels /\ s.labels["component"] = "apiserver"
  BY <1>1, DiscoveredFacts, APIServerFacts DEF Matches
<1>3. s = KubernetesService
  BY <1>2, ServiceAt, DiscoveredFacts
<1>4. PICK e \in m.endpoints : \E p \in Scraped(c, s, e.port) : x = SeriesLabels(m, s, e, p)
  BY SeriesOfElement
<1>5. PICK p \in Scraped(c, s, e.port) : x = SeriesLabels(m, s, e, p)
  BY <1>4
<1>6. p = APIServerPod
  <2>1. ASSUME NEW d \in Cells, p.proxy = Account("node-exporter", d)
        PROVE  FALSE
    <3>1. p.proxy # None
      BY <2>1, WiringAssumption DEF Apps
    <3> QED
      BY <2>1, <3>1, ScrapedFacts, NodeExporterMayNotAsk DEF WiringInv
  <2> QED
    BY <1>1, <1>5, <2>1, PodAt, ScrapedFacts
<1>7. p.name = <<"apiserver">>
  BY <1>6 DEF APIServerPod, Pod
<1>8. s.name = <<"kubernetes">>
  BY <1>3 DEF KubernetesService, Service
<1> HIDE DEF m
<1> QED
  BY <1>1, <1>2, <1>5, <1>7, <1>8 DEF SeriesLabels, APIServerUp, Labelled

\* node-exporter's port belongs to its own pods, whose proxies may not ask, and to the
\* API server, which has no label of it.
LEMMA NodeExporterSeries ==
  ASSUME WiringInv, PlainLabels, NEW c \in Cells, NEW d \in Cells,
         NEW s \in Discovered(NodeExporterMonitor(d)),
         NEW x \in SeriesOf(c, NodeExporterMonitor(d), s)
  PROVE  FALSE
<1> DEFINE m == NodeExporterMonitor(d)
<1>1. /\ m.selector = Labels("node-exporter", wrote[d]["monitors"])
      /\ \A e \in m.endpoints : e.port = "https"
  BY DEF NodeExporterMonitor, Monitor, Endpoint
<1>2. "app/name" \in DOMAIN s.labels /\ s.labels["app/name"] = "node-exporter"
  <2>1. Matches(Labels("node-exporter", wrote[d]["monitors"]), s.labels)
    BY <1>1, DiscoveredFacts
  <2> QED
    BY <2>1, NameMatched
<1>3. PICK e \in Cells : s = NodeExporterService(e)
  BY <1>2, ServiceAt, DiscoveredFacts
<1>4. PICK p \in Scraped(c, s, "https") : TRUE
  BY <1>1, SeriesOfElement
<1>5. p # APIServerPod
  <2>1. "app/name" \in DOMAIN p.labels
    <3>1. Matches(s.selector, p.labels)
      BY <1>4, ScrapedFacts
    <3>2. s.selector = Labels("node-exporter", wrote[e]["services"])
      BY <1>3 DEF NodeExporterService, Service
    <3> QED
      BY <3>1, <3>2, NameMatched
  <2>2. "app/name" \notin DOMAIN APIServerPod.labels
    BY DEF APIServerPod, Pod, Label
  <2> QED
    BY <2>1, <2>2
<1>6. PICK f \in Cells : p.proxy = Account("node-exporter", f)
  BY <1>4, <1>5, PodAt, ScrapedFacts
<1>7. p.proxy # None
  BY <1>6, WiringAssumption DEF Apps
<1> QED
  BY <1>4, <1>6, <1>7, ScrapedFacts, NodeExporterMayNotAsk DEF WiringInv

\* One series of each pod for the metrics of the cluster; one of each pod through each
\* Service for its own.
LEMMA KubeStateMetricsSeries ==
  ASSUME WiringInv, PlainLabels, NEW c \in Cells, NEW d \in Cells,
         NEW s \in Discovered(KubeStateMetricsMonitor(d)),
         NEW x \in SeriesOf(c, KubeStateMetricsMonitor(d), s)
  PROVE  \E e \in Cells, f \in Cells :
           /\ Made(e) /\ NamespaceOf[e] = NamespaceOf[d]
           /\ Made(f) /\ NamespaceOf[f] = NamespaceOf[d]
           /\ x = MainUp(f) \/ x = SelfUp(f, e)
<1> DEFINE m == KubeStateMetricsMonitor(d)
<1>1. /\ m.selector = Labels("kube-state-metrics", wrote[d]["monitors"])
      /\ m.jobLabel = "app/name" /\ m.in = NamespaceOf[d]
      /\ \A i \in m.endpoints : i.path = "/metrics"
           /\ \/ i.port = "https-main" /\ i.plain = TRUE
              \/ i.port = "https-self" /\ i.plain = FALSE
  BY DEF KubeStateMetricsMonitor, Monitor, Endpoint
<1>2. "app/name" \in DOMAIN s.labels /\ s.labels["app/name"] = "kube-state-metrics"
  <2>1. Matches(Labels("kube-state-metrics", wrote[d]["monitors"]), s.labels)
    BY <1>1, DiscoveredFacts
  <2> QED
    BY <2>1, NameMatched
<1>3. PICK e \in Cells : Made(e) /\ s = KubeStateMetricsService(e)
  BY <1>2, ServiceAt, DiscoveredFacts
<1>4. s.name = Suffixed("kube-state-metrics", e) /\ s.ns = NamespaceOf[e]
  BY <1>3 DEF KubeStateMetricsService, Service
<1>5. NamespaceOf[e] = NamespaceOf[d]
  BY <1>1, <1>4, DiscoveredFacts
<1>6. PICK i \in m.endpoints : \E p \in Scraped(c, s, i.port) : x = SeriesLabels(m, s, i, p)
  BY SeriesOfElement
<1>7. PICK p \in Scraped(c, s, i.port) : x = SeriesLabels(m, s, i, p)
  BY <1>6
<1>8. p \in Pods /\ i.port \in p.ports /\ p.ns = s.ns
  BY <1>7, ScrapedFacts
<1>9. PICK f \in Cells : Made(f) /\ p = KubeStateMetricsPod(f)
  <2>1. {"https-main", "https-self"} \cap p.ports # {}
    BY <1>1, <1>8
  <2> QED
    BY <1>8, <2>1, PodAt
<1>10. p.name = Suffixed("kube-state-metrics", f) /\ p.ns = NamespaceOf[f]
  BY <1>9 DEF KubeStateMetricsPod, Pod
<1>11. NamespaceOf[f] = NamespaceOf[d]
  BY <1>4, <1>5, <1>8, <1>10
<1> HIDE DEF m
<1>12. x = MainUp(f) \/ x = SelfUp(f, e)
  BY <1>1, <1>2, <1>4, <1>7, <1>10 DEF SeriesLabels, MainUp, SelfUp, Labelled
<1> QED
  BY <1>3, <1>5, <1>9, <1>11, <1>12

\* What lets a Prometheus in to the pod of a Gitpod component.
ToGitpod(c, t) ==
  /\ Has("monitor", NamespaceOf[c], t) /\ Has("service", GitpodNamespace, t)
  /\ Admits(GitpodPod(t), c)

\* The pod that Prometheus reaches through a Service of Gitpod's.
LEMMA GitpodSeries ==
  ASSUME WiringInv, PlainLabels, NEW c \in Cells,
         NEW m \in GitpodMonitors(NamespaceOf[c]), NEW s \in Discovered(m),
         NEW x \in SeriesOf(c, m, s)
  PROVE  \E t \in Components \ {"proxy-caddy"} : x = GitpodUp(t) /\ ToGitpod(c, t)
<1>1. PICK t \in Components : m = GitpodMonitor(t) /\ Has("monitor", NamespaceOf[c], t)
  BY DEF GitpodMonitors
<1>2. /\ m.selector = gitpodLabels(t) /\ m.jobLabel = "app/component"
      /\ \A e \in m.endpoints : e.port = "metrics" /\ e.path = "/metrics" /\ e.plain = FALSE
  BY <1>1 DEF GitpodMonitor, Monitor, Endpoint
<1>3. /\ "app/name" \in DOMAIN s.labels /\ s.labels["app/name"] = "gitpod"
      /\ "app/component" \in DOMAIN s.labels /\ s.labels["app/component"] = t
  BY <1>2, DiscoveredFacts, gitpodFacts DEF Matches
<1>4. s \in GitpodServices
  BY <1>3, ServiceAt, DiscoveredFacts
<1>5. PICK e \in m.endpoints : \E p \in Scraped(c, s, e.port) : x = SeriesLabels(m, s, e, p)
  BY SeriesOfElement
<1>6. PICK p \in Scraped(c, s, e.port) : x = SeriesLabels(m, s, e, p)
  BY <1>5
<1>7. /\ p \in GitpodPods /\ "metrics" \in s.ports /\ "metrics" \in p.ports
      /\ Matches(s.selector, p.labels) /\ Admits(p, c)
  BY <1>2, <1>6, ScrapedFacts, PodAt
<1>8. /\ s.name = <<"gitpod", t>> /\ s.selector = ServiceSelector(t)
      /\ t # "proxy-caddy" /\ Has("service", GitpodNamespace, t)
  <2>1. PICK u \in Components : s = GitpodService(u) /\ Has("service", GitpodNamespace, u)
    BY <1>4 DEF GitpodServices
  <2>2. s.labels = gitpodLabels(u) /\ s.ports = {GitpodPort(u)}
        /\ s.name = <<"gitpod", u>> /\ s.selector = ServiceSelector(u)
    BY <2>1 DEF GitpodService, Service
  <2>3. u = t
    BY <1>3, <2>2, gitpodFacts
  <2> QED
    BY <1>7, <2>1, <2>2, <2>3 DEF GitpodPort
<1>9. p = GitpodPod(t)
  <2>1. PICK u \in Components : p = GitpodPod(u)
    BY <1>7 DEF GitpodPods
  <2>2. u # "proxy-caddy"
    BY <1>7, <2>1 DEF GitpodPod, GitpodPort, Pod
  <2>3. CASE t = "messagebus"
    <3>1. "app/name" \in DOMAIN p.labels
      BY <1>7, <1>8, <2>3 DEF ServiceSelector, Matches, Label
    <3> QED
      BY <2>1, <2>2, <2>3, <3>1, GitpodPodFacts
  <2>4. CASE t # "messagebus"
    <3>1. p.labels["component"] = t
      BY <1>7, <1>8, <2>4 DEF ServiceSelector, PolicySelector, Matches, Label
    <3> QED
      BY <2>1, <2>2, <3>1, GitpodPodFacts
  <2> QED
    BY <2>3, <2>4
<1>10. p.name = <<"gitpod", t>>
  BY <1>8, <1>9, GitpodPodFacts
<1>11. x = GitpodUp(t)
  BY <1>2, <1>3, <1>6, <1>8, <1>10 DEF SeriesLabels, GitpodUp, Labelled
<1> QED
  BY <1>1, <1>7, <1>8, <1>9, <1>11 DEF ToGitpod

\* Nothing else is in `up`.
LEMMA SeriesCases ==
  ASSUME WiringInv, PlainLabels, NEW c \in Cells, NEW x \in Series(c)
  PROVE  \/ \E n \in Nodes, path \in Paths : x = KubeletUp(n, path)
         \/ x = APIServerUp
         \/ \E e \in Cells, f \in Cells :
              /\ Made(e) /\ NamespaceOf[e] = NamespaceOf[c]
              /\ Made(f) /\ NamespaceOf[f] = NamespaceOf[c]
              /\ x = MainUp(f) \/ x = SelfUp(f, e)
         \/ \E t \in Components \ {"proxy-caddy"} : x = GitpodUp(t) /\ ToGitpod(c, t)
<1>1. PICK m \in Watched(c) : \E s \in Discovered(m) : x \in SeriesOf(c, m, s)
  BY SeriesElement
<1>2. PICK s \in Discovered(m) : x \in SeriesOf(c, m, s)
  BY <1>1
<1>3. CASE m \in GitpodMonitors(NamespaceOf[c])
  BY <1>2, <1>3, GitpodSeries
<1>4. CASE m = serviceMonitorKubelet
  BY <1>2, <1>4, KubeletSeries
<1>5. CASE m = serviceMonitorAPIServer
  BY <1>2, <1>5, APIServerSeries
<1>6. ASSUME NEW d \in Cells, m = NodeExporterMonitor(d)
      PROVE  FALSE
  BY <1>2, <1>6, NodeExporterSeries
<1>7. ASSUME NEW d \in Cells, NamespaceOf[d] = NamespaceOf[c], m = KubeStateMetricsMonitor(d)
      PROVE  \E e \in Cells, f \in Cells :
               /\ Made(e) /\ NamespaceOf[e] = NamespaceOf[c]
               /\ Made(f) /\ NamespaceOf[f] = NamespaceOf[c]
               /\ x = MainUp(f) \/ x = SelfUp(f, e)
  BY <1>2, <1>7, KubeStateMetricsSeries
<1> QED
  BY <1>3, <1>4, <1>5, <1>6, <1>7, WatchedElement

LEMMA JobFacts ==
  /\ \A n, path : KubeletUp(n, path).job = "kubelet"
  /\ APIServerUp.job = "apiserver"
  /\ \A d : MainUp(d).job = "kube-state-metrics"
  /\ \A d, e : SelfUp(d, e).job = "kube-state-metrics"
  /\ \A t : GitpodUp(t).job = t
BY DEF KubeletUp, APIServerUp, MainUp, SelfUp, GitpodUp, Labelled

-----------------------------------------------------------------------------
(* What a settled Cell has *)

\* What the series of a settled Cell rest on: its objects exist and its operator runs,
\* and the programs of all Cells have their permissions.
LEMMA SettledFacts ==
  ASSUME BoundInv, NEW c \in Cells, Settled(c)
  PROVE  /\ Made(c) /\ "po" \in ready[c] /\ Can("prometheus", c, Scrapes)
         /\ \A d \in Cells : Made(d) => Asks \subseteq Granted(Account("kube-state-metrics", d))
         /\ {serviceMonitorKubelet, serviceMonitorAPIServer} \subseteq Watched(c)
         /\ \A d \in Cells : Made(d) /\ NamespaceOf[d] = NamespaceOf[c] =>
              KubeStateMetricsMonitor(d) \in Watched(c)
<1>1. Made(c)
  BY DEF Settled, Made, Kinds
<1>2. "po" \in ready[c]
  BY DEF Settled, BoundInv, WiringInv, Chain
<1>3. OwnRights
  BY BoundSuffices DEF BoundInv
<1>4. \A d \in Cells : Made(d) => wrote[d]["monitors"] # None
  BY DEF BoundInv, WiringInv, Whole, Kinds
<1>5. \A d \in Cells : Made(d) /\ NamespaceOf[d] = NamespaceOf[c] => Monitors(d) \subseteq Watched(c)
  BY <1>4 DEF Watched
<1> QED
  BY <1>1, <1>2, <1>3, <1>5 DEF OwnRights, Can, Monitors

\* A pod without the label the policies select by is open to everybody.
LEMMA Unselected ==
  ASSUME NEW p, NEW c, "component" \notin DOMAIN p.labels
  PROVE  Admits(p, c)
BY DEF Admits, PoliciesOf, PolicySelector, Matches, Label

\* A series is there when its monitor, Service, endpoint and pod are.
LEMMA SeriesThere ==
  ASSUME NEW c \in Cells, Can("prometheus", c, Scrapes),
         NEW m \in Watched(c), NEW s \in Services, m.in = s.ns, Matches(m.selector, s.labels),
         NEW e \in m.endpoints, NEW p \in Pods, Admits(p, c),
         e.port \in s.ports, e.port \in p.ports, p.ns = s.ns, Matches(s.selector, p.labels),
         p.proxy # None => Asks \subseteq Granted(p.proxy)
  PROVE  SeriesLabels(m, s, e, p) \in Series(c)
<1>1. s \in Discovered(m)
  BY DEF Discovered
<1>2. p \in Scraped(c, s, e.port)
  BY DEF Scraped
<1> QED
  BY <1>1, <1>2, SeriesElement, SeriesOfElement

LEMMA KubeletThere ==
  ASSUME BoundInv, NEW c \in Cells, Settled(c), NEW n \in Nodes, NEW path \in Paths
  PROVE  KubeletUp(n, path) \in Series(c)
<1> DEFINE m == serviceMonitorKubelet
           s == KubeletService
           e == Endpoint("https-metrics", path, FALSE)
           p == KubeletPod(n)
<1>1. /\ m.in = "kube-system" /\ m.selector = Label("app/name", "kubelet")
      /\ m.jobLabel = "app/name" /\ e \in m.endpoints
  BY DEF serviceMonitorKubelet, Monitor, Paths
<1>2. /\ s.ns = "kube-system" /\ s.labels = Label("app/name", "kubelet")
      /\ s.name = <<"kubelet">> /\ s.ports = {"https-metrics"}
      /\ s.selector = Label("endpoints", "kubelet")
  BY DEF KubeletService, Service
<1>3. /\ p.ns = "kube-system" /\ p.labels = Label("endpoints", "kubelet")
      /\ p.name = <<"kubelet", n>> /\ p.ports = {"https-metrics"} /\ p.proxy = None
  BY DEF KubeletPod, Pod
<1>4. e.port = "https-metrics" /\ e.path = path /\ e.plain = FALSE
  BY DEF Endpoint
<1>5. s \in Services
  BY SettledFacts DEF Services, ClusterServices
<1>6. p \in Pods
  BY DEF Pods, ClusterPods
<1> HIDE DEF m, s, e, p
<1>7. m \in Watched(c) /\ Can("prometheus", c, Scrapes)
  BY SettledFacts DEF m
<1>8. Admits(p, c)
  <2>1. "component" \notin DOMAIN p.labels
    BY <1>3 DEF Label
  <2> QED
    BY <2>1, Unselected
<1>9. Matches(m.selector, s.labels) /\ Matches(s.selector, p.labels)
  BY <1>1, <1>2, <1>3 DEF Matches
<1>10. SeriesLabels(m, s, e, p) \in Series(c)
  BY <1>1, <1>2, <1>3, <1>4, <1>5, <1>6, <1>7, <1>8, <1>9, SeriesThere
<1>11. SeriesLabels(m, s, e, p) = KubeletUp(n, path)
  BY <1>1, <1>2, <1>3, <1>4 DEF SeriesLabels, KubeletUp, Labelled, Label
<1> QED
  BY <1>10, <1>11

LEMMA APIServerThere ==
  ASSUME BoundInv, NEW c \in Cells, Settled(c)
  PROVE  APIServerUp \in Series(c)
<1> DEFINE m == serviceMonitorAPIServer
           s == KubernetesService
           e == Endpoint("https", "/metrics", FALSE)
           p == APIServerPod
<1>1. /\ m.in = "default" /\ m.selector = APIServerLabels
      /\ m.jobLabel = "component" /\ e \in m.endpoints
  BY DEF serviceMonitorAPIServer, Monitor
<1>2. /\ s.ns = "default" /\ s.labels = APIServerLabels
      /\ s.name = <<"kubernetes">> /\ s.ports = {"https"}
      /\ s.selector = Label("endpoints", "kubernetes")
  BY DEF KubernetesService, Service
<1>3. /\ p.ns = "default" /\ p.labels = Label("endpoints", "kubernetes")
      /\ p.name = <<"apiserver">> /\ p.ports = {"https"} /\ p.proxy = None
  BY DEF APIServerPod, Pod
<1>4. e.port = "https" /\ e.path = "/metrics" /\ e.plain = FALSE
  BY DEF Endpoint
<1>5. s \in Services
  BY DEF Services, ClusterServices
<1>6. p \in Pods
  BY DEF Pods, ClusterPods
<1> HIDE DEF m, s, e, p
<1>7. m \in Watched(c) /\ Can("prometheus", c, Scrapes)
  BY SettledFacts DEF m
<1>8. Admits(p, c)
  <2>1. "component" \notin DOMAIN p.labels
    BY <1>3 DEF Label
  <2> QED
    BY <2>1, Unselected
<1>9. Matches(m.selector, s.labels) /\ Matches(s.selector, p.labels)
  BY <1>1, <1>2, <1>3 DEF Matches
<1>10. SeriesLabels(m, s, e, p) \in Series(c)
  BY <1>1, <1>2, <1>3, <1>4, <1>5, <1>6, <1>7, <1>8, <1>9, SeriesThere
<1>11. SeriesLabels(m, s, e, p) = APIServerUp
  BY <1>1, <1>2, <1>3, <1>4, APIServerFacts DEF SeriesLabels, APIServerUp, Labelled
<1> QED
  BY <1>10, <1>11

\* A Cell whose objects agree on their labels finds its own kube-state-metrics, and so
\* does every Prometheus of the namespace with that Cell's ServiceMonitor.
LEMMA KubeStateMetricsThere ==
  ASSUME BoundInv, PlainLabels, NEW c \in Cells, Settled(c),
         NEW d \in Cells, Made(d), NamespaceOf[d] = NamespaceOf[c], Uniform(d)
  PROVE  MainUp(d) \in Series(c) /\ SelfUp(d, d) \in Series(c)
<1> DEFINE m == KubeStateMetricsMonitor(d)
           s == KubeStateMetricsService(d)
           p == KubeStateMetricsPod(d)
           main == Endpoint("https-main", "/metrics", TRUE)
           self == Endpoint("https-self", "/metrics", FALSE)
           name == Suffixed("kube-state-metrics", d)
           l == Labels("kube-state-metrics", wrote[d]["workloads"])
<1>1. wrote[d]["services"] = wrote[d]["workloads"] /\ wrote[d]["monitors"] = wrote[d]["workloads"]
  BY DEF Uniform
<1>2. /\ m.in = NamespaceOf[d] /\ m.selector = l
      /\ m.jobLabel = "app/name" /\ main \in m.endpoints /\ self \in m.endpoints
  BY <1>1 DEF KubeStateMetricsMonitor, Monitor
<1>3. /\ s.ns = NamespaceOf[d] /\ s.labels = l /\ s.selector = l
      /\ s.name = name /\ s.ports = {"https-main", "https-self"}
  BY <1>1 DEF KubeStateMetricsService, Service
<1>4. /\ p.ns = NamespaceOf[d] /\ p.labels = l /\ p.name = name
      /\ p.ports = {"https-main", "https-self"} /\ p.proxy = Account("kube-state-metrics", d)
  BY DEF KubeStateMetricsPod, Pod
<1>5. /\ main.port = "https-main" /\ main.path = "/metrics" /\ main.plain = TRUE
      /\ self.port = "https-self" /\ self.path = "/metrics" /\ self.plain = FALSE
  BY DEF Endpoint
<1>6. s \in Services
  BY DEF Services, ExporterServices
<1>7. p \in Pods
  BY DEF Pods, ExporterPods
<1>8. "component" \notin DOMAIN l
  BY Written DEF BoundInv, Kinds
<1>9. DOMAIN l = {"app/name"} \cup DOMAIN wrote[d]["workloads"] /\ l["app/name"] = "kube-state-metrics"
  BY DEF Labels, Label, ++
<1> HIDE DEF m, s, p, main, self, l, name
<1>10. m \in Watched(c) /\ Can("prometheus", c, Scrapes)
  BY SettledFacts DEF m
<1>11. Admits(p, c)
  BY <1>4, <1>8, Unselected
<1>12. Matches(m.selector, s.labels) /\ Matches(s.selector, p.labels)
  BY <1>2, <1>3, <1>4 DEF Matches
<1>13. Asks \subseteq Granted(p.proxy)
  BY <1>4, SettledFacts
<1>14. SeriesLabels(m, s, main, p) \in Series(c)
  BY <1>2, <1>3, <1>4, <1>5, <1>6, <1>7, <1>10, <1>11, <1>12, <1>13, SeriesThere
<1>15. SeriesLabels(m, s, self, p) \in Series(c)
  BY <1>2, <1>3, <1>4, <1>5, <1>6, <1>7, <1>10, <1>11, <1>12, <1>13, SeriesThere
<1>16. "app/name" \in DOMAIN s.labels /\ s.labels["app/name"] = "kube-state-metrics"
  BY <1>3, <1>9
<1>17. SeriesLabels(m, s, main, p) = MainUp(d)
  BY <1>2, <1>3, <1>4, <1>5, <1>16 DEF SeriesLabels, MainUp, Labelled, name
<1>18. SeriesLabels(m, s, self, p) = SelfUp(d, d)
  BY <1>2, <1>3, <1>4, <1>5, <1>16 DEF SeriesLabels, SelfUp, Labelled, name
<1> QED
  BY <1>14, <1>15, <1>17, <1>18

\* A pod of Gitpod's behind the Service of its name, when it lets Prometheus in.
LEMMA GitpodThere ==
  ASSUME BoundInv, NEW c \in Cells, Settled(c),
         NEW t \in Components \ {"proxy-caddy"}, ToGitpod(c, t)
  PROVE  GitpodUp(t) \in Series(c)
<1> DEFINE e == Endpoint("metrics", "/metrics", FALSE)
           m == GitpodMonitor(t)
           s == GitpodService(t)
           p == GitpodPod(t)
<1>1. /\ m.in = GitpodNamespace /\ m.selector = gitpodLabels(t)
      /\ m.jobLabel = "app/component" /\ e \in m.endpoints
  BY DEF GitpodMonitor, Monitor
<1>2. /\ s.ns = GitpodNamespace /\ s.labels = gitpodLabels(t) /\ s.name = <<"gitpod", t>>
      /\ s.ports = {"metrics"} /\ s.selector = ServiceSelector(t)
  BY DEF GitpodService, Service, GitpodPort
<1>3. /\ p.ns = GitpodNamespace /\ Matches(ServiceSelector(t), p.labels)
      /\ p.name = <<"gitpod", t>> /\ p.ports = {"metrics"} /\ p.proxy = None
  BY GitpodPodFacts
<1>4. e.port = "metrics" /\ e.path = "/metrics" /\ e.plain = FALSE
  BY DEF Endpoint
<1>5. s \in Services
  BY DEF Services, GitpodServices, ToGitpod
<1>6. p \in Pods
  BY DEF Pods, GitpodPods
<1>7. m \in Watched(c)
  BY DEF Watched, GitpodMonitors, ToGitpod
<1>8. Admits(p, c)
  BY DEF ToGitpod
<1> HIDE DEF m, s, e, p
<1>9. m \in Watched(c) /\ Can("prometheus", c, Scrapes)
  BY <1>7, SettledFacts
<1>10. Matches(m.selector, s.labels) /\ Matches(s.selector, p.labels)
  BY <1>1, <1>2, <1>3, gitpodFacts DEF Matches
<1>11. SeriesLabels(m, s, e, p) \in Series(c)
  BY <1>1, <1>2, <1>3, <1>4, <1>5, <1>6, <1>8, <1>9, <1>10, SeriesThere
<1>12. SeriesLabels(m, s, e, p) = GitpodUp(t)
  BY <1>1, <1>2, <1>3, <1>4, gitpodFacts DEF SeriesLabels, GitpodUp, Labelled
<1> QED
  BY <1>11, <1>12

-----------------------------------------------------------------------------
(* The counts *)

\* The job tells which series it is; those of Gitpod are none of the others.
LEMMA JobOf ==
  ASSUME WiringInv, PlainLabels, NEW c \in Cells, NEW x \in Series(c)
  PROVE  /\ x.job = "kubelet" => \E n \in Nodes, path \in Paths : x = KubeletUp(n, path)
         /\ x.job = "apiserver" => x = APIServerUp
         /\ x.job = "kube-state-metrics" =>
              \E e \in Cells, f \in Cells :
                /\ Made(e) /\ NamespaceOf[e] = NamespaceOf[c]
                /\ Made(f) /\ NamespaceOf[f] = NamespaceOf[c]
                /\ x = MainUp(f) \/ x = SelfUp(f, e)
         /\ x.job # "node-exporter"
         /\ x.job \in Components =>
              x.job # "proxy-caddy" /\ x = GitpodUp(x.job) /\ ToGitpod(c, x.job)
<1>1. Components \cap {"kubelet", "apiserver", "kube-state-metrics", "node-exporter"} = {}
  BY ScrapingAssumption
<1>2. CASE \E n \in Nodes, path \in Paths : x = KubeletUp(n, path)
  <2>1. x.job = "kubelet"
    BY <1>2, JobFacts
  <2> QED
    BY <1>1, <1>2, <2>1
<1>3. CASE x = APIServerUp
  <2>1. x.job = "apiserver"
    BY <1>3, JobFacts
  <2> QED
    BY <1>1, <1>3, <2>1
<1>4. CASE \E e \in Cells, f \in Cells :
             /\ Made(e) /\ NamespaceOf[e] = NamespaceOf[c]
             /\ Made(f) /\ NamespaceOf[f] = NamespaceOf[c]
             /\ x = MainUp(f) \/ x = SelfUp(f, e)
  <2>1. x.job = "kube-state-metrics"
    BY <1>4, JobFacts
  <2> QED
    BY <1>1, <1>4, <2>1
<1>5. ASSUME NEW t \in Components \ {"proxy-caddy"}, x = GitpodUp(t)
      PROVE  x.job = t
  BY <1>5, JobFacts
<1> QED
  BY <1>1, <1>2, <1>3, <1>4, <1>5, SeriesCases

LEMMA KubeletCount ==
  ASSUME BoundInv, PlainLabels, NEW c \in Cells, Settled(c)
  PROVE  Up(Series(c), "kubelet") = 3 * Cardinality(Nodes)
<1> DEFINE kubelets == OfJob(Series(c), "kubelet")
           f == [z \in Nodes \X Paths |-> KubeletUp(z[1], z[2])]
<1>1. ASSUME NEW x \in kubelets PROVE \E n \in Nodes, path \in Paths : x = KubeletUp(n, path)
  BY JobOf DEF OfJob, BoundInv
<1>2. ASSUME NEW n \in Nodes, NEW path \in Paths PROVE KubeletUp(n, path) \in kubelets
  BY KubeletThere, JobFacts DEF OfJob
<1>3. ASSUME NEW n \in Nodes, NEW path \in Paths, NEW k \in Nodes, NEW other \in Paths,
             KubeletUp(n, path) = KubeletUp(k, other)
      PROVE  n = k /\ path = other
  BY <1>3 DEF KubeletUp, Labelled
<1> HIDE DEF kubelets
<1>4. f \in Bijection(Nodes \X Paths, kubelets)
  <2>1. f \in [Nodes \X Paths -> kubelets]
    BY <1>2
  <2>2. ASSUME NEW a \in Nodes \X Paths, NEW b \in Nodes \X Paths, f[a] = f[b]
        PROVE  a = b
    <3>1. a[1] = b[1] /\ a[2] = b[2]
      BY <1>3, <2>2
    <3> QED
      BY <3>1
  <2>3. ASSUME NEW x \in kubelets PROVE \E z \in Nodes \X Paths : f[z] = x
    <3>1. PICK n \in Nodes, path \in Paths : x = KubeletUp(n, path)
      BY <1>1
    <3>2. <<n, path>> \in Nodes \X Paths /\ f[<<n, path>>] = x
      BY <3>1
    <3> QED
      BY <3>2
  <2> HIDE DEF f
  <2> QED
    BY <2>1, <2>2, <2>3, Fun_IsBij
<1>5. IsFiniteSet(Paths) /\ Cardinality(Paths) = 3
  <2>1. IsFiniteSet({"/metrics"}) /\ Cardinality({"/metrics"}) = 1
    BY FS_Singleton
  <2>2. IsFiniteSet({"/metrics"} \cup {"/metrics/cadvisor"})
        /\ Cardinality({"/metrics"} \cup {"/metrics/cadvisor"}) = 2
    BY <2>1, FS_AddElement
  <2>3. LET two == {"/metrics"} \cup {"/metrics/cadvisor"}
        IN  IsFiniteSet(two \cup {"/metrics/probes"}) /\ Cardinality(two \cup {"/metrics/probes"}) = 3
    BY <2>2, FS_AddElement
  <2>4. Paths = ({"/metrics"} \cup {"/metrics/cadvisor"}) \cup {"/metrics/probes"}
    BY DEF Paths
  <2> QED
    BY <2>3, <2>4
<1>6. Cardinality(Nodes \X Paths) = Cardinality(Nodes) * 3 /\ IsFiniteSet(Nodes \X Paths)
  BY <1>5, FS_Product, ScrapingAssumption
<1>7. Cardinality(kubelets) = Cardinality(Nodes \X Paths)
  BY <1>4, <1>6, FS_Bijection, Fun_ExistsBij
<1>8. Cardinality(Nodes) \in Nat
  BY FS_CardinalityType, ScrapingAssumption
<1> QED
  BY <1>6, <1>7, <1>8 DEF Up, kubelets

LEMMA APIServerCount ==
  ASSUME BoundInv, PlainLabels, NEW c \in Cells, Settled(c)
  PROVE  Up(Series(c), "apiserver") = 1
<1>1. ASSUME NEW x \in OfJob(Series(c), "apiserver") PROVE x = APIServerUp
  BY JobOf DEF OfJob, BoundInv
<1>2. APIServerUp \in OfJob(Series(c), "apiserver")
  BY APIServerThere, JobFacts DEF OfJob
<1>3. OfJob(Series(c), "apiserver") = {APIServerUp}
  BY <1>1, <1>2
<1> QED
  BY <1>3, FS_Singleton DEF Up

LEMMA NodeExporterCount ==
  ASSUME BoundInv, PlainLabels, NEW c \in Cells
  PROVE  Up(Series(c), "node-exporter") = 0
<1>1. OfJob(Series(c), "node-exporter") = {}
  BY JobOf DEF OfJob, BoundInv
<1> QED
  BY <1>1, FS_EmptySet DEF Up

LEMMA TwoAndThree ==
  ASSUME NEW a, NEW b, a # b
  PROVE  /\ IsFiniteSet({a, b}) /\ Cardinality({a, b}) = 2
         /\ \A d : d \notin {a, b} => Cardinality({a, b, d}) = 3
<1>1. IsFiniteSet({a}) /\ Cardinality({a}) = 1
  BY FS_Singleton
<1>2. IsFiniteSet({a} \cup {b}) /\ Cardinality({a} \cup {b}) = 2
  BY <1>1, FS_AddElement
<1>3. {a, b} = {a} \cup {b}
  OBVIOUS
<1>4. ASSUME NEW d, d \notin {a, b} PROVE Cardinality({a, b, d}) = 3
  <2>1. Cardinality({a, b} \cup {d}) = 3
    BY <1>2, <1>3, <1>4, FS_AddElement
  <2>2. {a, b, d} = {a, b} \cup {d}
    OBVIOUS
  <2> QED
    BY <2>1, <2>2
<1> QED
  BY <1>2, <1>3, <1>4

\* The series of kube-state-metrics are of the Cells in the namespace.
LEMMA KubeStateMetricsOf ==
  ASSUME BoundInv, PlainLabels, NEW c \in Cells,
         NEW x \in OfJob(Series(c), "kube-state-metrics")
  PROVE  \E e \in Cells, f \in Cells :
           /\ Made(e) /\ NamespaceOf[e] = NamespaceOf[c]
           /\ Made(f) /\ NamespaceOf[f] = NamespaceOf[c]
           /\ x = MainUp(f) \/ x = SelfUp(f, e)
<1>1. WiringInv /\ x \in Series(c) /\ x.job = "kube-state-metrics"
  BY DEF BoundInv, OfJob
<1> QED
  BY <1>1, JobOf

LEMMA KubeStateMetricsAlone ==
  ASSUME BoundInv, PlainLabels, NEW c \in Cells, Settled(c), Neighbours(c) = {}
  PROVE  Up(Series(c), "kube-state-metrics") = 2
<1> DEFINE series == OfJob(Series(c), "kube-state-metrics")
<1>1. \A d \in Cells : Made(d) /\ NamespaceOf[d] = NamespaceOf[c] => d = c
  BY DEF Neighbours
<1>2. ASSUME NEW x \in series PROVE x = MainUp(c) \/ x = SelfUp(c, c)
  <2>1. PICK e \in Cells, f \in Cells :
               /\ Made(e) /\ NamespaceOf[e] = NamespaceOf[c]
               /\ Made(f) /\ NamespaceOf[f] = NamespaceOf[c]
               /\ x = MainUp(f) \/ x = SelfUp(f, e)
    BY KubeStateMetricsOf
  <2>2. e = c /\ f = c
    BY <1>1, <2>1
  <2> QED
    BY <2>1, <2>2
<1>3. Made(c) /\ Uniform(c)
  BY DEF Settled, Uniform, Made, Kinds
<1>4. MainUp(c) \in series /\ SelfUp(c, c) \in series
  BY <1>3, KubeStateMetricsThere, JobFacts DEF OfJob
<1>5. series = {MainUp(c), SelfUp(c, c)}
  BY <1>2, <1>4
<1>6. MainUp(c) # SelfUp(c, c)
  BY DEF MainUp, SelfUp, Labelled
<1>7. Cardinality({MainUp(c), SelfUp(c, c)}) = 2
  BY <1>6, TwoAndThree
<1> QED
  BY <1>5, <1>7 DEF Up

LEMMA KubeStateMetricsBeside ==
  ASSUME UniqueNames, BoundInv, PlainLabels, NEW c \in Cells, Settled(c),
         NEW d \in Neighbours(c), Uniform(d)
  PROVE  Up(Series(c), "kube-state-metrics") > 2
<1> DEFINE series == OfJob(Series(c), "kube-state-metrics")
           mains == {MainUp(f) : f \in Cells}
           selves == {SelfUp(z[1], z[2]) : z \in Cells \X Cells}
           three == {MainUp(c), SelfUp(c, c), MainUp(d)}
<1>1. /\ d \in Cells /\ d # c /\ Made(d) /\ NamespaceOf[d] = NamespaceOf[c]
      /\ Made(c) /\ Uniform(c)
  BY DEF Neighbours, Settled, Uniform, Made, Kinds
<1>2. three \subseteq series
  BY <1>1, KubeStateMetricsThere, JobFacts DEF OfJob
<1>3. MainUp(c) # SelfUp(c, c) /\ MainUp(d) # SelfUp(c, c)
  BY DEF MainUp, SelfUp, Labelled
<1>4. MainUp(d) # MainUp(c)
  <2>1. NameOf[d] # NameOf[c]
    BY <1>1 DEF UniqueNames
  <2>2. Suffixed("kube-state-metrics", d) # Suffixed("kube-state-metrics", c)
    BY <2>1 DEF Suffixed
  <2> QED
    BY <2>2 DEF MainUp, Labelled
<1>5. Cardinality(three) = 3
  BY <1>3, <1>4, TwoAndThree
<1>6. IsFiniteSet(mains)
  <2>1. [f \in Cells |-> MainUp(f)] \in Surjection(Cells, mains)
    BY Fun_IsSurj
  <2> QED
    BY <2>1, FS_Surjection, ScrapingAssumption
<1>7. IsFiniteSet(selves)
  <2>1. [z \in Cells \X Cells |-> SelfUp(z[1], z[2])] \in Surjection(Cells \X Cells, selves)
    BY Fun_IsSurj
  <2>2. IsFiniteSet(Cells \X Cells)
    BY FS_Product, ScrapingAssumption
  <2> QED
    BY <2>1, <2>2, FS_Surjection
<1>8. series \subseteq mains \cup selves
  <2> SUFFICES ASSUME NEW x \in series PROVE x \in mains \cup selves
    OBVIOUS
  <2>1. PICK e \in Cells, f \in Cells : x = MainUp(f) \/ x = SelfUp(f, e)
    BY KubeStateMetricsOf
  <2>2. <<f, e>> \in Cells \X Cells /\ <<f, e>>[1] = f /\ <<f, e>>[2] = e
    OBVIOUS
  <2> QED
    BY <2>1, <2>2
<1> HIDE DEF series, three, mains, selves
<1>9. IsFiniteSet(series)
  BY <1>6, <1>7, <1>8, FS_Union, FS_Subset
<1>10. Cardinality(series) \in Nat /\ 3 <= Cardinality(series)
  BY <1>2, <1>5, <1>9, FS_Subset, FS_CardinalityType
<1> QED
  BY <1>10 DEF Up, series

LEMMA Fits == UniqueNames /\ PlainLabels /\ BoundInv => CountsFit
BY KubeletCount, APIServerCount, NodeExporterCount, KubeStateMetricsAlone, KubeStateMetricsBeside
DEF CountsFit

\* CountsFit, for any number of Cells, namespaces and nodes: what a settled Cell counts
\* of each job is what updateCellStatus compares it with (cell_controller.go:264-290),
\* or never is, whatever edits, deletions and passes of other Cells led there.
THEOREM CountsAlwaysFit ==
  ASSUME UniqueNames, PlainLabels
  PROVE  Spec => []CountsFit
<1>1. Init => BoundInv
  BY BoundInit
<1>2. BoundInv /\ [Next]_vars => BoundInv'
  BY BoundStep
<1>3. BoundInv => CountsFit
  BY Fits
<1> QED
  BY <1>1, <1>2, <1>3, PTL DEF Spec

-----------------------------------------------------------------------------
(* Gitpod *)

\* Whom the policies of a component let in.
LEMMA Admission ==
  ASSUME NEW c \in Cells, Settled(c), NEW t \in Components \ {"proxy-caddy"}
  PROVE  Admits(GitpodPod(t), c) <=>
           \/ ~Has("policy", GitpodNamespace, t)
           \/ policy = NamespaceOf[c] /\ Matches(matchLabels, Labels("prometheus", cells[c]))
<1> DEFINE p == GitpodPod(t)
           l == Labels("prometheus", cells[c])
           labels == PrometheusPod(c).labels
<1>1. p.ns = GitpodNamespace /\ "component" \in DOMAIN p.labels /\ p.labels["component"] = t
  BY GitpodPodFacts
<1> HIDE DEF p
<1>2. PoliciesOf(p) # {} <=> Has("policy", GitpodNamespace, t)
  <2>1. ASSUME NEW u \in Components
        PROVE  Matches(PolicySelector(u), p.labels) <=> u = t
    <3>1. /\ DOMAIN PolicySelector(u) = {"component"}
          /\ PolicySelector(u)["component"] = IF u = "proxy-caddy" THEN "proxy" ELSE u
      BY DEF PolicySelector, Label
    <3>2. t # "proxy"
      BY ScrapingAssumption
    <3> QED
      BY <1>1, <3>1, <3>2 DEF Matches
  <2> QED
    BY <2>1 DEF PoliciesOf
<1>3. wrote[c]["prom"] = cells[c]
  BY DEF Settled, Kinds
<1>4. labels = Label("app/name", "prometheus") ++ Label("app/instance", "prometheus") ++ l
  BY <1>3 DEF PrometheusPod, Pod
<1>5. DOMAIN l = {"app/name"} \cup DOMAIN cells[c] /\ l["app/name"] = "prometheus"
  BY LabelsFacts
<1> HIDE DEF l
<1>6. /\ DOMAIN labels = {"app/name", "app/instance"} \cup DOMAIN l
      /\ labels["app/name"] = "prometheus"
      /\ \A k \in DOMAIN l \ {"app/name", "app/instance"} : labels[k] = l[k]
  BY <1>4 DEF Label, ++
<1>7. /\ DOMAIN matchLabels = {"app/component", "app/name", "app/part-of"}
      /\ matchLabels["app/name"] = "prometheus"
  BY DEF matchLabels, Label, ++
<1>8. Matches(matchLabels, labels) <=> Matches(matchLabels, l)
  BY <1>5, <1>6, <1>7 DEF Matches
<1> QED
  BY <1>1, <1>2, <1>8 DEF Admits, p, l

LEMMA Scraping ==
  ASSUME PlainLabels, BoundInv, NEW c \in Cells, Settled(c), NEW t \in Components
  PROVE  Up(Series(c), t) =
           IF /\ t # "proxy-caddy"
              /\ Has("monitor", NamespaceOf[c], t) /\ Has("service", GitpodNamespace, t)
              /\ \/ ~Has("policy", GitpodNamespace, t)
                 \/ policy = NamespaceOf[c] /\ Matches(matchLabels, Labels("prometheus", cells[c]))
           THEN 1 ELSE 0
<1> DEFINE reached == t # "proxy-caddy" /\ ToGitpod(c, t)
           series == OfJob(Series(c), t)
<1>1. reached <=> /\ t # "proxy-caddy"
                  /\ Has("monitor", NamespaceOf[c], t) /\ Has("service", GitpodNamespace, t)
                  /\ \/ ~Has("policy", GitpodNamespace, t)
                     \/ /\ policy = NamespaceOf[c]
                        /\ Matches(matchLabels, Labels("prometheus", cells[c]))
  BY Admission DEF ToGitpod
<1>2. ASSUME NEW x \in series PROVE x = GitpodUp(t) /\ reached
  BY JobOf DEF OfJob, BoundInv
<1>3. CASE reached
  <2>1. GitpodUp(t) \in series
    BY <1>3, GitpodThere, JobFacts DEF OfJob
  <2>2. series = {GitpodUp(t)}
    BY <1>2, <2>1
  <2> HIDE DEF reached, series
  <2>3. Cardinality(series) = 1
    BY <2>2, FS_Singleton
  <2> QED
    BY <1>1, <1>3, <2>3 DEF Up, series
<1>4. CASE ~reached
  <2>1. series = {}
    BY <1>2, <1>4
  <2> HIDE DEF reached, series
  <2>2. Cardinality(series) = 0
    BY <2>1, FS_EmptySet
  <2> QED
    BY <1>1, <1>4, <2>2 DEF Up, series
<1> QED
  BY <1>3, <1>4

\* GitpodScraped, for any number of Cells and of Gitpod's components: a settled Cell has
\* each component once, or not at all, and under no other's job.  Which, is decided by
\* the Service, the ServiceMonitor and the policy of that component that the garbage
\* collector has left (networkpolicies.go:21), the namespace of the Cell reconciled last,
\* and the labels of this one.
THEOREM GitpodAlwaysScraped ==
  ASSUME UniqueNames, PlainLabels
  PROVE  Spec => []GitpodScraped
<1>1. Init => BoundInv
  BY BoundInit
<1>2. BoundInv /\ [Next]_vars => BoundInv'
  BY BoundStep
<1>3. BoundInv => GitpodScraped
  BY Scraping DEF GitpodScraped
<1> QED
  BY <1>1, <1>2, <1>3, PTL DEF Spec
=============================================================================
