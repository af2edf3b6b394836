SPECIFICATION Spec
CONSTANTS
  Foreign = Foreign
  Unset = Unset
  Targets <- MCTargets
  CellNamespace <- MCCellNamespace
  Rendered <- MCRendered
  Selector <- MCSelector
  Locals <- LocalNames
  InitConfig <- Base
  PrometheusOperatorDeployment <- MCOperatorDeployment
  PrometheusInstance <- MCPrometheus
  Objs <- MCFewObjs
  Configs <- FewConfigs
  Plan <- MCFewPlan
  Feeds <- MCFewFeeds
  Instances <- MCOneNode
  InitStates <- EmptyFew
  Disruptions = {"fault", "crash", "spec", "uninstall"}
  MaxDisruptions = 1
  MaxLag = 1
INVARIANTS
  ActsOnPublishedStatus
  NoNilDereference
  QuiescentMeansReady
\* After the Cell is deleted the operator stops.
CHECK_DEADLOCK FALSE
