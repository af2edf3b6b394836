SPECIFICATION Spec
CONSTANTS
  Foreign = Foreign
  Unset = Unset
  Targets <- MCTargets
  CellNamespace <- MCCellNamespace
  Rendered <- MCRendered
  Selector <- MCSelector
  Locals <- LocalNames
  InitConfig <- Base
  PrometheusOperatorDeployment <- MCOperatorDeployment
  PrometheusInstance <- MCPrometheus
  Objs <- MCMoveObjs
  Configs <- MoveConfigs
  Plan <- MCMovePlan
  Feeds <- MCCoreFeeds
  Instances <- MCOneNode
  InitStates <- InstalledOrUpgradedMove
  Disruptions = {"fault", "crash", "spec", "uninstall"}
  MaxDisruptions = 3
  MaxLag = 1
INVARIANTS
  TypeOK
  QuiescentMeansApplied
PROPERTIES
  KeepsPromise
\* After the Cell is deleted the operator stops.
CHECK_DEADLOCK FALSE
