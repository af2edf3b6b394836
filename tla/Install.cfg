SPECIFICATION LiveSpec
CONSTANTS
  Foreign = Foreign
  Unset = Unset
  Targets <- MCTargets
  CellNamespace <- MCCellNamespace
  Rendered <- MCRendered
  Selector <- MCSelector
  Locals <- LocalNames
  InitConfig <- Base
  PrometheusOperatorDeployment <- MCOperatorDeployment
  PrometheusInstance <- MCPrometheus
  Objs <- MCCoreObjs
  Configs <- OneConfig
  Plan <- MCCorePlan
  Feeds <- MCCoreFeeds
  Instances <- MCOneNode
  InitStates <- EmptyCore
  Disruptions = {"fault", "crash"}
  MaxDisruptions = 1
  MaxLag = 1
INVARIANTS
  QuiescentMeansInstalled
PROPERTIES
  Installs
