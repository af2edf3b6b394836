SPECIFICATION LiveSpec
CONSTANTS
  Foreign = Foreign
  Unset = Unset
  Targets <- MCTargets
  CellNamespace <- MCCellNamespace
  Rendered <- MCRendered
  Selector <- MCSelector
  Locals <- LocalNames
  InitConfig <- Base
  PrometheusOperatorDeployment <- MCOperatorDeployment
  PrometheusInstance <- MCPrometheus
  Objs <- MCMoveObjs
  Configs <- MovedConfigs
  Plan <- MCMovedPlan
  Feeds <- MCCoreFeeds
  Instances <- MCOneNode
  InitStates <- InstalledMove
  Disruptions = {"fault", "crash", "outage", "target", "delete", "edit", "spec"}
  MaxDisruptions = 1
  MaxLag = 1
PROPERTIES
  Heals
  OnlyOwnObject
