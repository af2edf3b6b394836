SPECIFICATION LiveSpec
CONSTANTS
  Unscoped = "-"
  NoNamespace = ""
  None = None
  Unowned = Unowned
  NamespaceOf <- InDefault
  Gate <- MCGate
  Names <- OneName
  Specs <- HomeSpecs
  InitSpecs <- HomeInit
  Objs <- MCObjs
  Plan <- MCPlan
  Disruptions = {"delete", "create"}
  MaxDisruptions = 2
PROPERTIES
  PrometheusComplete
