SPECIFICATION LiveSpec
CONSTANTS
  Unscoped = "-"
  NoNamespace = ""
  None = None
  Unowned = Unowned
  NamespaceOf <- InDefault
  Gate <- MCGate
  Names <- OneName
  Specs <- AwaySpecs
  InitSpecs <- AwayInit
  Objs <- MCObjs
  Plan <- MCPlan
  Disruptions = {}
  MaxDisruptions = 0
PROPERTIES
  OtherNamespacesServed
