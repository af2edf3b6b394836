SPECIFICATION LiveSpec
CONSTANTS
  Unscoped = "-"
  NoNamespace = ""
  None = None
  Unowned = Unowned
  NamespaceOf <- InDefault
  Gate <- MCGate
  Names <- TwoNames
  Specs <- NeighbourSpecs
  InitSpecs <- NeighboursInit
  Objs <- MCSharedObjs
  Plan <- MCSharedPlan
  Disruptions = {"fault", "crash", "delete", "spec"}
  MaxDisruptions = 1
CHECK_DEADLOCK FALSE
INVARIANTS
  RestsWhole
PROPERTIES
  Restored
  Settles
