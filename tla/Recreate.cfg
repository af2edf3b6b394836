SPECIFICATION LiveSpec
CONSTANTS
  Unscoped = "-"
  NoNamespace = ""
  None = None
  Unowned = Unowned
  NamespaceOf <- InDefault
  Gate <- MCGate
  Names <- OneName
  Specs <- AllSpecs
  InitSpecs <- AllInit
  Objs <- MCFewObjs
  Plan <- MCFewPlan
  Disruptions = {"fault", "crash", "spec", "delete", "create"}
  MaxDisruptions = 3
CHECK_DEADLOCK FALSE
INVARIANTS
  TypeOK
  RestsWhole
PROPERTIES
  NoHeir
  LeavesNothing
  Restored
