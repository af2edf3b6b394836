SPECIFICATION Spec
CONSTANTS
  None = None
  a = a
  b = b
  c = c
  GitpodNamespace = "default"
  Nobody = Nobody
  Components = {"messagebus"}
  Cells <- ThreeCells
  NameOf <- OwnNames
  NamespaceOf <- Homes
  CellLabels <- ThreeLabels
  Nodes = {n1, n2}
  MaxEdits = 3
CHECK_DEADLOCK FALSE
SYMMETRY Alike
INVARIANTS
  TypeOK
  CountsFit
  OwnRights
  GitpodScraped
