SPECIFICATION Spec
CONSTANTS
  None = None
  a = a
  b = b
  c = c
  GitpodNamespace = "default"
  Nobody = Nobody
  Components = {"messagebus"}
  Cells <- OneCell
  NameOf <- OwnNames
  NamespaceOf <- Homes
  CellLabels <- SampleOnly
  Nodes = {"n1"}
  MaxEdits = 1
INVARIANTS
  NodeExporterScraped
