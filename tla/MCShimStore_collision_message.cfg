SPECIFICATION Spec
CONSTANTS
  p1 = p1
  p2 = p2
  a1 = a1
  a2 = a2
  c1 = c1
  d1 = d1
  d2 = d2
  d3 = d3
  Proc <- MCProc
  Artifact <- MCArtifact
  Command <- OneCommand
  CommandOf <- SharedCommand
  Dir <- MCDir
  MaxArtifacts = 1
  MayFail = FALSE
  DriftKinds <- NoDrift
SYMMETRY Symmetric
PROPERTIES ConflictMeansOccupied
