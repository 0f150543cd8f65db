SPECIFICATION Spec
CONSTANTS
  Proc = {p1, p2, p3}
  None = None
  Modes = {"alone", "steady"}
INVARIANT TypeOK
INVARIANT NoDisklessDomain
INVARIANT SuccessMeansReady
PROPERTY DiskKept
PROPERTY ImplementsDisks
SYMMETRY Symmetry
