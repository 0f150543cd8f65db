SPECIFICATION Spec
CONSTANTS
  Proc = {p1, p2}
  None = None
  Modes = {"any"}
PROPERTY DiskKept
