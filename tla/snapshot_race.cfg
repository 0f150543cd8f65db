SPECIFICATION Spec
CONSTANTS
  Worker = {w1, w2}
  Content = {c1, c2}
  SnapName = {n1}
  None = None
  MaxPolls = 1
  Autostart = TRUE
  Calls <- SnapshotRace
  Faults <- NoFaults
  Apart = {}
INVARIANT SavedMatchesDisk
