SPECIFICATION Spec
CONSTANTS
  Worker = {w1, w2}
  Content = {c1, c2}
  SnapName = {n1}
  None = None
  MaxPolls = 2
  Autostart = TRUE
  Calls <- LockedCalls
  Faults <- NoFaults
  Apart <- UnlockedCalls
INVARIANT StopWaitsItOut
