SPECIFICATION FairSpec
CONSTANTS
  Worker = {w1, w2}
  Content = {c1, c2}
  SnapName = {n1}
  None = None
  MaxPolls = 1
  Autostart = TRUE
  Calls <- AllCalls
  Faults <- AllFaults
  Apart <- SnapCalls
INVARIANT TypeOK
INVARIANT SavedMatchesDisk
PROPERTY SnapshotsOnlyWhenStopped
PROPERTY NoPowerCutUnlessForced
PROPERTY ImplementsAndroidVm
PROPERTY CallsReturn
