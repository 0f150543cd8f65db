SPECIFICATION FairSpec
CONSTANTS
  Worker = {w1, w2}
  Content = {c1, c2}
  SnapName = {n1}
  None = None
  MaxPolls = 2
  Autostart = TRUE
  Calls <- AllCalls
  Faults <- Suspends
  Apart <- UnlockedCalls
INVARIANT OutcomeTrue
PROPERTY EachStepNearsTheEnd
PROPERTY ForcedStopTurnsOff
