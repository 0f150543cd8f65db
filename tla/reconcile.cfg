SPECIFICATION FairSpec
CONSTANTS
  Proc = {p1, p2}
  N = 2
  None = None
  MaxFaults = 2
INVARIANT TypeOK
INVARIANT ReportTrue
INVARIANT EveryVmTried
PROPERTY RouterFirst
PROPERTY RebootKeepsReport
 
PROPERTY ImplementsDisks
 
