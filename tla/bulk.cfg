SPECIFICATION FairSpec
CONSTANTS
  N = 4
  Jobs = 3
  None = None
INVARIANT TypeOK
INVARIANT EachVmOnce
INVARIANT NoRowMissing
INVARIANT ClaimsAreBounded
PROPERTY CommandEnds
PROPERTY ImplementsBulkReport
CHECK_DEADLOCK FALSE
