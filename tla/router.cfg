SPECIFICATION Spec
CONSTANTS
  k1 = k1
  k2 = k2
  v1 = v1
  v2 = v2
  s1 = s1
  s2 = s2
  f1 = f1
  f2 = f2
  Controller = {k1, k2}
  Vm = {v1, v2}
  Source = {s1, s2}
  Tailnet = {s1, s2}
  Address <- Addresses
  Key = {f1, f2}
  BadKey = bad
  Wan = wan
  Script = {p1, p2}
  Boot = boot
  None = None
  Configs <- ThreeConfigs
  Modes = {"alone", "steady"}
INVARIANT TypeOK
INVARIANT TableIsOnePolicy
INVARIANT SyncedTogether
INVARIANT EnrolledFilters
PROPERTY ImplementsFilter
SYMMETRY Symmetry
