CONSTANTS
  r1 = r1  r2 = r2
  NoRuntime = NoRuntime
  Runtimes <- TwoRuntimes
  MaxFaults = 1
SPECIFICATION FairSpec
INVARIANTS RInv LiveIsTracked ListedForDelivery EndIsOnItsWay
PROPERTIES NeverReplaced DeadIsDropped RestartIsHeard
