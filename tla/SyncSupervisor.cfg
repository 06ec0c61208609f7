SPECIFICATION FairSpec
CONSTANTS
  Vaults = {v1}
  Poll = 2
  ReadyAge = 4
  WatchdogAfter = 6
  StableRun = 3
  InitialBackoff = 1
  MaxBackoff = 3
INVARIANT TypeOK
INVARIANT OneChild
INVARIANT ReadyIsCurrent
 
PROPERTY SilentChildIsReplaced
PROPERTY AlwaysSupervised
PROPERTY ShutdownStops
