SPECIFICATION FairSpec
CONSTANTS
  Servers = {s1}
  Services <- TwoServices
  Runners = {"seq", "mp"}
  Nobody = Nobody
  MaxChanges = 2
  MaxFails = 2
  MaxStops = 1
INVARIANTS
  NoOrphans
  NoGhostError
PROPERTY
  Converges
