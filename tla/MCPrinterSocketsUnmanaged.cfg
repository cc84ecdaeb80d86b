\* A printer is disabled while the session of its adapter is in progress.
CONSTANTS
  N = 1
  Adapters = {a1}
  NoAdapter = NoAdapter
  MaxDisturbances = 2
  MaxWs = 2
SPECIFICATION MCSpec
INVARIANT EveryConnectionIsManaged
