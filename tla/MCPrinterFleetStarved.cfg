\* Two printers, one of them silent and unreachable; nothing else disturbs them.
CONSTANTS
  N = 2
  Adapters = {a1, a2}
  NoAdapter = NoAdapter
  MaxDisturbances = 0
  MaxWs = 2
SPECIFICATION MCFairSpec
PROPERTY ClosedIsReset
