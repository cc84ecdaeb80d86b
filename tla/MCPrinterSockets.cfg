\* One printer, in depth: its adapter may be removed and replaced, and a
\* connection may be given up while two others have still to close.
CONSTANTS
  N = 1
  Adapters = {a1, a2}
  NoAdapter = NoAdapter
  MaxDisturbances = 3
  MaxWs = 3
SPECIFICATION MCSpec
INVARIANTS TypeOK RemovedIsMuted WorkingStateHasWs
SYMMETRY AdapterSymmetry
