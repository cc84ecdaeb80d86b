\* A reauthRequired and a refresh are enough to strand an adapter.
CONSTANTS
  N = 1
  Adapters = {a1}
  NoAdapter = NoAdapter
  MaxDisturbances = 2
  MaxWs = 2
SPECIFICATION MCSpec
INVARIANT AdapterIsRecoverable
