\* Two printers share the reconnect and the restore task.
CONSTANTS
  N = 2
  Adapters = {a1, a2}
  NoAdapter = NoAdapter
  MaxDisturbances = 1
  MaxWs = 2
SPECIFICATION MCSpec
PROPERTIES KeepsRounds RemovedStaysDown
SYMMETRY AdapterSymmetry
