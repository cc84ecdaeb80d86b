\* Liveness, under the fairness of timers and timeouts: one printer and its adapter; a boot
\* that fails up to three times, with a task of each kind.
CONSTANTS
  N = 1
  Adapters = {a1}
  NoAdapter = NoAdapter
  MaxDisturbances = 3
  MaxWs = 3
  MaxFailures = 3
SPECIFICATION TasksSpec
PROPERTIES UnopenedIsSetUp ClosedIsReset  GetsToWork
CHECK_DEADLOCK FALSE
