\* Two requests overlap over up to two printers, on either database.
CONSTANTS
  MaxId = 2
  Requests = {c1, c2}
  Logins = {l1, l2}
  None = None
  MaxArrivals = 3
SPECIFICATION MCFairSpec
INVARIANTS TypeOK CopiesFollow
PROPERTIES MaintenanceDisables RowsAreAnnounced
CHECK_DEADLOCK FALSE
