\* One request on its own: to a place on the diagonal from elsewhere in its column.
CONSTANTS
  Printers = {p1}
  MaxFloor = 1
  Levels = {0}
  Cells <- ColumnCells
  Requests = {c1}
  None = None
  MaxArrivals = 1
SPECIFICATION MCSpec
PROPERTY PlacedWhereAsked
CHECK_DEADLOCK FALSE
