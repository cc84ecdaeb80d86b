\* Two requests overlap over two floors, two places and two printers.
CONSTANTS
  Printers = {p1, p2}
  MaxFloor = 2
  Levels = {0, 1}
  Cells <- ColumnCells
  Requests = {c1, c2}
  None = None
  MaxArrivals = 2
SPECIFICATION MCSpec
INVARIANTS TypeOK FloorsAreAsShown
PROPERTY OthersKeepTheirPlaces
SYMMETRY RequestSymmetry
CHECK_DEADLOCK FALSE
