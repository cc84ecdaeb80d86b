\* Two printer events, so that three connections of one adapter may meet.
CONSTANTS
  Slots = 2
  MaxSetups = 1
  MaxEvents = 2
  MaxDetached = 2
SPECIFICATION MCSpec
INVARIANTS TypeOK ConnectionIsOfOnePiece
PROPERTY IdentifySettles
CHECK_DEADLOCK FALSE
