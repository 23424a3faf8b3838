SPECIFICATION EdgeSpec
CONSTANTS
  Widths = {4, 6}
  FontMin = 1
  FontMax = 3
  MaxTaps = 3
  MaxReflows = 4
INVARIANT OneKeyPerModifier
PROPERTY SizeCatchesUp
CHECK_DEADLOCK FALSE
