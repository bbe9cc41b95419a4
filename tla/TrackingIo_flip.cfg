SPECIFICATION IoSpec
CONSTANTS
  MaxSeq = 4
  Flips = TRUE
PROPERTY FlipHolds
CHECK_DEADLOCK FALSE
