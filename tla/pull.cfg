SPECIFICATION MCSpec
CONSTANTS
  MaxPackets = 4
  MaxLate = 1
  Bitrates = {0, 1, 2}
  BufferSizes = {1, 2}
  Size <- MCSize
  Relink = TRUE
  RateFirst = FALSE
INVARIANTS
  TransmissionTimed
PROPERTIES
  Paced
  ImplementsChannel
  
