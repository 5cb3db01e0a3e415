SPECIFICATION MCSpec
CONSTANTS
  Sides = {"lr", "rl"}
  MaxPackets <- MCMaxPackets
  Delays = {0, 1}
  MaxAge = 1
  MaxLate = 0
INVARIANTS
  Fifo
  TimerArmed
  NoneLost
PROPERTIES
  OnTime
  Delivered
