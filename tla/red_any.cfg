SPECIFICATION RedSpec
CONSTANTS
  MaxPackets = 4
  CounterSize = 16
  BufferSizes = {1, 2}
  Versions = {0, 4}
  Arriving = {"Not-ECT", "ECT(0)", "CE"}
  ThresholdValues = {1, 2, 100}
INVARIANTS ThresholdsOrdered Conservation UnmarkedWithinBuffer
