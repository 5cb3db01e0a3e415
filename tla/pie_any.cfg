SPECIFICATION PieSpec
CONSTANTS
  MaxPackets = 5
  CounterSize = 16
  BufferSizes = {3, 4}
  Versions = {4}
  Arriving = {"Not-ECT", "ECT(0)", "CE"}
  Delays = {0, 20}
  QdelayRefs = {15}
  MaxBursts = {0, 20}
  FirstProbs = {0, 1, 2, 3, 4, 5}
  MaxUpdates = 2
INVARIANTS MarksCountedHere ChecksumsValid BufferBound BurstTolerated
