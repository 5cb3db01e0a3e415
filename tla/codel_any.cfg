SPECIFICATION Spec
CONSTANTS
  MaxPackets = 8
  CounterSize = 16
  BufferSizes = {4}
  Versions = {4}
  Arriving = {"ECT(1)"}
  INTERVAL = 2
  MAXPACKET = 1
  Targets = {1}
  Horizon = 8
INVARIANTS MarksCounted
PROPERTIES ActsOnStandingQueue DequeueDelivers
