SPECIFICATION HistorySpec
CONSTANTS
  src = src  snk = snk  q = q
  o1 = o1  o2 = o2  o3 = o3  o4 = o4
  raw = raw  queue = queue  rate = rate
  in = in  out = out  size = size  bitrate = bitrate
  Ids = {src, snk, q}
  Objects = {o1, o2, o3, o4}
  Types = {raw, queue, rate}
  SocketType = raw
  Sockets = {src, snk}
  PortIds = {in, out}
  ParamIds = {size, bitrate}
  Kind <- MCKind
  Params <- MCParams
  NoObject = NoObject  NoType = NoType  NoPort = NoPort  NoPath = NoPath  NoId = NoId  NoDoc = NoDoc
  Requests <- AnyPaths
  Documents <- AnyFiles
SYMMETRY Symmetric
INVARIANTS
  NoDanglingPort
  PathsResolve
  ConnectionsListed
  BrokerMatches
  SavedGraphClosed
  PathsWiredUnlessShared
PROPERTIES
  SocketsKept
  RequestApplied
