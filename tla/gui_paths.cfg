SPECIFICATION FairSpec
CONSTANTS
  src = src  snk = snk  q = q  out = out  in = in  qin = qin  e1 = e1  e2 = e2
  Ids = {src, snk, q}
  Sockets = {src, snk}
  Earlier <- MCEarlier
  Ports = {out, in, qin}
  Owner <- MCOwner
  Kind <- MCKind
  Places = {1, 2}
  Slots = {1, 2, 3}
  Away = Away  NoId = NoId  NoPort = NoPort
  Editors = {e1, e2}
  Open = {e1, e2}
  StartModules <- MCModules
  StartPaths <- MCPaths
  Retained <- MCRetained
  MaxGestures <- MCGestures
  MaxLosses <- MCLosses
INVARIANTS
  PathsAtNodes
  PortsConnected
  OneLoosePath
  SelectionShown
  PortsExclusive
  Agreement
CHECK_DEADLOCK FALSE
PROPERTIES Converges
