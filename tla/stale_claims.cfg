SPECIFICATION Spec
CONSTANTS
  NoNode = NoNode
  NoRequest = NoRequest
  NoClaim = NoClaim
  n1 = n1
  n2 = n2
  A = A
  B = B
  c1 = c1
  c2 = c2
  d1 = d1
  d2 = d2
  Nodes = {n1}
  NodeRank <- OneNodeRank
  Models = {A}
  ModelRank <- OneModelRank
  CannotCoexistWith <- NoConflict
  DeviceNoAllocation = 0
  DeviceNoRemoval = 0
  Claims = {c1}
  Items = {1}
  ItemsOf <- OneItem
  ItemModel <- AllModelA
  Created <- SameTime
  ClaimName <- DistinctNames
  Devices = {d1}
  DeviceModel <- DevicesA
  RequestIds = {1}
  LimitChoices <- MaxZeroOrNone
  Lagging = {"claims"}
  MaxFaults = 0
  OpenPhases = {"idle"}
PROPERTIES FailedNotRescheduled
