SPECIFICATION Spec
CONSTANTS
  NoNode = NoNode
  NoRequest = NoRequest
  NoClaim = NoClaim
  n1 = n1
  n2 = n2
  A = A
  B = B
  c1 = c1
  c2 = c2
  d1 = d1
  d2 = d2
  Nodes = {n1}
  NodeRank <- OneNodeRank
  Models = {A}
  ModelRank <- OneModelRank
  CannotCoexistWith <- NoConflict
  DeviceNoAllocation = 0
  DeviceNoRemoval = 1
  Claims = {c1}
  Items = {1, 2}
  ItemsOf <- TwoItems
  ItemModel <- AllModelA
  Created <- SameTime
  ClaimName <- DistinctNames
  Devices = {d1, d2}
  DeviceModel <- DevicesA
  RequestIds = {1}
  LimitChoices <- NoLimit
  Lagging = {}
  MaxFaults = 1
  OpenPhases = {"idle", "devices"}
INVARIANTS DemandRequested
PROPERTIES ScaleDownKeepsRecent RescheduledIsAttached
SYMMETRY DeviceSymmetry
