SPECIFICATION Spec
CONSTANTS
  A = A
  B = B
  x = x
  y = y
  BadValue = BadValue
  NoLabel = NoLabel
  Configs <- SmallConfigs
  LabelDevices = {x, y}
  LabelValues <- SomeValues
INVARIANTS ErrorIsDetermined LimitsMeetLabels InvitedIsAccepted
