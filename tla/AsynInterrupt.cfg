CONSTANTS
  n1 = n1
  n2 = n2
  n3 = n3
  d1 = d1
  d2 = d2
  Nodes = {n1, n2, n3}
  Drivers = {d1}
  NoNode = NoNode
SPECIFICATION IntFairSpec
PROPERTIES
  CallbackListFrozen
  InterruptCallsReturn
