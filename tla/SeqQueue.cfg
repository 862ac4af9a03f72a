CONSTANTS
  v1 = v1
  v2 = v2
  numElems = 3
  Values = {v1, v2}
  Nobody = Nobody
SPECIFICATION QueueSpec
PROPERTIES
  FifoImplemented
