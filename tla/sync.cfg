SPECIFICATION FairSpec
CONSTANTS
  Devices = {a1, a2}
  Items = {i1, i2}
  Orders <- AllOrders
  None = None
  MaxTime = 2
INVARIANTS
  TypeOK
  AnsweredIsKept
PROPERTIES
  ImplementsStore
  PushesEnd
CHECK_DEADLOCK FALSE
