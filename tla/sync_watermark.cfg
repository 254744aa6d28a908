SPECIFICATION PullSpec
CONSTANTS
  Devices = {a1}
  Items = {i1, i2}
  Orders <- AllOrders
  None = None
  MaxTime = 2
  Readers = {r1}
  PageSize = 2
PROPERTY PullReturnsChanges
CHECK_DEADLOCK FALSE
