SPECIFICATION FairSpec
CONSTANTS
  i1 = i1
  i2 = i2
  b1 = b1
  None = None
  Instance = {i1, i2}
  Binding = {b1}
  Slow = {i2}
  Disabled = {i1}
  Filter = {"change", "throttle"}
  MaxValue = 2
  MaxInputs = 4
  MaxOf <- MCMaxOf
INVARIANTS
  TypeOK
  OfferedWhenSettled
  SeenIsConnected
PROPERTY
  EventuallyOffered
CHECK_DEADLOCK FALSE
