CONSTANTS
  p1 = p1
  p2 = p2
  c1 = c1
  c2 = c2
  Publishers <- OnePublisher
  Connections <- TwoConnections
  auth = auth
  call = call
  Types <- TwoTypes
  AnyType = "any"
  Cap = 1
  QueueSize = 1
  MaxEvents = 2
SPECIFICATION Spec
CHECK_DEADLOCK FALSE
INVARIANTS TypeOK Bounded SlotsAccounted
PROPERTIES PublisherNeverStuck GoneClientFreesSlot
