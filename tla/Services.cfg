SPECIFICATION Spec
CONSTANTS
  Consumers = {c1}
  EVENT_RETENTION = 3
  Limit = 2
  Timeout = 3
  PollInterval = 2
  MaxEvents = 4
  Agents = {a1, a2}
  Everyone = Everyone
  Window = 1
  MaxMessages = 2
  MaxTime = 1
  Clients = {p1}
  Sizes = {1, 2}
  MAX_OUTPUT_BYTES = 2
  CHANNEL = 2
  MaxChunks = 5
  N = 3
INVARIANTS
  NothingSkipped
  AcknowledgedWasListed
  EndLeavesNothing
  EndedRunStaysStopped
PROPERTIES
  WaitersReturn
  MessagesArrive
  StreamIsWhole
  OutputReachesClients
  StopEndsWorkers
CHECK_DEADLOCK FALSE
