SPECIFICATION HttpSpec
CONSTANTS
  Connectors = {"a", "b", "d"}
  Visitors = {"v", "w"}
  Setups <- SomeSetups
  MaxStreams = 2
  Nodes = {"x", "y"}
  Forwards <- SomeForwards
  MaxRequests = 2
CHECK_DEADLOCK FALSE
INVARIANTS LiveIsFound AnswersFitRequests
PROPERTIES NothingStays
