SPECIFICATION ConnsSpec
CONSTANTS
  MaxData = 3
  RxCap = 1
  Backlog = 1
  Network = {"lose", "cut"}
  ConnKinds <- SomeKinds
  MaxItems = 3
  MaxBlock = 2
  RecordCap = 1
INVARIANTS DataInOrder
PROPERTIES IsStream GoesOn
CHECK_DEADLOCK FALSE
