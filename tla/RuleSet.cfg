SPECIFICATION Spec
CONSTANTS
  Contents <- SomeContents
  Sources = {"redis"}
CHECK_DEADLOCK FALSE
INVARIANTS AnswerInForce
PROPERTIES CloseEndsReload
