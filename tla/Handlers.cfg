SPECIFICATION Spec
CONSTANTS
  Kinds <- AllKinds
  MaxUp = 2
  MaxDown = 2
CHECK_DEADLOCK FALSE
INVARIANTS AnswersFit NothingLostOrMade EndsFit ClosedOnce
PROPERTIES EverythingEnds
