SPECIFICATION BindSpec
CONSTANTS
  Protocols = {"mbind", "relay", "ssh"}
  Forwards = {1, 2, 3}
  Peers = {1, 2}
  MaxBreaks = 1
  MaxLives = 2
CHECK_DEADLOCK FALSE
INVARIANT AcceptingIsBound
PROPERTIES BoundAgain EverythingSettles
