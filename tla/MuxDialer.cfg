SPECIFICATION Spec
CONSTANTS
  Dials = {d1, d2, d3}
  Addrs = {"name", "ip"}
  Name = "name"
  Kinds <- AllKinds
  MaxSess = 3
  MaxFailed = 3
SYMMETRY Symmetry
INVARIANTS LiveIsShared PendingHasDialer QuietDialSucceeds
CHECK_DEADLOCK FALSE
