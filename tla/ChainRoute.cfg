SPECIFICATION ChainSpec
CONSTANTS
  Dialers = {d1, d2}
  Group <- FailoverGroup
  HopsOf <- FailoverHops
  Targets = {"x", "y"}
  HopBypass <- FailoverHopBypass
  NodeBypass <- FailoverNodeBypass
  Backup = {"a2"}
  Mux = {"a3"}
  Down = {"a1", "b1"}
  Solid = {"a2", "a3"}
  Strategies = {"random", "round"}
  Hash <- NoHash
  MaxFails = 2
  Period = 2
  MaxCount = 4
SYMMETRY DialersAlike
INVARIANTS FailuresBounded LoneNodeNeverSkipped
