SPECIFICATION TrafficSpec
CONSTANTS
  Conns = {"c"}
  HostOf <- OneHost
  Rules <- SomeRules
  MaxReloads = 3
  MaxData = 3
  MaxLims = 7
INVARIANTS RulesInForce NothingBlocked ReadInOrder
