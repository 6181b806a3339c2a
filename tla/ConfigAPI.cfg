SPECIFICATION Spec
CONSTANTS
  Clients = {c1, c2}
  Names = {n1, n2}
  Datas = {d1, d2}
  Ops = {"create", "update", "delete"}
  Kinds <- AllKinds
  MaxObjs = 3
SYMMETRY Symmetry
INVARIANTS ConfigMatchesRegistry ServingIsReachable OneWinner DefaultOnlyInWindow
CHECK_DEADLOCK FALSE
