CONSTANTS
  Services = {s1, s2}
  Conns = {c1, c2, c3}
  NHosts = 2
  Configs <- MCConfigs
  HandlerCloses = 1
  MaxReloads = 1
SPECIFICATION MCSpec
SYMMETRY Symmetry
INVARIANTS OpenWithinLimit NoSlotLostAlone
PROPERTY IsQuota
