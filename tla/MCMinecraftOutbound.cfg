SPECIFICATION Spec
CONSTANTS
  c1 = c1
  c2 = c2
  Conns <- MCTwo
  Requests <- MCOverTCP
  Configs <- MCAllConfigs
INVARIANTS ServedAreListed PreambleFirst NothingKept PlayersCounted
SYMMETRY MCSymmetry
CHECK_DEADLOCK FALSE
