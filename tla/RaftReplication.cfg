CONSTANTS
  Nil = Nil
  Server = {n1, n2, n3}
  Value = {v1}
  Faults = {}
  Electors = {n1, n2}
  Crashing = {}
  StaleDelivery = FALSE
  MaxTerm = 2
  MaxLog = 2
SPECIFICATION Spec
VIEW LiveView
INVARIANTS TypeOK LogMatching
PROPERTIES LeaderAppendOnly
