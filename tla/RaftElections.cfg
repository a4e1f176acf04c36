CONSTANTS
  Nil = Nil
  Server = {n1, n2, n3}
  Value = {v1}
  Faults = {"term", "log", "apply"}
  Electors = {n1, n2, n3}
  Crashing = {n1, n2, n3}
  StaleDelivery = FALSE
  MaxTerm = 2
  MaxLog = 1
SPECIFICATION Spec
SYMMETRY Symmetry
VIEW LiveView
INVARIANTS ElectionSafety
PROPERTIES VoteKept CommittedStays
