CONSTANTS
  Nil = Nil
  Server = {n1, n2, n3}
  Value = {v1}
  Faults = {}
  Electors = {n1, n2}
  Crashing = {n2}
  StaleDelivery = FALSE
  MaxTerm = 4
  MaxLog = 1
SPECIFICATION Spec
VIEW LiveView
INVARIANTS LeaderCompleteness StateMachineSafety Assertions
