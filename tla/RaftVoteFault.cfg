CONSTANTS
  Nil = Nil
  Server = {n1, n2, n3}
  Value = {v1}
  Faults = {"vote"}
  Electors = {n1, n2}
  Crashing = {}
  StaleDelivery = TRUE
  MaxTerm = 1
  MaxLog = 0
SPECIFICATION Spec
INVARIANTS GrantsComeFromFollowers
