CONSTANTS
  Leader = l
  Follower = {f1}
  Term = 3
  OldTerm = 2
  StrayTerm = 1
  Prior = 1
  MaxLog = 5
  InFlight = 2
  Followed = {}
SPECIFICATION Spec
INVARIANTS PrevIsJustBefore
