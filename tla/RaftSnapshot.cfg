CONSTANTS
  Leader = l
  Follower = {f1, f2}
  Term = 3
  OldTerm = 2
  StrayTerm = 1
  Prior = 2
  MaxLog = 3
  InFlight = 2
  Followed = {}
SPECIFICATION Spec
SYMMETRY Symmetry
INVARIANTS AppliedInOrder LogIsTheLeaders MarksInOrder AcknowledgedIsHeld NoShutdown
