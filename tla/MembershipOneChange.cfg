CONSTANTS
  Node = {1, 2, 3}
  Self = 1
  Founders = {1, 2}
  MaxLog = 4
  MaxAstray = 1
  Orderly = TRUE
  Failing = FALSE
SPECIFICATION MemberSpec
PROPERTIES OneVotingChange
CHECK_DEADLOCK FALSE
