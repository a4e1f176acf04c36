CONSTANTS
  Key = {"k1", "k2"}
  FileVersion = 2
  DumpMax = 2
  MaxVersion = 7
  MaxCrashes = 2
  Server = {1, 2, 3}
  Nil = 0
  MaxChanges = 6
  Item = {100, 200}
  Field = {"num", "obj"}
  Value = {0, 1}
  Cfgs <- QuestCfgs
  Handled = {"lv"}
  MaxLevel = 2
  MaxNum = 4
  Node = {1, 2, 3}
  Self = 1
  Founders = {1, 2}
  MaxLog = 4
  MaxAstray = 1
  Orderly = FALSE
  Failing = TRUE
  HashKey = {1, 2, 3}
  HashField = {1, 2}
  Wanted = {1, 2, 3}
  Count = 1
  MaxWrites = 3
  Handle = {1, 2}
  AttrId = {1, 2}
  AttrValue <- SourceValues
  Unit = {102, 205}
  Amount = {1, 3}
  IdEnd = 4
  MaxBuffs = 3
  MaxRounds = 3
SPECIFICATION Spec
INVARIANTS
  TypeOK OneMasterWins ReplicaFollows FindsAWay SumsAddUp BuffsAddUp ShowsWhatIsThere
  CountsEvents OnTime RecoversAll CatchUp NodesFollowLog ScanFindsAll
CHECK_DEADLOCK FALSE
