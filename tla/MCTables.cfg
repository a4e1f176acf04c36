CONSTANTS
  entry1 = entry1
  entry2 = entry2
  Blank = Blank
  Entry <- MCEntry
  InitialCapacity = 2
  MaxIdx = 6
  Client = {1, 2}
  SlotGroup <- MCSlotGroup
  SlotOf <- MCSlotOf
  Master <- MCMaster
  Addrs = 3
  MaxOpes = 2
  RankId = {1, 2, 3}
  Limit = 2
  MaxScore = 3
  Rising = TRUE
  MaxTm = 3
  TimerId = {1, 2}
  TimerInfo = {1, 2}
  Times = {1, 2}
  LruKey = {1, 2, 3}
  LruValue = {1, 2}
  Num = 2
  MaxUses = 6
SPECIFICATION TablesSpec
INVARIANTS
  TablesTypeOK Ring ReadsAreEntries FiresOnce KeepsTheBest WritesInOrder SearchesEnd MessagesArrive
PROPERTIES Implements
CHECK_DEADLOCK FALSE
