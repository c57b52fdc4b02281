SPECIFICATION FairSpec
CONSTANTS
  Workrooms = {w1}
  Office = office
  NoRoom = none
  Kinds = {"history"}
  ColdTail = 1
  MaxRows = 3
  MaxPruned = 1
  MaxBreaks = 1
INVARIANTS TypeOK WorkroomHistoryComplete EveryRowOnce WorkroomViewIsCache
PROPERTIES WorkroomRowsArriveInOrder ImplementsRoomFeed OpenRoomIsRead
CHECK_DEADLOCK FALSE
