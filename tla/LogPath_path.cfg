SPECIFICATION PathFairSpec
CONSTANTS Lines = 2  Room = 1  Backlog = 2  Limit = 1  Slots = {1, 2}
INVARIANTS RoomIsAccounted IdsAreForever NoGaps
PROPERTIES ImplementsMessageLog QueueMoves ReceivedIsRecorded PageCatchesUp
CHECK_DEADLOCK FALSE
