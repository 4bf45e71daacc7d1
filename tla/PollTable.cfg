SPECIFICATION PollSpec
CONSTANTS
  MaxFd = 4
  Fulls = {3}
INVARIANTS TableAgrees
PROPERTIES InputIsRead
CHECK_DEADLOCK FALSE
