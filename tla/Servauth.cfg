SPECIFICATION Spec
CONSTANTS
  Question = {"r","z","i","p"}
  Kind <- KindOfAll
  About <- AboutAll
  Preset = "any"
  None = None
  MaxQueries = 2
  MaxFd = 2
  MaxUnread = 1
  CacheSize = 1
INVARIANTS SocketsOwned
PROPERTIES KeepsPromise AllAnswered
