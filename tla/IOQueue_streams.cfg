SPECIFICATION Spec
CONSTANTS
  Conn = {c1, c2}
  Block = {b1, b2, b3, b4, b5, b6}
  ChunkSize = 2
  Message <- Messages
  MaxQueued = 2
  NL = "nl"
VIEW View
CONSTRAINT OneReceives
INVARIANTS QueuesAgree
PROPERTIES ActsAsStreams
CHECK_DEADLOCK FALSE
