SPECIFICATION EitherSpec
CONSTANTS
  t1 = t1  t2 = t2  t3 = t3  t4 = t4  t5 = t5
  Slot = {t1, t2, t3, t4, t5}
  NoTimer = none
  Client = {a, b}
  Order <- Blocks
  PingFreq = 2
  FloodInterval = 1
  ThrottleInterval = 1
  MaxLate = 1
  MaxDrift = 1
  ClockSteps <- SetClock
  MaxSteps = 1
  Region = {r1, r2, r3}
  ChunksPerBlock = 2
  Payload = 12
  BlockHeader = 2
  ChunkHeader = 2
  Word = 2
  Size = {1, 4, 8}
SYMMETRY Symmetry
INVARIANTS PointersAgree CalledInTime HeapsTidy
PROPERTIES NeverEarly ActsAsHeap
