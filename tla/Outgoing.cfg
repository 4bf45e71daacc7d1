SPECIFICATION OutSpec
CONSTANTS
  t1 = t1  t2 = t2  t3 = t3  a = a  b1 = b1  p1 = p1  p2 = p2
  Slot = {t1, t2, t3}
  NoTimer = none
  None = none
  Conn = {a}
  Named = {a}
  Asker = {a}
  FreeTimers <- Timer3
  MaxHeld = 1
  FailAtOnce = FALSE
  Block = {b1}
  FreeBlocks <- OneBlock
  Look = {l1}
  Ports <- TwoPorts
  MaxTimers = 1
INVARIANTS Owned
PROPERTIES TriesAgain StaysUp LookupsGoOn
