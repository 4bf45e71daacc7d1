SPECIFICATION MCSpec
CONSTANTS
  Before <- Contract
  Me = me
  Nowhere = nowhere
  Server = {s1}
  User = {a, b}
  Channel = {ch, dh}
  Mode = {"i", "P"}
  MaxChannels = 1
  MaxTargets = 2
SYMMETRY Symmetry
INVARIANTS ListsInStep VerdictHolds InviteSpent
PROPERTIES LastOneOutClosesDoor PersistentKeepsLocals
CHECK_DEADLOCK FALSE
