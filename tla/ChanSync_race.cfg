SPECIFICATION Spec
CONSTANTS
  Server = {"A", "B"}
  User = {"a", "b"}
  Home <- PairHome
  Link <- PairLinks
  Behind <- PairBehind
  Linked <- PairLinks
  Mode = {"i"}
  MaxTS = 2
  MaxSessions = 1
  MaxQueue = 2
  Command = {"PART", "MODE", "KICK"}
  Calm = {}
INVARIANTS MembersAgree
PROPERTIES NoTakeover
CHECK_DEADLOCK FALSE
