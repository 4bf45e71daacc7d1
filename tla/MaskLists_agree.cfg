SPECIFICATION EitherSpec
CONSTANTS
  Server = {"A", "B"}
  User = {"a", "b"}
  Home <- PairHome
  Link <- PairLinks
  Behind <- PairBehind
  Linked = {}
  Mask = {"ann", "amy", "a?", "a*"}
  Plain = {"ann", "amy", "a*"}
  Matches <- Matching
  MaxBans = 2
  ModesPerLine = 2
  PerLine = 3
  MaxLine = 1
  MaxSessions = 2
  MaxQueue = 1
  Calm = {}
  Ban = {"x", "*"}
  Covers <- Covering
  Client = {"a", "b"}
  HomeOf <- PairHome
  Hits <- Hitting
  MaxGLines = 3
  MaxStops = 1
INVARIANTS ListsKept ListsAgree GLinesHold GLinesAgree
PROPERTIES DropsReplaced
CHECK_DEADLOCK FALSE
