SPECIFICATION Spec
CONSTANTS
  Server = {"A", "B"}
  User = {"a", "b", "d"}
  Home <- PairHome3
  Link <- PairLinks
  Behind <- PairBehind
  Linked <- PairLinks
  MaxSessions = 1
  MaxQueue = 3
  Calm = {"nick"}
  Name = {"ab", "ba", "r1"}
  Choice = {"ab", "ba"}
  Rotation <- PairRotation
  MaxTS = 2
  Stamp <- AnyStamp
  Waits = TRUE
  Command = {"NICK", "QUIT"}
INVARIANTS NamesAgree IntroducedOnce
CHECK_DEADLOCK FALSE
