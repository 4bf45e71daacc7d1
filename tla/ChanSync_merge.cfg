SPECIFICATION EitherSpec
CONSTANTS
  Server = {"A", "B", "C"}
  User = {"a", "c"}
  Home <- RowHome
  Link <- RowLinks
  Behind <- RowBehind
  Linked <- RowUpper
  Mode = {"i"}
  MaxTS = 2
  MaxSessions = 2
  MaxQueue = 2
  Command = {"PART", "MODE"}
  Calm = {"client", "link"}
  Client = {"a"}
  HomeOf <- RowClient
  MaxUModes = 2
INVARIANTS CopiesAgree ModesAgree OperatorsAgree UsersListed
CHECK_DEADLOCK FALSE
