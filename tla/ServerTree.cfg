SPECIFICATION Spec
CONSTANTS
  Server = {"A", "B", "C"}
  Link <- Triangle
  Paired = {}
  MaxSessions = 5
INVARIANTS TreeOK Agreed
PROPERTIES Settles
CHECK_DEADLOCK FALSE
