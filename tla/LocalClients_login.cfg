SPECIFICATION Spec
CONSTANTS
  Conn = {"c1", "c2", "c3", "c4"}
  Address <- ThreeAddresses
  Name = {"x", "y", "9"}
  Valid = {"x", "y"}
  MaxClients = 3
  PerIP = 1
  Blocks = 1
  Held = 2
INVARIANTS UniqueNicks ClassHolds
PROPERTIES WaitsEnd
