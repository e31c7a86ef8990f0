SPECIFICATION ServicesSpec
CONSTANTS
  Devices = {1, 2}
  Controllers = {1}
  MaxEntries = 4
  MaxOpened = 3
  MaxChanges = 4
  MaxPlugs = 2
  Videos = {"v"}
  MaxRecent = 1
  Clients = {"c1", "c2", "c3"}
  MaxConnections = 2
INVARIANTS
  DevicesClosedOnce
  SlotsAreConnections
  ClosedAfterExecution
PROPERTIES
  PressIsServed
  MainProceeds
  EveryClientIsServed
CHECK_DEADLOCK FALSE
