SPECIFICATION Spec
CONSTANTS
  Clients = {c1, c2}
  Server = Server
  Nobody = Nobody
  MaxItems = 10
INVARIANTS EnginesIdle
CHECK_DEADLOCK FALSE
