SPECIFICATION FairSpec
CONSTANTS
  Clients = {c1, c2}
  Server = Server
  Nobody = Nobody
  MaxItems = 13
INVARIANTS EnginesIdleUnlessSpent EnginesExclusive NotOvertaken StatesLoadedUnlessUnclaimed
PROPERTIES DrawingSubmitted
CHECK_DEADLOCK FALSE
