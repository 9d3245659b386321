CONSTANTS
  BASIC_LIST <- MCBasic
  CACHE_LIST <- MCCache
  FETCH_FILE = "home.html"
  PORT_START = 1
  PORT_MAX = 3
  MAX_RAND = 1
  StrayPorts = {1}
  Proxies <- MCProxies
  MaxOthers = 1
SPECIFICATION Spec
INVARIANTS PointsAreEarned CapableGetsAll
PROPERTIES DriverEnds
CHECK_DEADLOCK FALSE
