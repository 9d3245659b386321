CONSTANTS
  MAXJOBS = 2
  Pids = {1, 2}
  JidCap = 3
  Fates = {"exit", "kill", "stop"}
  Builtins = {"quit"}
  Keys = {"SIGINT"}
SPECIFICATION FairSpec
INVARIANTS EveryChildTracked ForegroundAwaited ListingIsTrue
PROPERTIES EndsAreNoticed InterruptEndsForeground
