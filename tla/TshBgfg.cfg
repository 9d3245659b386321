CONSTANTS
  MAXJOBS = 2
  Pids = {1, 2}
  JidCap = 2
  Fates = {"exit", "kill", "stop", "cont"}
  Builtins = {"fg", "bg"}
  Keys = {"SIGTSTP"}
SPECIFICATION Spec
INVARIANTS NoStaleJob ForwardSparesBackground
PROPERTIES ImplementsJobControl
