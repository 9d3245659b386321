CONSTANTS
  MAXJOBS = 2
  Pids = {1, 2}
  JidCap = 3
  Fates = {"kill"}
  Builtins = {}
  Keys = {}
SPECIFICATION Spec
INVARIANTS NoForgottenZombie
