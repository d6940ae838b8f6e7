\* Safety: three calls compete for 1 + 1 instances.
SPECIFICATION Safety
CONSTANTS
  r1 = r1
  r2 = r2
  r3 = r3
  Requests = {r1, r2, r3}
  poolMinLen = 1
  poolMaxLen = 2
  ApiNames = {"api"}
  DataNames = {"d1"}
  Plugins = {"plugin"}
  Host = Host
  NULL = NULL
SYMMETRY CallSymmetry
INVARIANTS EveryWrapperOnce NoEmptyPop RulesSeeOwnData ResultsAreOwn BoundForTheCallOnly PluginOnEveryInstance
