\* Liveness and refinement: three calls without data compete for 1 + 1 instances.
SPECIFICATION Spec
CONSTANTS
  r1 = r1
  r2 = r2
  r3 = r3
  Requests = {r1, r2, r3}
  poolMinLen = 1
  poolMaxLen = 2
  ApiNames = {}
  DataNames = {}
  Plugins = {}
  Host = Host
  NULL = NULL
PROPERTY ImplementsLease
\* every call may have returned, and nobody is obliged to call again
CHECK_DEADLOCK FALSE
