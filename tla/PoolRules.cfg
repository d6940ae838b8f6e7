\* Two instances, two rules, three calls.
SPECIFICATION Spec
CONSTANTS
  Names = {"a", "b"}
  FirstText = {"a"}
  max = 2
  MaxCalls = 3
  MaxRunning = 1
INVARIANTS InstancesAgree UpdateVisible NothingLostBetween
