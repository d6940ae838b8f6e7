\* Calls after ClearPoolRules.
SPECIFICATION Spec
CONSTANTS
  Names = {"a", "b"}
  FirstText = {"a"}
  max = 2
  MaxCalls = 2
  MaxRunning = 1
INVARIANT NoManagementPanic
