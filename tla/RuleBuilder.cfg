\* Two calls of any kind on three rules of three saliences.
SPECIFICATION Spec
CONSTANTS
  n1 = n1
  n2 = n2
  n3 = n3
  Names <- MCNames
  GrownTo <- MCGrownTo
  Saliences = {1, 2, 3}
  Calls = {"build", "incremental", "remove"}
  MaxCalls = 2
SYMMETRY NameSymmetry
INVARIANTS RulesAsAsked IndexMapInverse
PROPERTIES PublishedNeverWritten SearchesSortedLists
\* the calls are bounded
CHECK_DEADLOCK FALSE
