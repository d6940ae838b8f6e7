\* Executions take the rules while the context in use is updated.
SPECIFICATION ReadersSpec
CONSTANTS
  n1 = n1
  n2 = n2
  Names <- MCNames
  GrownTo <- MCGrownTo
  Saliences = {1, 2}
  Calls = {"build", "incremental"}
  MaxCalls = 3
  Readers = {r1}
SYMMETRY NameSymmetry
\* the calls are bounded
CHECK_DEADLOCK FALSE
INVARIANT ReadersSeePublished
