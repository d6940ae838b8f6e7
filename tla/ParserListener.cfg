\* Two rules with headers, statements in statements, expressions in expressions.
CONSTANTS
  n1 = n1
  n2 = n2
  Names <- MCNames
  Saliences = {"5"}
  Nests <- MCNests
SPECIFICATION Spec
SYMMETRY NameSymmetry
INVARIANTS NoPanic EveryRuleItself
PROPERTIES NodesComplete
\* the walk ends
CHECK_DEADLOCK FALSE
