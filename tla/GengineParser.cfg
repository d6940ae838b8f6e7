\* A text is read to its end and the parser stops.
SPECIFICATION Spec
CONSTANT Scopes <- ParserScopes
INVARIANTS TreesFitTheGrammar OperatorsGroupLeft
PROPERTY ParseEnds
CHECK_DEADLOCK FALSE
