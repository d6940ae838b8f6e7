\* Every statement kind, loops in loops and in branches, the cap reached.
CONSTANTS
  Programs <- MCPrograms
  MaxExecuteNum = 2
  MaxRounds = 3
SPECIFICATION FairSpec
INVARIANTS AnswerEndsTheRule FlagStaysInLoop
PROPERTIES LoopsRunTheirRounds RuleTerminates
CHECK_DEADLOCK FALSE
