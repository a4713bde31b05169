\* One turn is enough: its first tool call sits in the protected head.
CONSTANTS
  MaxTurns = 1
  MaxRounds = 4
  MaxCalls = 2
\* The session ends after MaxTurns turns, a turn after MaxRounds answers.
CHECK_DEADLOCK FALSE
SPECIFICATION Spec
INVARIANTS TailChain
