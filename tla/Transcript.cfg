\* Two turns of four answers with up to two calls: a second compression can
\* meet the summary of the first, and a turn can fail after compressing.
CONSTANTS
  MaxTurns = 2
  MaxRounds = 4
  MaxCalls = 2
\* The session ends after MaxTurns turns, a turn after MaxRounds answers.
CHECK_DEADLOCK FALSE
SPECIFICATION Spec
INVARIANTS TypeOK ResultHasCall ChainsAnswered HistoryIsPrefix
