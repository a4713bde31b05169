\* A second line waits behind a turn that is interrupted.
CONSTANTS
  NInputs = 2
  Tasks = {t1}
  MaxSignals = 1
  Async = Async
  Quit = Quit
  Reply = Reply
  NoRun = NoRun
\* The session ends when main returns, and otherwise waits for the user.
CHECK_DEADLOCK FALSE
SPECIFICATION Spec
PROPERTIES StaleNotReplayed
