\* A child finishes during a turn that is then interrupted.
CONSTANTS
  NInputs = 1
  Tasks = {t1}
  MaxSignals = 1
  Async = Async
  Quit = Quit
  Reply = Reply
  NoRun = NoRun
\* The session ends when main returns, and otherwise waits for the user.
CHECK_DEADLOCK FALSE
SPECIFICATION FairSpec
PROPERTIES NotificationReceived
