\* Two lines and a notification can wait together behind a turn that a
\* signal interrupts.
CONSTANTS
  NInputs = 2
  Tasks = {t1}
  MaxSignals = 1
  Async = Async
  Quit = Quit
  Reply = Reply
  NoRun = NoRun
\* The session ends when main returns, and otherwise waits for the user.
CHECK_DEADLOCK FALSE
SPECIFICATION FairSpec
INVARIANTS OneRun InputsInOrder ExitAfterShutdown
PROPERTIES LineServed
