\* Two children share the one place of the signal channel, with a line and
\* an interrupt in between.
CONSTANTS
  NInputs = 1
  Tasks = {t1, t2}
  MaxSignals = 1
  Async = Async
  Quit = Quit
  Reply = Reply
  NoRun = NoRun
\* The session ends when main returns, and otherwise waits for the user.
CHECK_DEADLOCK FALSE
SPECIFICATION FairSpec
INVARIANTS TypeOK NotificationConserved WakeUpPending NoUnpromptedReply
PROPERTIES NotificationServed
