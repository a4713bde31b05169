\* MaxSteps 6 lets the run loop twice through the LLM node and pause twice.
CONSTANTS
  Nodes <- MCNodes
  Strays <- MCStrays
  NoNode <- MCNoNode
  StartAt = "llm"
  OnError = "rescue"
  GraphMaxSteps = 6
  Edges <- MCEdges
  Kind <- MCKind
  Choices <- MCChoices
  Async = {"callback"}
  MaxAttempts <- MCMaxAttempts
  AttemptLimit = 3
  Catch <- MCCatch
  Errors = {"rate_limited", "other", "canceled"}
  Canceled = "canceled"
  Conditions = {"approved"}
  NoCondition = "always"
  NoSnapshot = NoSnapshot
\* An execution ends when it is done or has failed.
CHECK_DEADLOCK FALSE
SPECIFICATION FairSpec
INVARIANTS TypeOK CallsBounded
PROPERTIES Stops Spends ContractSpec
