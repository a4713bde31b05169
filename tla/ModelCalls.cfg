\* Two callers share three credentials and can be refused on all of them.
\* Three chunks interleave the arguments of two tool calls.
CONSTANTS
  Callers = {c1, c2}
  Streaming = {c1}
  NKeys = 3
  Default = Default
  MaxRetries = 3
  MaxCalls = 1
  MaxChunks = 3
  Text = Text
  Wrap = 6
\* Nothing is left to do after MaxCalls calls.
CHECK_DEADLOCK FALSE
SPECIFICATION FairSpec
INVARIANTS TypeOK RetryChangesKey AnswerFaithful
PROPERTIES CallReturns CallSpends
