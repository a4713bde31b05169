\* One handler with two calls, with Connect and the notification, meets the
\* end of the subprocess, late and doubled answers and Shutdown.
CONSTANTS
  Workers = {w1}
  connect = connect
  notify = notify
  CircuitBreakerThreshold = 1
  MaxCalls = 2
  MaxLines = 1
  SlowConnect = TRUE
\* Nothing is left to do after Shutdown and MaxCalls calls.
CHECK_DEADLOCK FALSE
SPECIFICATION FairSpec
PROPERTIES GoneServerReleases StoppedMeansGone
