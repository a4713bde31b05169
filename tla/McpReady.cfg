\* No tool call is needed: the server is ready when Connect returns.
CONSTANTS
  Workers = {w1}
  connect = connect
  notify = notify
  CircuitBreakerThreshold = 2
  MaxCalls = 1
  MaxLines = 1
  SlowConnect = FALSE
\* Nothing is left to do after Shutdown and MaxCalls calls.
CHECK_DEADLOCK FALSE
SPECIFICATION Spec
INVARIANTS ReadyNotKilled
