\* Two handlers with two calls each, as many as can pass a breaker that opens
\* at two failures; no liveness here, so the handlers may be permuted.
CONSTANTS
  Workers = {w1, w2}
  connect = connect
  notify = notify
  CircuitBreakerThreshold = 2
  MaxCalls = 2
  MaxLines = 1
  SlowConnect = TRUE
SYMMETRY Symmetry
\* Nothing is left to do after Shutdown and MaxCalls calls.
CHECK_DEADLOCK FALSE
SPECIFICATION Spec
INVARIANTS TypeOK PendingInFlight NoneStranded NoSendOnClosed BreakerBound
