SPECIFICATION Spec
CONSTANTS
  Backends = {"claude", "grok"}
  MaxOutput = 2
INVARIANT
  CancellationReceived
CHECK_DEADLOCK FALSE
