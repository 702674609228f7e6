SPECIFICATION FairSpec
CONSTANTS
  Backends = {"claude", "grok", "cursor"}
  MaxOutput = 2
INVARIANTS
  InferenceInv
PROPERTIES
  ImplementsRunner
\* A run that is over, with its child and its agent, stops, and so does the gateway when
\* it is out of descriptors.
CHECK_DEADLOCK FALSE
