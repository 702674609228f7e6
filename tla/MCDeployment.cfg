SPECIFICATION Spec
CONSTANTS
  r1 = r1
  r2 = r2
  r3 = r3
  Releases = {r1, r2, r3}
  NoRelease = NoRelease
  Supports <- Schemas
INVARIANTS
  DeploymentInv
  ProvenWasReady
PROPERTIES
  FailureRestores
