SPECIFICATION StartFairSpec
CONSTANTS
  Jobs = {j1, j2}
  Keys = {k1, k2, k3}
  NoKey = NoKey
  MaxCrashes = 3
INVARIANTS
  Readable
  RetriesRecognised
  StartupInv
PROPERTIES
  NeverDowngrades
  OpensUnlessStuck
