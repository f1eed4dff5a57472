CONSTANTS
  Nil = Nil
  Failed = Failed
  Word = 256
SPECIFICATION MCSpec
INVARIANTS
  InClearOnlyAsAllowed
  GatewayHostsAllowed
  CrossNamespaceGranted
  AskedIsServed
  ResourcesComplete
  MostSpecificFirst
  WeightsServed
