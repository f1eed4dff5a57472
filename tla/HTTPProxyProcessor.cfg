CONSTANTS
  Nil = Nil
  Failed = Failed
  Word = 256
SPECIFICATION MCSpec
INVARIANTS
  OrphansExact
  CyclesReported
  TLSHostsSound
  RoutesAsAsked
PROPERTY InvalidStays
