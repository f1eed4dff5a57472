CONSTANTS
  Nil = Nil
  Failed = Failed
  Word = 256
SPECIFICATION SpecWildcards
INVARIANT WildcardRoutesMatchHost
