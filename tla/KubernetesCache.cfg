\* The three families of kinds; one Secret is named by the configuration file.
SPECIFICATION MCSpec
CONSTANTS
  a = a
  b = b
  Families <- AllFamilies
  Namespaces <- TwoNamespaces
  Kinds <- ServedKinds
  Absent = Absent
  Own = Own
  Anywhere = Anywhere
  OwnQualified = FALSE
  IngressClassName = a
  ConfiguredSecretRefs <- OneSecret
INVARIANTS CacheMirrorsWorld
PROPERTIES RebuildRequested
