\* HTTPProxies and Gateways: both writers, edits, failures and a late election.
SPECIFICATION FairSpec
CONSTANTS
  Scenarios <- ServedScenarios
  Addresses = {a1, a2}
  None = None
  QueueCap = 2
  Attempts = 2
PROPERTIES FieldsKept ProxyGenerationsKept StatusesConverge Settles
\* The cluster comes to rest.
CHECK_DEADLOCK FALSE
