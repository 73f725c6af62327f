SPECIFICATION FairSpec
CONSTANTS
  first = first
  second = second
  crashing = crashing
  offline = offline
  MaxPart = 2
  Image <- MCImage
  Version <- MCVersion
  Unknown <- MCUnknown
  Size <- MCSize
  VersionOf <- MCVersionOf
  Health <- MCHealth
  Step = 60
  MaxRead = 2
  MaxSwaps = 1
  None = None
INVARIANTS AlwaysBootable ProgressToldInFull
PROPERTIES UpdateContract TrialEnds
