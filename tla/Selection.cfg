\* Two tiers, a window of two, two requests, a node that may leave and return with another login.
SPECIFICATION FairSpec
CONSTANTS
  Nodes <- Rotated
  Window = 2
  Requests = {r1, r2}
  IdleTtl = 1
  MaxMissed = 12

  
PROPERTIES
  StraysLeave
