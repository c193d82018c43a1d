\* Two requests, http and socks, with and without credentials, over paid and free
\* nodes of both kinds.
SPECIFICATION FairSpec
CONSTANTS
  Requests = {r1, r2}
  MaxConc = 2
  Nodes = {n1, n2, f1, s1, s2}
  Free = {f1, s2}
  Socks = {s1, s2}
  MaxRetries = 2
  Kinds <- AllSorts
  Answers = {200, 403}
  Configs <- Startups
CHECK_DEADLOCK FALSE
INVARIANTS
  OnlyConfiguredKey
  CredentialsStayOffFree
  
  
PROPERTIES
  ImplementsLedger
