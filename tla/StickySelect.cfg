\* One task selects again and again, against writers, quarantine and the sweep.
SPECIFICATION StickySpec
CONSTANTS
  a1 = a1
  a2 = a2
  Addresses = {a1, a2}
  Countries = {"US"}
  Fold <- SameCase
  Registered <- InPlace
  Sessions = {s1}
  MaxSessions = 1
  SessionTtl = 1
  Selectors = {r1}
  Horizon = 2
INVARIANTS
  NoOutdatedAnswer
PROPERTIES
  BucketAgreesWithScan
