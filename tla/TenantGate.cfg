\* Three requests on two slots: claims that overshoot, undo and admit in every
\* order, two releases that race, an account disabled or in debt on the way.
SPECIFICATION FairSpec
CONSTANTS
  Requests = {r1, r2, r3}
  MaxConc = 2
  Burst = 2
  InitBalance = 1
  AdminBalances <- TopUpOrPenalty
  Sizes = {1}
  Price = 2
CHECK_DEADLOCK FALSE
INVARIANTS
  SlotsAccounted
  ConcurrencyBounded
  MeteredOnce
PROPERTIES
  ImplementsLedger
