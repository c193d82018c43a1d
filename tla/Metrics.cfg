\* Two tasks record three things of any sort while two clients fetch pages.
SPECIFICATION Spec
CONSTANTS
  Threads = {t1, t2}
  Jobs <- Mixed
  Hists = {"duration", "connect", "fetch"}
  Bounds <- TwoBuckets
  SumMax = 4
  LabelCap = 1
  SampleEvery = 2
  Conns = {c1, c2}
  MaxConns = 1
  MaxJobs = 3
INVARIANTS
  CountsExact
  TearBounded
  
  SlotsReturned
SYMMETRY Interchangeable
