\* Two tasks set and lift on a table with room for one of three domains, the
\* sweep in between.
SPECIFICATION FairSpec
CONSTANTS
  d1 = d1
  d2 = d2
  d3 = d3
  i1 = i1
  i2 = i2
  Targets <- TwoOfOne
  Domains = {d1, d2, d3}
  Ips = {i1, i2}
  Threads = {t1, t2}
  MaxDomains = 1
  Ttls = {1}
  Horizon = 3
INVARIANTS
  NoEmptyDomainLeaked
  SoftWatermark
PROPERTIES
  EntriesServeTheirTime
