\* Two addresses and room for one; a lifetime of two intervals, a backoff of
\* one or two; a source is suspended after one empty fetch.
CONSTANTS
  a = a
  b = b
  s = s
  t = t
  ListedAddrs = {a, b}
  SourceOrder <- OneSource
  Kind <- Api
  Default <- AllHttp
  Rows <- ApiRows
  Shows <- AnyRows
  HtmlWindow = 1
  IntakeCap = 2
  MarkCap = 1
  GeoFound = {"us", "de"}
  GeoEnforce = TRUE
  MaxNodes = 1
  Ttl = 2
  Interval = 1
  MaxBackoff = 2
  MaxRun = 1
  MaxZero = 1
  RetryEvery = 2
  RequireElite = TRUE
SPECIFICATION FairSupply
PROPERTIES
  DeadLeave OutageCostsNothing FactorsSettle SourcesRetried
