\* Two handlers, one place left in the list, an address that is also free.
SPECIFICATION Spec
CONSTANTS
  a1 = a1
  a2 = a2
  a3 = a3
  Addrs = {a1, a2, a3}
  Groups <- ProviderGroups
  Weights = {0, 1, 2}
  Posted <- SomePosts
  Seeds <- OneSeed
  FreeAddrs = {a1, a2}
  TestSpecs <- OneInjected
  KeepsFile = TRUE
  Handlers = {h1, h2}
  MaxManaged = 2
  MaxWeight = 1
INVARIANTS
  FileLoads
  PoolServesManaged
PROPERTIES
  ImplementsNodeList
