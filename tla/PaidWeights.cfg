\* All writers of the weights, one task serving the switch.
SPECIFICATION PaidSpec
CONSTANTS
  a1 = a1
  a2 = a2
  a3 = a3
  g1 = g1
  g2 = g2
  Addrs = {a1, a2, a3}
  Groups = {g1, g2}
  Group <- TwoGroups
  Verdicts = {0, 100}
  NodeWeights = {100}
  PatchWeights = {0, 40}
  Handlers = {h1}
  Boosts = {150, 500}
INVARIANTS
  BasesSound
  SwitchApplied
