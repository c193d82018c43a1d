\* Two gateways, one node, two bans, one fault, signal or restart anywhere.
SPECIFICATION FairSpec
CONSTANTS
  Gateways = {g1, g2}
  Nodes = {n1}
  Sites = {"site"}
  CountryOf <- SameCountry
  Cooldown = 1
  Soft = 2
  Deep = 3
  OperatorTtl = 1
  Attended = {g1}
  MaxBans = 2
  MaxFaults = 1
INVARIANTS
  TablesAgree
  
PROPERTIES
  BansEnd
  
