\* Two events, room for one in the channel, one fault.
SPECIFICATION FairSpec
CONSTANTS
  Events = {e1, e2}
  ChannelCap = 1
  Shards = 1
  ShardOf <- OneShard
  MaxFaults = 1
INVARIANTS
  NoSilentDrop
  LandsOnce
PROPERTIES
  BusDrains
