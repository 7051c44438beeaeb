SPECIFICATION FairSpec
CONSTANTS
  overworld = overworld
  nether = nether
  here = here
  there = there
  beyond = beyond
  air = air
  dirt = dirt
  hand = hand
  tool = tool
  listener = listener
  NoValue = NoValue
  Inconsistent = Inconsistent
  Dimensions = {overworld, nether}
  Spots = {here, there, beyond}
  Blocks = {air, dirt}
  Items = {hand, tool}
  Networks = {7}
  Listeners = {listener}
  MaxBlocks = 2
  MaxPackets = 6
INVARIANTS
  ServedIsCurrent
PROPERTIES
  ReadyOncePerConnection
  DisconnectIsTold
CHECK_DEADLOCK FALSE
