SPECIFICATION HubFairSpec
CONSTANTS
  Clients = {c1, c2}
  Capacity = 1
  MaxEvents = 3
INVARIANTS
  HubTypeOK
  EveryEventInOnePlace
  ContiguousFeed
PROPERTIES
  HubImplementsFeed
  EveryEventIsBroadcast
  EveryUpgradeIsRegistered
CHECK_DEADLOCK FALSE
